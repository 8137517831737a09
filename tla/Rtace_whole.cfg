SPECIFICATION RtaceFairSpec
CONSTANTS
  s1 = s1
  s2 = s2
  u1 = u1
  u2 = u2
  i1 = i1
  e1 = e1
  e2 = e2
  e3 = e3
  e4 = e4
  sf = sf
  lon = lon
  none = none
  NotSet = NotSet
  NoIp = none
  Dist <- Distances
  MaxVelocity = 2
  MinTime = 1
  BurstWindow = 5
  AuthWindow = 5
  UserThreshold = 1
  IpThreshold = 1
  DenyScore = 80
  ChallengeScore = 40
  Api = Api
  QuarantineTTL = 1
  StepUpTTL = 1
  IpBlockTTL = 1
  ManualTTLs = {}
  BurstThreshold = 3
  Streams = {s1}
  Log <- ResendLog
  Faults = {"produce", "decide", "get"}
  MaxFaults = 1
  MaxExpiries = 1
  MaxRuleChanges = 0
  MaxAsks = 2
  MaxTime = 1
CHECK_DEADLOCK FALSE
INVARIANT ClearedNeverFlagged
INVARIANT FreshResendReported
INVARIANT AnswersAgree
PROPERTY VerdictsEnforced
