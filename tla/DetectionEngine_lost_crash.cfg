SPECIFICATION Spec
CONSTANTS
  s1 = s1
  s2 = s2
  u1 = u1
  u2 = u2
  i1 = i1
  e1 = e1
  e2 = e2
  e3 = e3
  e4 = e4
  sf = sf
  lon = lon
  none = none
  NotSet = NotSet
  NoIp = none
  Dist <- Distances
  MaxVelocity = 2
  MinTime = 1
  BurstWindow = 5
  AuthWindow = 5
  UserThreshold = 1
  IpThreshold = 1
  BurstThreshold = 2
  Streams = {s1}
  Log <- ShortLog
  Faults = {"crash"}
  MaxFaults = 1
  MaxExpiries = 0
  MaxRuleChanges = 0
CHECK_DEADLOCK FALSE
INVARIANT NoDetectionLost
