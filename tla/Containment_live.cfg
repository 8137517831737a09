SPECIFICATION FairSpec
CONSTANTS
  d1 = d1
  d2 = d2
  u1 = u1
  i1 = i1
  NoIp = NoIp
  Api = Api
  NotSet = NotSet
  Detections = {d1, d2}
  Users = {u1}
  Ips = {i1}
  Info <- MixedInfo
  Workers = {w1, w2}
  QuarantineTTL = 2
  StepUpTTL = 1
  IpBlockTTL = 1
  ManualTTLs = {2}
  ReceiptTTL = 2
  DeliveryWindow = 1
  MaxTime = 1
  MaxOverrides = 1
CHECK_DEADLOCK FALSE
PROPERTY RetryLoopEnds
PROPERTY ImplementsOnce
