SPECIFICATION Spec
CONSTANTS
  d1 = d1
  d2 = d2
  u1 = u1
  i1 = i1
  NoIp = NoIp
  Api = Api
  NotSet = NotSet
  Detections = {d1, d2}
  Users = {u1}
  Ips = {i1}
  Info <- GeoInfo
  Workers = {w1, w2}
  QuarantineTTL = 2
  StepUpTTL = 1
  IpBlockTTL = 1
  ManualTTLs = {}
  ReceiptTTL = 2
  DeliveryWindow = 1
  MaxTime = 2
  MaxOverrides = 1
SYMMETRY Sym
CHECK_DEADLOCK FALSE
INVARIANT TypeOK
INVARIANT AppliedAtMostOnce
INVARIANT AuditAgrees
PROPERTY EscalationIsExact
PROPERTY ImplementsOnce
