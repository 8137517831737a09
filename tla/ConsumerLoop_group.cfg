SPECIFICATION Spec
CONSTANTS
  p1 = p1
  p2 = p2
  NoOne = NoOne
  Partitions = {p1, p2}
  Workers = {w1, w2}
  LogLen = 2
  Kind <- TwoLogs
  MaxFaults = 2
SYMMETRY Sym
INVARIANT TypeOK
INVARIANT CommittedIsSettled
PROPERTY CommittedNeverRegresses
