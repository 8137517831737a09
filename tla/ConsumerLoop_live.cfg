SPECIFICATION FairSpec
CONSTANTS
  p1 = p1
  p2 = p2
  NoOne = NoOne
  Partitions = {p1}
  Workers = {w1, w2}
  LogLen = 2
  Kind <- OneLog
  MaxFaults = 2
PROPERTY EverythingSettled
PROPERTY ShutdownCompletes
