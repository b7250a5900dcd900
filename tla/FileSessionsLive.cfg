\* Every call ends, a crash included.
SPECIFICATION FairSpec
CONSTANTS
  Workers = {w1, w2}
  Ids = {i1}
  Inodes = {n1, n2, n3}
  MaxLen = 2
  ConfiguredDuration = 0
  Durations = {0}
  RootKind = "absolute"
  MaxTime = 1
  MaxCalls = 4
  MaxCrashes = 1
  MaxFaults = 0
  None = None
  Torn = Torn
CHECK_DEADLOCK FALSE
PROPERTY CallsEnd
