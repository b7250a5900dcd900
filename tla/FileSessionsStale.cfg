\* An expired session saved again between being read and being removed.
SPECIFICATION Spec
CONSTANTS
  Workers = {w1, w2}
  Ids = {i1}
  Inodes = {n1, n2, n3}
  MaxLen = 2
  ConfiguredDuration = 0
  Durations = {0}
  RootKind = "absolute"
  MaxTime = 1
  MaxCalls = 4
  MaxCrashes = 0
  MaxFaults = 0
  None = None
  Torn = Torn
SYMMETRY Interchangeable
CHECK_DEADLOCK FALSE
PROPERTY LiveNeverRemoved
