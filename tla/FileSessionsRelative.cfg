\* The session directory configured as a relative path.
SPECIFICATION Spec
CONSTANTS
  Workers = {w1}
  Ids = {i1, i2}
  Inodes = {n1, n2, n3}
  MaxLen = 2
  ConfiguredDuration = 0
  Durations = {0, 1}
  RootKind = "relative"
  MaxTime = 2
  MaxCalls = 4
  MaxCrashes = 0
  MaxFaults = 0
  None = None
  Torn = Torn
SYMMETRY Interchangeable
CHECK_DEADLOCK FALSE
PROPERTY SweepComplete
