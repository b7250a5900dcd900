\* Two workers, two sessions, a crash and a failing system call.
SPECIFICATION Spec
CONSTANTS
  Workers = {w1, w2}
  Ids = {i1, i2}
  Inodes = {n1, n2, n3}
  MaxLen = 2
  ConfiguredDuration = 1
  Durations = {0, 1}
  RootKind = "absolute"
  MaxTime = 2
  MaxCalls = 4
  MaxCrashes = 1
  MaxFaults = 1
  None = None
  Torn = Torn
SYMMETRY Interchangeable
CHECK_DEADLOCK FALSE
INVARIANTS TypeOK
PROPERTIES RemovedInTime SweepComplete
