\* Three workers race for one session; nothing fails.
SPECIFICATION SharedSpec
CONSTANTS
  Workers = {w1, w2, w3}
  Ids = {i1}
  Inodes = {n1, n2, n3, n4}
  MaxLen = 2
  ConfiguredDuration = 0
  Durations = {0, 1}
  RootKind = "absolute"
  MaxTime = 1
  MaxCalls = 4
  MaxCrashes = 0
  MaxFaults = 0
  None = None
  Torn = Torn
SYMMETRY Interchangeable
CHECK_DEADLOCK FALSE
INVARIANTS NoGarbageRead SavedWhole QuiescentReadable
PROPERTY OneStore
