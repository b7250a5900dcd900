\* A request that does not parse.
SPECIFICATION CoreSpec
CONSTANTS
  NHandlers = 2
  MaxModified = 2
  MaxRequests = 3
CHECK_DEADLOCK FALSE
INVARIANT NeverTerminated
