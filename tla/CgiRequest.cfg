SPECIFICATION ParamSpec
CONSTANTS
  None = None
  Default = Default
  Requests <- AllRequests
  Cases <- MCCases
  Members <- MCMembers
INVARIANTS MapsSorted LatestCounts HeadersTurned CookiesReadBack SentArrives NumbersArrive DefaultsForMissing
CHECK_DEADLOCK FALSE
