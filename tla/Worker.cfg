\* Every set of up to three routes, two error handlers, one rewrite, one plug-in.
SPECIFICATION WorkerFairSpec
CONSTANTS
  Literals <- MCLiterals
  Parameters <- MCParameters
  Elements <- MCElements
  Methods = {"GET", "POST"}
  BadMethods = {"none"}
  RoutePaths <- MCRoutePaths
  RequestPaths <- MCRequestPaths
  MaxRoutes = 3
  NHandlers = 2
  MaxModified = 1
  MaxRequests = 2
  Plugins = {"fileSessions"}
  MaxChanges = 1
CHECK_DEADLOCK FALSE
INVARIANTS LookupCorrect ScanInBounds LiteralFirst AnsweredOnce
PROPERTIES Finished PromiseKept
