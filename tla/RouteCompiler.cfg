\* Every case of MCRouteCompiler.
SPECIFICATION CallSpec
CONSTANTS
  Names <- MCNames
  Operations <- MCOperations
  Signature <- MCSignature
  Interface <- MCInterface
  Returns = {withParams}
  Types = {TypeA}
  Slices <- MCSlices
  Declares <- MCDeclares
  Structures = {Mash1, Mash2}
  MembersOf <- MCMembersOf
  Configurations <- MCConfigurations
  Holds <- MCHolds
  Cwd = "cwd"
  Cases <- MCCases
  WaitStatuses <- MCWaitStatuses
  Mash1 = Mash1
  Mash2 = Mash2
  None = None
  Unknown = {unknown}
  withParams = withParams
  returnNothing = returnNothing
  unknown = unknown
  TypeA = TypeA
CHECK_DEADLOCK FALSE
INVARIANTS SymbolsDeclared UrlIndexInPath BodyReadOnce SingleOnItsProxy NoHalfOutput UnitsDestroyed ZeroMeansCompiled
