SPECIFICATION Spec
CONSTANTS
  None = None
  Catalogue <- MCCatalogue
  Globals = {1, 2}
  Json = 1
  Tokens <- MCTokens
  Requests <- MCRequests
INVARIANTS ReadAsWritten BestServed NeverRefused OwnServed
PROPERTY ReadingEnds
