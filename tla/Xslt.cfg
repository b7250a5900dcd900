\* Two texts, four changes of the file, four responses.
SPECIFICATION Spec
CONSTANTS
  Texts = {a, b}
  MaxTime = 3
  MaxEdits = 4
  MaxRenders = 4
  Null = Null
CHECK_DEADLOCK FALSE
INVARIANT SavedIsServed
