CONSTANTS
  N = 3
  MaxKey = 6
  MaxPages = 17
  Old = Old
  New = New
  NoVal = NoVal
  Val <- TwoValues
SPECIFICATION Spec
INVARIANTS
  ArraysFit
  IndexesAgree
PROPERTIES
  ArraysImplementPages
CHECK_DEADLOCK FALSE
