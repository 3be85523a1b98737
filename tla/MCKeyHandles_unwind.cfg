CONSTANTS
  N = 3
  Key <- Keys4
  Copies = 2
  MaxPages = 4
SPECIFICATION Spec
INVARIANTS
  BoundaryShared
  UnwindKeepsRoutes
CHECK_DEADLOCK FALSE
