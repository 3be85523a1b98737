CONSTANTS
  Arr = {a1, a2}
  Elem = {e1, e2, e3, e4}
  Caps = {2, 3}
  NoElem = NoElem
SYMMETRY Symmetry
SPECIFICATION Spec
INVARIANTS
  TypeOK
  RangeInitialized
  OwnedOnce
PROPERTIES
  ActsAsSequence
