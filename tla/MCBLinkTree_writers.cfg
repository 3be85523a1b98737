CONSTANTS
  N = 3
  MaxKey = 9
  MaxPages = 11
  ThreadA = ThreadA
  ThreadB = ThreadB
  Old = Old
  New = New
  NoVal = NoVal
  Val = {Old, New}
  Thread <- TwoThreads
  Main = ThreadA
  Scene <- Scenes
  Prefill <- Shapes
  Script <- Calls
  MaxClears <- Clears
SPECIFICATION ClearSpec
INVARIANTS
  TypeOK
  TreeShape
  OccupancyWithinBounds
  SiblingChainsAtRest
  RightLinkFindsNeighbour
  RedirectsEnd
  NoStrongCycle
  CounterTracksRecords
  LenNeverUnderflows
PROPERTIES
  LinearizableMap
