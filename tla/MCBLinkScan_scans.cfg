CONSTANTS
  N = 3
  MaxKey = 9
  MaxPages = 9
  ThreadA = ThreadA
  ThreadB = ThreadB
  Old = Old
  New = New
  NoVal = NoVal
  Val = {Old}
  Thread <- TwoThreads
  Main = ThreadA
  Scanner <- ScannerB
  Scene <- Scenes
  Prefill <- Shapes
  Script <- Calls
  Timely <- Ends
  Queries <- AnyScan
SPECIFICATION ScanSpec
INVARIANTS
  ScanTypeOK
  ItemHasRecord
PROPERTIES
  ScanAscends
  ScanMissesNothing
  FirstIsLeast
  LastIsGreatest
  EveryScanReturns
  EveryCallReturns
