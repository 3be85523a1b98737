CONSTANTS
  N = 3
  MaxKey = 4
  MaxPages = 4
  ThreadA = ThreadA
  ThreadB = ThreadB
  Old = Old
  New = New
  NoVal = NoVal
  Val = {Old}
  Thread <- TwoThreads
  Main = ThreadA
  Scanner <- ScannerB
  Scene <- SkipScene
  Prefill <- SkipShape
  Script <- SkipCalls
  Timely <- SkipScene
  Queries <- Iterate
SPECIFICATION ScanSpec
PROPERTIES
  ScanMissesNothing
