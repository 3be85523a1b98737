CONSTANTS
  N = 3
  MaxKey = 4
  MaxPages = 3
  ThreadA = ThreadA
  ThreadB = ThreadB
  Old = Old
  New = New
  NoVal = NoVal
  Val = {Old}
  Thread <- TwoThreads
  Main = ThreadA
  Scanner <- ScannerB
  Scene <- LastScene
  Prefill <- LastShape
  Script <- LastCalls
  Timely <- LastScene
  Queries <- Greatest
SPECIFICATION ScanSpec
PROPERTIES
  LastIsGreatest
