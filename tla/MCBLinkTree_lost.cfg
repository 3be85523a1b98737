CONSTANTS
  N = 3
  MaxKey = 6
  MaxPages = 8
  ThreadA = ThreadA
  ThreadB = ThreadB
  Old = Old
  New = New
  NoVal = NoVal
  Val = {Old, New}
  Thread <- TwoThreads
  Main = ThreadA
  Scene <- LostScene
  Prefill <- LostShape
  Script <- LostCalls
  MaxClears <- LostClears
SPECIFICATION ClearSpec
INVARIANTS
  PredecessorKept
