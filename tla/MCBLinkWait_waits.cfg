CONSTANTS
  N = 3
  MaxKey = 6
  MaxPages = 8
  ThreadA = ThreadA
  ThreadB = ThreadB
  ThreadC = ThreadC
  ThreadD = ThreadD
  Old = Old
  New = New
  NoVal = NoVal
  Val = {Old, New}
  Thread <- FourThreads
  Main = ThreadB
  Scene <- Scenes
  Prefill <- Shapes
  Script <- Calls
  Keeper <- Keepers
SPECIFICATION WaitSpec
INVARIANTS
  NoWaitCycle
  RootWaitsForSoleLeafOnly
  LatchDiscipline
  GuardHasRecord
PROPERTIES
  GuardPinsPage
