CONSTANTS
  SetA = SetA
  SetB = SetB
  ThreadA = ThreadA
  ThreadB = ThreadB
  ThreadC = ThreadC
  ThreadD = ThreadD
  MaxValue = 3
  N = 3
  MaxLeaf = 4
  Set <- TwoSets
  Thread <- FourThreads
  Scene <- CrossScene
  Initial <- CrossFirst
  Borders <- CrossLeaves
  Script <- CrossCalls
SPECIFICATION Spec
INVARIANTS
  NoComparisonCycle
