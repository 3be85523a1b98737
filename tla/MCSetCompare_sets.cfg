CONSTANTS
  SetA = SetA
  SetB = SetB
  ThreadA = ThreadA
  ThreadB = ThreadB
  ThreadC = ThreadC
  ThreadD = ThreadD
  MaxValue = 6
  N = 3
  MaxLeaf = 4
  Set <- TwoSets
  Thread <- FourThreads
  Scene <- Scenes
  Initial <- AtFirst
  Borders <- Leaves
  Script <- Calls
SPECIFICATION Spec
INVARIANTS
  TypeOK
  DisjointAnswersTrue
  SubsetWalksTrue
  NoComparisonCycle
