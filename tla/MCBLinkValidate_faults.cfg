CONSTANTS
  N = 4
  MaxKey = 14
  MaxPages = 12
  ThreadA = ThreadA
  ThreadB = ThreadB
  Old = Old
  New = New
  NoVal = NoVal
  Val = {Old}
  Thread <- TwoThreads
  Main = ThreadA
  Scene <- Scenes
  Prefill <- Shapes
  Script <- Calls
  Panicking <- Panics
  Damaging <- Damages
SPECIFICATION DamageSpec
INVARIANTS
  OracleExact
  ValidAtRest
  SearchFindsRecords
