SPECIFICATION FairSpec
CONSTANTS
  MaxThreads = 4
  StackLimit = 3
  Files = {0}
INVARIANTS
  TypeOK
  EachListedOnce
  JumpPointsValid
  WaitpidFindsSpawned
PROPERTIES
  RoundRobinRefinement
  NobodyStarves
  WaitpidReturns
  StdinReadWakes
