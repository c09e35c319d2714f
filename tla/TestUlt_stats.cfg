SPECIFICATION FairDemo
CONSTANTS
  MaxThreads = 3
  StackLimit = 3
  Files = {0, 3}
  Random = 3
  BufLen = 2
  MaxTime = 2
  Wrap = 2
INVARIANTS
  StatsDefined
