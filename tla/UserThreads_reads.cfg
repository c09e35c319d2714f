SPECIFICATION FairSpec
CONSTANTS
  MaxThreads = 2
  StackLimit = 2
  Files = {0, 3}
PROPERTIES
  EveryReadWakes
