SPECIFICATION FairSpec
CONSTANTS
  Pids = {p1, p2, p3}
  NoPid = NoPid
  MaxStages = 1
PROPERTIES
  InterruptEndsCommand
