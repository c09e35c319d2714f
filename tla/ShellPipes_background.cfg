SPECIFICATION Spec
CONSTANTS
  MaxProcs = 2
  MaxStages = 1
INVARIANTS
  BackgroundOutputAccepted
