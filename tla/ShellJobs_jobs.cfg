SPECIFICATION FairSpec
CONSTANTS
  Pids = {p1, p2, p3, p4}
  NoPid = NoPid
  MaxStages = 2
INVARIANTS
  TypeOK
  JobListAccurate
  WaitNeverFails
  ForegroundAwaited
  SignalReachesChild
PROPERTIES
  InterruptEndsWait
  WaitAnswered
