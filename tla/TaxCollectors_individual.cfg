SPECIFICATION FairSpec
CONSTANTS
  NumCollectors = 3
  StartMoney = 200
  Builds = {"individual"}
  MaxLevies = 2
INVARIANTS
  TypeOK
  ExclusiveAccess
  NoCircularWait
  LockDiscipline
  Solvent
  MoneyConserved
  QuietTeardown
PROPERTIES
  Termination
  LedgerRefinement
