SPECIFICATION FairSpec
CONSTANTS
  NumCollectors = 3
  StartMoney = 250
  Builds = {"biglock", "nolock"}
  MaxLevies = 1
INVARIANTS
  StatisticsExact
  PaymentsNeverExceedLevies
PROPERTIES
  Termination
