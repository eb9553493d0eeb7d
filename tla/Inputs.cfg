SPECIFICATION FairSpec
CONSTANTS
  AppNames <- MCNames
  Wishes <- MCWishes
  ImageOverrides <- MCOverrides
  Addresses <- MCAddresses
INVARIANTS TwinsRaced ConfigReaches PairApart
PROPERTIES AdmittedRuns ServerFollows
CHECK_DEADLOCK FALSE
