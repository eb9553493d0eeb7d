SPECIFICATION FairSpec
CONSTANTS
  App <- RolloutApps
  Tier <- RolloutTier
  Identity <- RolloutIdentity
  Legacy = {}
  Volume = {}
  Enabled0 <- RolloutApps
  Timeout = 1
  Editable = {"valid"}
  MaxEdits = 1
  MaxFaults = 0
  MaxFlaps = 1
INVARIANTS BypassCleared
PROPERTIES CreatedBehindGate EveryAppCreated StatusSettles
CHECK_DEADLOCK FALSE
