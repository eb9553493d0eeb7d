SPECIFICATION FairSpec
CONSTANTS
  App <- RolloutApps
  Tier <- RolloutTier
  Identity <- RolloutIdentity
  Legacy = {}
  Volume = {}
  Enabled0 <- RolloutApps
  Timeout = 1
  Editable = {}
  MaxEdits = 0
  MaxFaults = 0
  MaxFlaps = 1

PROPERTY BypassOwnTier
CHECK_DEADLOCK FALSE
