SPECIFICATION FairSpec
CONSTANTS
  App <- RenameApps
  Tier <- RenameTier
  Identity <- RenameIdentity
  Legacy = {"overseerr"}
  Volume = {"config", "data"}
  Enabled0 = {"seerr"}
  Timeout = 1
  Editable = {"apps", "valid", "nfs"}
  MaxEdits = 2
  MaxFaults = 1
  MaxFlaps = 0
INVARIANTS KeptVolumesSurvive
PROPERTIES ChildrenFollow NfsFollowsSpec KeepsRollout
CHECK_DEADLOCK FALSE
