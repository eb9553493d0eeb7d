SPECIFICATION FairSpec
CONSTANTS
  App = {"sonarr"}
  Serves <- ServesAll
  AutoRemove <- RemoveAll
  Existing = {"sonarr"}
  Enabled0 = {"prowlarr", "seerr"}
  MaxEdits = 2
  MaxFaults = 1
INVARIANTS OwedCleanupDone
PROPERTIES DeletionCompletes LiveAppsRegistered GhostsRemoved KeepsMembership
CHECK_DEADLOCK FALSE
