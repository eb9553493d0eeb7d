SPECIFICATION FairSpec
CONSTANTS
  App = {"sonarr"}
  Serves <- ServesAll
  AutoRemove <- RemoveAll
  Existing = {"sonarr"}
  Enabled0 = {"prowlarr", "seerr"}
  MaxEdits = 1
  MaxFaults = 0
PROPERTY NoFinalizerDropped
CHECK_DEADLOCK FALSE
