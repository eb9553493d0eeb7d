SPECIFICATION FairSpec
CONSTANTS
  Retention = 1
  MaxFirings = 0
  MaxEdits = 1
  MaxOwn = 0
  MaxFaults = 0
PROPERTIES
  RestoreCompletes
