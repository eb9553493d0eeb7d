SPECIFICATION FairSpec
CONSTANTS
  Retention = 2
  MaxFirings = 2
  MaxEdits = 1
  MaxOwn = 1
  MaxFaults = 2
INVARIANTS
  DownOnlyWhileRestoring
PROPERTIES
  NewestKept
  AppComesBack
  BackupRecorded
