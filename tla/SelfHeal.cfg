SPECIFICATION FairSpec
CONSTANTS
  Torrents = {"t1", "t2"}
  Dirs = {"downloads", "music"}
  Layouts <- OneDirOrOneEach
  Slow = {"t1"}
  Interval = 1
  MaxEvents = 2
  MaxTroubles = 1
INVARIANTS RemovedWasVerified OutageSurvives
PROPERTIES PassesSpaced PassesRecur LossReported LostGoes
