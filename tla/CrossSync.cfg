SPECIFICATION FairSpec
CONSTANTS
  Apps = {"one", "two"}
  Rank <- MCRank
  Scenes <- MCScenes
  MaxEdits = 1
  MaxFaults = 1
INVARIANT TypeOK
PROPERTIES KeysWrittenOnce ReadyIsRegistered Arrives
