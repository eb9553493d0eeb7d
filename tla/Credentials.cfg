SPECIFICATION FairSpec
CONSTANTS
  Kinds = {"Servarr", "Sabnzbd", "Bazarr", "Tautulli", "Seerr", "Jellyfin", "Transmission"}
  MaxRotations = 2
  MaxRestarts = 1
  MaxFaults = 1
PROPERTIES TrueMeansApplied RollsSettle RotationReaches
