SPECIFICATION FairSpec
CONSTANTS
  Variants <- MCVariants
  MaxEdits = 1
  MaxMishaps = 1
PROPERTIES KeepsUpkeep ObservedIsBuilt ForeignSurvives Converges PodsSettle
