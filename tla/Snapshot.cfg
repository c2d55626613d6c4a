SPECIFICATION FairSpec
CONSTANTS
  Files = {"config", "lm", "vae"}
  Weights = {"lm", "vae"}
  SizeOf <- Units
  Jobs = 2
  WholeAnswers = TRUE
  BadBytes = TRUE
  None = None
INVARIANTS
  TypeOK
  ManifestTruthful
PROPERTIES
  PartsOnlyGrow
  SnapshotArrivesUnlessStuck
