SPECIFICATION FairSpec
CONSTANTS
  Files = {"lm"}
  Weights = {"lm"}
  SizeOf <- Units
  Jobs = 1
  WholeAnswers = FALSE
  BadBytes = TRUE
  None = None
PROPERTY SnapshotArrives
