SPECIFICATION Spec
CONSTANTS
  WindowFrames = 200
  HopFrames = 100
  OverlapLatents = 172
  CropLeft = 86
  CropRight = 258
  FrameCounts <- MCFrameCounts
INVARIANTS
  TypeOK
  LoopMatchesClosedForm
  WindowsTile
  CarryIsFull
  SeamsMeet
  DriftBounded
CHECK_DEADLOCK FALSE
