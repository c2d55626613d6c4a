SPECIFICATION Spec
CONSTANTS
  WindowFrames = 2
  HopFrames = 1
  OverlapLatents = 2
  CropLeft = 1
  CropRight = 3
  verse = verse
  mood = mood
  blank = blank
  book = book
  q4 = q4
  None = None
  Components = {q4}
  Texts <- SmallTexts
  Length <- SmallLength
  MaxBytes = 26
  SeedLimit = 100000
  MaxBlob = 1000
  Documents <- SmallDocuments
  Requests <- SmallRequests
  Target <- SmallTarget
  EosFrame <- SmallEos
  EulerSteps <- SmallSteps
INVARIANTS
  TypeOK
  RequestSurvives
  DamageIsRefused
  AcceptedSectionsDisjoint
  WrittenIsRead
  BlockingSongExact
  BlockingMemory
