SPECIFICATION FairSpec
CONSTANTS
  WindowFrames = 2
  HopFrames = 1
  OverlapLatents = 2
  CropLeft = 1
  CropRight = 3
  q4 = q4
  song = song
  None = None
  Components = {q4}
  Requests = {song}
  Target <- LiveTarget
  EosFrame <- LiveEos
  EulerSteps <- LiveSteps
  KeepOptions = {FALSE}
  FilesMayChange = FALSE
  ComputeErrors = {"OTHER"}
PROPERTIES
  SongDelivered
  CallReturns
