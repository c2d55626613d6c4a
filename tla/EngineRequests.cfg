SPECIFICATION Spec
CONSTANTS
  WindowFrames = 2
  HopFrames = 1
  OverlapLatents = 2
  CropLeft = 1
  CropRight = 3
  q4 = q4
  q8 = q8
  bf16 = bf16
  song = song
  jingle = jingle
  None = None
  Components = {q4}
  Requests = {song, jingle}
  Target <- RequestsTarget
  EosFrame <- LateEos
  EulerSteps <- OneStep
  KeepOptions = {FALSE}
  FilesMayChange = FALSE
  ComputeErrors = {"OTHER"}
PROPERTY ImplementsSongService
