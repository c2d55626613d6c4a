SPECIFICATION Spec
CONSTANTS
  Publishers = {"p1", "p2"}
  Releases = {"old", "new"}
  Uploads <- TwoUploads
  ManifestKey = "manifest.json"
  Digests <- Builds
  DigestOf <- Release
  Size <- Lengths
  None = None
INVARIANTS
  TypeOK
  ManifestIsComplete
  RecordedShaIsOfTheObject
PROPERTIES
  TurnsKeepObjects
  PassMeansPublished
  SettledObjectsStay
