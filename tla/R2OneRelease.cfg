SPECIFICATION FairSpec
CONSTANTS
  Publishers = {"p1", "p2"}
  Releases = {"old"}
  Uploads <- TwoUploads
  ManifestKey = "manifest.json"
  Digests <- Builds
  DigestOf <- Release
  Size <- Lengths
  None = None
PROPERTY ReleasePublished
