SPECIFICATION FairSpec
CONSTANTS
  Artifacts <- TwoArtifacts
  Sidecars <- TwoSidecars
  None = None
INVARIANTS
  TypeOK
  PublishedIsWhole
PROPERTY ReleaseFinishes
