SPECIFICATION Spec
CONSTANTS
  Reqs = {r1, r2}
  MaxInFlight = 2
  Names = {"g1", "g2"}
  Facts <- MCFacts
  Types <- MixedTypes
  GraphTypes = {"turtle"}
  Datasets <- MCDatasets
  Blobs <- MixedBlobs
  Patches <- MCPatches
  Faults = FALSE
INVARIANT BlobHasObject
