SPECIFICATION Spec
SYMMETRY Sym
CONSTANTS
  Reqs = {r1, r2, r3}
  MaxInFlight = 3
  Names = {"g1", "g2"}
  Facts <- MCFacts
  Types <- MixedTypes
  GraphTypes = {"turtle"}
  Datasets <- MCDatasets
  Blobs <- MixedBlobs
  Patches <- MCPatches
  Faults = TRUE
INVARIANTS TypeOK WholeDataset BinaryHasObject NoOrphanShelf
PROPERTIES ReadsAreWhole NoSilentDiscard
