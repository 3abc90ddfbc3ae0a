SPECIFICATION Spec
CONSTANTS
  p1 = p1
  p2 = p2
  l1 = l1
  l2 = l2
  m1 = m1
  m2 = m2
  m3 = m3
  n1 = n1
  n2 = n2
  f1 = f1
  f2 = f2
  NoLayer = NoLayer
  NoManifest = NoManifest
  NoName = NoName
  NoRef = NoRef
  NoFile = NoFile
  Empty = Empty
  Hole = Hole
  Procs = {p1, p2}
  Layers = {l1, l2}
  Manifests = {m1, m2, m3}
  Names = {n1}
  Paths = {f1}
  Refs <- RaceRefs
  LayerOf <- ThreeLayerOf
  OtherAlgo = {m2}
  Sanitize <- OneName
  NumChunks = 2
  Failures = FALSE
  Evictions = TRUE
SYMMETRY ProcSymmetry
INVARIANT TornBlobHasWriter
INVARIANT BlobCanonical
INVARIANT PinnedNeverForeign
