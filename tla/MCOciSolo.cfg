SPECIFICATION Spec
CONSTANTS
  p1 = p1
  p2 = p2
  l1 = l1
  l2 = l2
  m1 = m1
  m2 = m2
  m3 = m3
  n1 = n1
  n2 = n2
  f1 = f1
  f2 = f2
  NoLayer = NoLayer
  NoManifest = NoManifest
  NoName = NoName
  NoRef = NoRef
  NoFile = NoFile
  Empty = Empty
  Hole = Hole
  Procs = {p1}
  Layers = {l1, l2}
  Manifests = {m1, m3}
  Names = {n1, n2}
  Paths = {f1, f2}
  Refs <- SoloRefs
  LayerOf <- TwoLayerOf
  OtherAlgo = {}
  Sanitize <- SeparatePaths
  NumChunks = 1
  Failures = TRUE
  Evictions = FALSE
INVARIANT TypeOK
INVARIANT TagServesFresh
INVARIANT PointerHasBlob
INVARIANT StaleWasTagged
PROPERTY CachedPinStays
