SPECIFICATION Spec
CONSTANTS
  d1 = d1
  d2 = d2
  NoDir = NoDir
  BadNames = {"bad"}
  MaxFiles = 2
  MaxTotal = 3
  MaxPerFile = 2
  MaxInt = 7
  Nodes <- MCNodes
  Manifests <- MCManifests
  Dirs = {d1, d2}
  FileLists <- MCFileLists
  Versions = {1, 2}
  MaxRuns = 2
  Failures = TRUE
CHECK_DEADLOCK FALSE
INVARIANT ExitZeroDelivers
INVARIANT VersionsOfThisRun
INVARIANT RejectedWritesNothing
INVARIANT FilesBeforeHooks
