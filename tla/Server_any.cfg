SPECIFICATION Spec
CONSTANTS
  MaxRouters = 2
  MaxIfaces = 2
  MaxRtable = 2
  MaxBlocks = 2
  MaxThreads = 2
INVARIANTS ConfigurationSound CleanReset ThreadsMatch
