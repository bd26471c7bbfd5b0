SPECIFICATION FairSpec
CONSTANTS
  Documents <- MCDocuments
  MaxUps = 2
  MaxSock = 3
  MaxPackets = 2
  MaxRouters = 2
  MaxIfaces = 2
  MaxRtable = 2
  MaxBlocks = 3
  MaxThreads = 1
INVARIANT SessionSound
PROPERTIES SessionEstablished FramesRead
CHECK_DEADLOCK FALSE
