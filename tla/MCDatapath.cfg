SPECIFICATION Spec
CONSTANTS
  AddrBits = 2
  PortNos = {1, 2}
  FirstPorts = {1, 2}
  Peers <- MCPeers
  MaxBuffers = 2
  MaxEntries = 3
  Period = 1
INVARIANTS TableSound ControllerToldTrue
PROPERTY RemovalReported
