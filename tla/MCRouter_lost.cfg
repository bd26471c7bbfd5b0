SPECIFICATION Spec
CONSTANTS
  Z = Z I1 = I1 I2 = I2 H1 = H1 H2 = H2 G = G U = U M0 = M0 M1 = M1 M2 = M2 R1 = R1 R2 = R2
  NULL = NULL
  MaxFrames = 2
  Header <- ForwardHeaders
  IP <- MCIP
  Mac = {M0, M1, M2}
  ZeroIp = Z
  ZeroMac = M0
  Iface = {"e0", "e1"}
  IfaceIp <- MCIfaceIp
  Route <- MCRoute
  Announce <- OneHopAnnounce
  ReqId = {R1, R2}
  ARPCACHE_SIZE = 2
  ARPCACHE_ENTRY_TIMEOUT = 1
  MAX_TIMES_SENT = 2
INVARIANT NoneLost
