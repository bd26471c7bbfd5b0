SPECIFICATION ClientFairSpec
CONSTANTS
  N = 3
  MaxPayload = 3
  RecvSize = 9
  Streams <- MCStreams
INVARIANTS InOrder Prompt
PROPERTY AllDelivered
