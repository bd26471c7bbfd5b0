SPECIFICATION WireSpec
CONSTANTS
  Messages <- MCMessages
  Second <- MCSecond
  Cuts <- MCCuts
  Frames <- MCFrames
  ByteBits = 2
  Questions <- MCQuestions
INVARIANTS ReadAsSent InStep OwnReader FramesSurvive AddressesKept
CHECK_DEADLOCK FALSE
