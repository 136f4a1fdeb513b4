SPECIFICATION TcpSpec
CONSTANTS
  Byte = {"x", "bad", "cr", "lf"}
  CR = "cr"
  LF = "lf"
  BadByte = "bad"
  MaxFrame = 2
  BufferSize = 3
  MaxStream = 5
  Streams <- AllStreams
CHECK_DEADLOCK FALSE
INVARIANTS
  FrameIsBounded
  FramesIgnoreTheCuts
  AcksFollowTheFrames
PROPERTIES
  EachFrameIsExact
  ConnectionEnds
