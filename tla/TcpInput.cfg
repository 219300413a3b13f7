SPECIFICATION Spec
CONSTANTS
  Byte = 4
  DNS_HEADER_LENGTH = 2
  DNS_REQUEST_BUFFER_SIZE = 5
  FirstBufferSize = 2
  FrameSizes <- AllSizes
  MaxFrames = 3
INVARIANTS
  BufferHolds
  WholeRequestsBelowLimit
  NothingHeldBack
  RemovedForCause
