\* Handshake, frames and close in every order and every chunking.
SPECIFICATION Spec
CONSTANTS
  MAX_LENGTH = 3
  MaxChunk = 4
  MaxStream = 8
INVARIANTS
  TypeOK
  DecodedExactly
  BufferBounded
  LossReported
PROPERTIES
  FrameByFrame
\* The session is over once the TCP connection is gone.
CHECK_DEADLOCK FALSE
