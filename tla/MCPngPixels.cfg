\* Every format, written by this encoder and by others.
CONSTANTS
  Plain <- Rectangles
  Interlaced <- Blocks
  Samples <- Tried
  Images <- Chessboards
  Seeds = {0, 77}
  Byte <- Mixed
SPECIFICATION Spec
INVARIANTS TypeOK RowIsPixels SizesAgree ShowsFile RoundTrip
PROPERTIES WrittenOnce
CHECK_DEADLOCK FALSE
