\* A palette of 255 colors.
CONSTANTS
  Headers <- Large
  PLTELengths = {765}
  tRNSLengths = {1}
  IDATLengths = {3}
  Indices = {255}
  MaxChunks = 6
  BufferSize = 3
  Images <- Kinds
  WriterBuffer = 2
SPECIFICATION TransferSpec
INVARIANTS PaletteCovers
CHECK_DEADLOCK FALSE
