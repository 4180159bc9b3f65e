\* Every fault and every kind of file; rows that use the first color of a palette,
\* or its last one and one beyond, and that extend one of 8 bits to its limits.
\* Decode returns, so the system may stop.
CONSTANTS
  Headers <- All
  PLTELengths = {3, 4, 9, 15}
  tRNSLengths = {1, 2, 6}
  IDATLengths = {0, 1, 3}
  Indices = {0, 2, 3, 254, 255}
  MaxChunks = 6
  BufferSize = 2
  Images <- Kinds
  WriterBuffer = 2
SPECIFICATION TransferSpec
INVARIANTS TransferTypeOK AcceptedIsComplete NoPanic ConfigIsImages PlainPaletteCovers
INVARIANTS FailureIsReturned DecodesIffEncoded SameImage
PROPERTIES NothingAfterFailure FileSpec Decoded
CHECK_DEADLOCK FALSE
