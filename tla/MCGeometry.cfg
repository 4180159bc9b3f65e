\* Modes of 24 words, turned and panned.  Panics and errors end the streams.
CONSTANTS
  Mem = 24
  Modes <- Panned
  Limit = 8
  None = None
SPECIFICATION Spec
INVARIANTS TypeOK RowsAligned PanicOnlyRotated ShowsVisibleUnpanned
CHECK_DEADLOCK FALSE
