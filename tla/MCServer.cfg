\* Two frames, every request, every failure; handlers that are done stop.
CONSTANTS
  f1 = f1
  f2 = f2
  Frames = {f1, f2}
  Hash <- GoodHash
  Cap = 1
  RawCap = 2
  NoFrame = NoFrame
  Header = Header
  Failures = {"leave", "vanish", "mode", "device"}
SPECIFICATION ServerSpec
INVARIANTS TypeOK SkipOnlyShown
PROPERTIES LastPartCurrent EndsWithDevice DeviceReleased DownloadAnswered
CHECK_DEADLOCK FALSE
