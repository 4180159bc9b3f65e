\* The last frame in a browser behind a proxy.
CONSTANTS
  f1 = f1
  f2 = f2
  Frames = {f1, f2}
  Hash <- GoodHash
  Cap = 1
  RawCap = 2
  NoFrame = NoFrame
  Header = Header
  Failures = {}
SPECIFICATION FairSpec
PROPERTY ConvergesViaProxy
CHECK_DEADLOCK FALSE
