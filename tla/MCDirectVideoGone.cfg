\* A browser that leaves while the screen is at rest.
CONSTANTS
  f1 = f1
  f2 = f2
  f3 = f3
  Frames = {f1, f2, f3}
  Hash <- GoodHash
  Cap = 1
  NoFrame = NoFrame
  Failures = {"leave"}
SPECIFICATION FairSpec
PROPERTY GoneNoticed
CHECK_DEADLOCK FALSE
