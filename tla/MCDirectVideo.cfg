\* Three frames, room for two parts under way, every failure; a handler that is
\* done stops.
CONSTANTS
  f1 = f1
  f2 = f2
  f3 = f3
  Frames = {f1, f2, f3}
  Hash <- GoodHash
  Cap = 2
  NoFrame = NoFrame
  Failures = {"leave", "vanish", "mode"}
SPECIFICATION FairSpec
INVARIANTS TypeOK SkipOnlyShown
PROPERTIES Converges ActiveNoticesGone
CHECK_DEADLOCK FALSE
