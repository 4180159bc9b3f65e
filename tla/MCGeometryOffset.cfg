\* The visible part of a screen that is panned.
CONSTANTS
  Mem = 24
  Modes <- Panned
  Limit = 8
  None = None
SPECIFICATION Spec
INVARIANT ShowsVisible
CHECK_DEADLOCK FALSE
