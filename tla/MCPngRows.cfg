\* Two rows of two pixels with two channels.
CONSTANTS
  N = 4
  Bpp = 2
  Height = 2
  Images <- Mixed
SPECIFICATION Spec
INVARIANTS TypeOK RoundTrip PicksMinimum
