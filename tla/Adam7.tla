------------------------------- MODULE Adam7 --------------------------------
(***************************************************************************)
(* Interlaced images in internal/png/reader.go: the sizes of the seven     *)
(* passes and where mergePassInto puts their pixels, and what the PNG      *)
(* standard says of both.                                                  *)
(***************************************************************************)
EXTENDS Integers, Sequences

scan(xF, yF, xO, yO) ==
  [xFactor |-> xF, yFactor |-> yF, xOffset |-> xO, yOffset |-> yO]

interlacing ==
  <<scan(8, 8, 0, 0), scan(8, 8, 4, 0), scan(4, 8, 0, 4), scan(4, 4, 2, 0),
    scan(2, 4, 0, 2), scan(2, 2, 1, 0), scan(1, 2, 0, 1)>>

\* Mutant of passWidth: rounds down.
passWidthDown(w, ps) ==
  LET p == interlacing[ps]
  IN  (w - p.xOffset) \div p.xFactor

\* The size of a pass in readImagePass
passWidth(w, ps) ==
  LET p == interlacing[ps]
  IN  (w - p.xOffset + p.xFactor - 1) \div p.xFactor

passHeight(h, ps) ==
  LET p == interlacing[ps]
  IN  (h - p.yOffset + p.yFactor - 1) \div p.yFactor

\* Mutant of Target: without the offset of the pass.
TargetCorner(w, ps, column, line) ==
  LET p == interlacing[ps]
  IN  line * p.yFactor * w + column * p.xFactor

\* The pixel of the image that mergePassInto copies pixel (x, y) of a pass to:
\* d there, in pixels instead of bytes
Target(w, ps, column, line) ==
  LET p == interlacing[ps]
  IN  (line * p.yFactor + p.yOffset) * w + p.xOffset + column * p.xFactor

-----------------------------------------------------------------------------
(* The standard: the pixels of each 8 x 8 block by pass. *)

Pattern ==
  <<<<1, 6, 4, 6, 2, 6, 4, 6>>,
    <<7, 7, 7, 7, 7, 7, 7, 7>>,
    <<5, 6, 5, 6, 5, 6, 5, 6>>,
    <<7, 7, 7, 7, 7, 7, 7, 7>>,
    <<3, 6, 4, 6, 3, 6, 4, 6>>,
    <<7, 7, 7, 7, 7, 7, 7, 7>>,
    <<5, 6, 5, 6, 5, 6, 5, 6>>,
    <<7, 7, 7, 7, 7, 7, 7, 7>>>>

PassOf(column, line) == Pattern[(line % 8) + 1][(column % 8) + 1]
=============================================================================
