----------------------------- MODULE MCGeometry -----------------------------
(* Instances of Geometry for TLC. *)
EXTENDS Geometry

M(b, xv, yv, xo, yo, x, y) ==
  [bpp |-> b, xv |-> xv, yv |-> yv, xo |-> xo, yo |-> yo, xres |-> x, yres |-> y]

\* 24 words as lines of four or of six: whole, in part, panned either way; a size
\* and a depth that Image refuses.
Panned ==
  {M(16, 4, 6, 0, 0, 4, 6), M(16, 4, 6, 0, 0, 3, 4), M(16, 4, 6, 0, 3, 4, 3),
   M(16, 4, 6, 0, 2, 4, 3), M(16, 4, 6, 1, 0, 3, 4),
   M(16, 6, 4, 0, 0, 6, 4), M(16, 6, 4, 0, 0, 5, 3), M(16, 6, 4, 0, 1, 6, 2),
   M(16, 6, 4, 3, 0, 2, 4),
   M(16, 4, 5, 0, 0, 4, 5), M(32, 3, 4, 0, 0, 3, 4)}
=============================================================================
