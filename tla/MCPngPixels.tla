---------------------------- MODULE MCPngPixels -----------------------------
(* An instance of PngPixels for TLC. *)
EXTENDS PngPixels

\* Samples at the limits of each depth, with and without their high bits.
Tried == {0, 2, 9, 255, 257, 65535}

\* Two rows that do and do not fill their bytes, and images without some passes,
\* with one line of a pass and with more of them than an 8 x 8 block.
Rectangles == {<<1, 1>>, <<3, 2>>, <<8, 1>>, <<9, 2>>}
Blocks == {<<1, 1>>, <<5, 2>>, <<3, 5>>, <<9, 9>>}

\* Images of two pixels, like a chessboard: gray, or with samples that differ
Pixels(f) ==
  LET d == Written[f][1]
      v == Values(d)
  IN  CASE Written[f][2] \in {ctGrayscale, ctPaletted} -> {<<s>> : s \in v}
        [] Written[f][2] = ctTrueColor -> {<<s, t, s, 2^d - 1>> : s \in v, t \in v}
        [] Written[f][2] = ctTrueColorAlpha -> {<<s, s, s, t>> : s \in v, t \in v}

Chessboards(f, w, h) ==
  {[n \in 0..(w * h - 1) |-> IF ((n % w) + (n \div w)) % 2 = 0 THEN p ELSE q] :
     p \in Pixels(f), q \in Pixels(f)}

\* Bytes that differ from those around them
Mixed(seed, ps, line, k) == (seed + 37 * k + 101 * line + 59 * ps) % 256
=============================================================================
