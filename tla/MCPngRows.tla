------------------------------ MODULE MCPngRows -----------------------------
(* Instances of PngRows for TLC. *)
EXTENDS PngRows

\* Images of small, middle and large bytes, whose last row begins and ends with
\* the same ones to keep their number down.
Mixed ==
  {m \in [Lines -> [Columns -> {0, 100, 255}]] :
     m[Height - 1][0] = 100 /\ m[Height - 1][N - 1] = 255}
=============================================================================
