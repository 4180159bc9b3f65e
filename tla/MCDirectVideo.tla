--------------------------- MODULE MCDirectVideo ---------------------------
(* Instances of DirectVideo for TLC. *)
EXTENDS DirectVideo, TLC

CONSTANTS f1, f2, f3

\* A checksum without collisions.
GoodHash == f1 :> 1 @@ f2 :> 2 @@ f3 :> 3
=============================================================================
