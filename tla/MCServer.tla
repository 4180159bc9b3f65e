------------------------------ MODULE MCServer ------------------------------
(* Instances of Server for TLC. *)
EXTENDS Server, TLC

CONSTANTS f1, f2

\* A checksum without collisions.
GoodHash == f1 :> 1 @@ f2 :> 2
=============================================================================
