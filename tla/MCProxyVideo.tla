---------------------------- MODULE MCProxyVideo ----------------------------
(* Instances of ProxyVideo for TLC. *)
EXTENDS ProxyVideo, TLC

CONSTANTS f1, f2

\* A checksum without collisions.
GoodHash == f1 :> 1 @@ f2 :> 2
=============================================================================
