---------------------------- MODULE MCActivation ----------------------------
(* Instances of Activation for TLC. *)
EXTENDS Activation

\* ExecStart of contrib/srvfb.service, with the socket of contrib/srvfb.socket
Unit ==
  [proxy |-> FALSE, device |-> TRUE, listen |-> FALSE, fds |-> 1, ours |-> TRUE]
=============================================================================
