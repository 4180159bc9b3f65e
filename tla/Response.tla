------------------------------ MODULE Response ------------------------------
(***************************************************************************)
(* An endless multipart response: a handler writes parts through net/http  *)
(* and TCP to a reader who may go away at any time.  The handler learns of *)
(* that only from a write, and only after the kernel has learned of it;    *)
(* the error then sticks to the response writer.                           *)
(***************************************************************************)
EXTENDS Naturals, Sequences

CONSTANT Cap  \* parts, begun or complete, that the TCP buffers take

ASSUME CapAssumption == Cap \in Nat \ {0}

VARIABLES
  wire,   \* parts written and not yet read
  peer,   \* the reader: "up"; it has "left" or is "lost"; the kernel has
          \* "reset" the connection
  werr    \* the response writer has met an error

respVars == <<wire, peer, werr>>

ResponseInit ==
  /\ wire = <<>>
  /\ peer = "up"
  /\ werr = FALSE

\* Write and Flush: a dead connection fails, a full one blocks, and data for a
\* reader that is gone are accepted all the same.
Write(p) ==
  \/ /\ peer # "reset"
     /\ Len(wire) < Cap
     /\ wire' = Append(wire, p)
     /\ UNCHANGED <<peer, werr>>
  \/ /\ peer = "reset"
     /\ werr' = TRUE
     /\ UNCHANGED <<wire, peer>>

\* The reader gets the next part.
Take ==
  /\ peer = "up"
  /\ wire # <<>>
  /\ wire' = Tail(wire)
  /\ UNCHANGED <<peer, werr>>

\* The reader closes its end, ...
Leave ==
  /\ peer = "up"
  /\ peer' = "left"
  /\ UNCHANGED <<wire, werr>>

\* ... or disappears without a word.
Vanish ==
  /\ peer = "up"
  /\ peer' = "lost"
  /\ UNCHANGED <<wire, werr>>

\* Data for a reader that has left are answered with a reset; one that is lost
\* is given up after retransmissions or keep-alive probes.
Reset ==
  /\ \/ peer = "left" /\ wire # <<>>
     \/ peer = "lost"
  /\ peer' = "reset"
  /\ wire' = <<>>
  /\ UNCHANGED werr

ResponseTypeOK(Parts) ==
  /\ wire \in Seq(Parts) /\ Len(wire) <= Cap
  /\ peer \in {"up", "left", "lost", "reset"}
  /\ werr \in BOOLEAN
=============================================================================
