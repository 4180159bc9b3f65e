------------------------------ MODULE Deduper ------------------------------
(***************************************************************************)
(* The deduper of srvfb.go: it remembers the hashes of the last two frames *)
(* that were sent and skips a frame that has the hash of both.             *)
(***************************************************************************)
EXTENDS Naturals

CONSTANTS
  Frames,
  Hash      \* the FNV-1a checksum of a frame

ASSUME HashAssumption == Hash \in [Frames -> Nat]

VARIABLES h1, h2

dedupVars == <<h1, h2>>

DeduperInit == h1 = 0 /\ h2 = 0

\* Mutant of Repeated: one repetition is enough.
RepeatedOnce(f) == Hash[f] = h2

Repeated(f) == Hash[f] = h1 /\ Hash[f] = h2

\* deduper.skip returns true, ...
Skip(f) ==
  /\ Repeated(f)
  /\ UNCHANGED dedupVars

\* Mutants of Keep: both hashes are overwritten, or the hasher is not reset.
KeepTwice(f) == ~Repeated(f) /\ h1' = Hash[f] /\ h2' = Hash[f]
KeepOnTop(f) == ~Repeated(f) /\ h1' = h2 /\ h2' = h2 + Hash[f]

\* ... or false, and the frame will be sent.
Keep(f) ==
  /\ ~Repeated(f)
  /\ h1' = h2
  /\ h2' = Hash[f]

DeduperTypeOK ==
  /\ h1 \in {0} \cup {Hash[f] : f \in Frames}
  /\ h2 \in {0} \cup {Hash[f] : f \in Frames}
=============================================================================
