---------------------------- MODULE VideoHandler ----------------------------
(***************************************************************************)
(* handler.serveVideo of srvfb.go: read a frame, drop or encode it, send   *)
(* it, again and again, and the browser at the other end.  Where frames    *)
(* come from is left to the modules that extend this one: DirectVideo      *)
(* reads the framebuffer, ProxyVideo another srvfb.                        *)
(***************************************************************************)
EXTENDS Deduper, Response

CONSTANTS
  NoFrame,  \* the browser has nothing to show yet
  Failures  \* what may go wrong in an instance

ASSUME VideoAssumption ==
  /\ NoFrame \notin Frames
  /\ Failures \subseteq {"leave", "vanish", "mode", "device"}

VARIABLES
  pc,       \* where serveVideo is; "dial" and "header" in proxy mode only
  im,       \* the frame read last
  pending,  \* the part the browser has received last
  shown     \* the frame on display: the one before

browserVars == <<pending, shown>>
videoVars == <<pc, im, dedupVars, respVars, browserVars>>

VideoInit ==
  /\ im = NoFrame
  /\ DeduperInit
  /\ ResponseInit
  /\ pending = NoFrame
  /\ shown = NoFrame

Goto(from, to) ==
  /\ pc = from
  /\ pc' = to

\* reader.readImage returns f.
Got(f) ==
  /\ Goto("read", "dedup")
  /\ im' = f
  /\ UNCHANGED <<dedupVars, respVars, browserVars>>

\* The handler gives up: dialProxy or readImage has returned an error.
GiveUp(from) ==
  /\ Goto(from, "done")
  /\ UNCHANGED <<im, dedupVars, respVars, browserVars>>

\* The frame is the one before and the one before that.
SkipFrame ==
  /\ Goto("dedup", "sleep")
  /\ Skip(im)
  /\ UNCHANGED <<im, respVars, browserVars>>

KeepFrame ==
  /\ Goto("dedup", "part")
  /\ Keep(im)
  /\ UNCHANGED <<im, respVars, browserVars>>

\* time.Sleep is over.
Wake ==
  /\ Goto("sleep", "read")
  /\ UNCHANGED <<im, dedupVars, respVars, browserVars>>

\* Mutant of CreatePart: its error is dropped, too.
IgnorePartError ==
  /\ Goto("part", "send")
  /\ UNCHANGED <<im, dedupVars, respVars, browserVars>>

\* CreatePart reports what an earlier write has met: the errors of Encode and
\* Flush themselves are dropped.
CreatePart ==
  /\ Goto("part", IF werr THEN "done" ELSE "send")
  /\ UNCHANGED <<im, dedupVars, respVars, browserVars>>

\* enc.Encode and flusher.Flush
Send ==
  /\ Goto("send", "read")
  /\ Write(im)
  /\ UNCHANGED <<im, dedupVars, browserVars>>

\* Chrome puts a part on display when the next one arrives.
Receive ==
  /\ Take
  /\ pending' = Head(wire)
  /\ shown' = pending
  /\ UNCHANGED <<pc, im, dedupVars>>

\* Whatever happens to the connection.
Disturbed ==
  /\ \/ "leave" \in Failures /\ Leave
     \/ "vanish" \in Failures /\ Vanish
  /\ UNCHANGED <<pc, im, dedupVars, browserVars>>

KernelReset ==
  /\ Reset
  /\ UNCHANGED <<pc, im, dedupVars, browserVars>>

-----------------------------------------------------------------------------

VideoTypeOK ==
  /\ pc \in {"dial", "header", "read", "dedup", "sleep", "part", "send", "done"}
  /\ im \in Frames \cup {NoFrame}
  /\ DeduperTypeOK
  /\ ResponseTypeOK(Frames)
  /\ pending \in Frames \cup {NoFrame}
  /\ shown \in Frames \cup {NoFrame}

\* All that the browser has or will get: what it shows, what it holds back and
\* what is under way.
Delivered == <<shown, pending>> \o wire

\* serveVideo rests only when a browser that reads on will display the current
\* frame: the last two parts it has been sent are that frame (the purpose of
\* deduper, srvfb.go:473-476).
SkipOnlyShown ==
  (pc = "sleep" /\ peer = "up") =>
    LET n == Len(Delivered)
    IN  Delivered[n] = im /\ Delivered[n - 1] = im
=============================================================================
