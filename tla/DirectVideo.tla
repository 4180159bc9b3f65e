---------------------------- MODULE DirectVideo ----------------------------
(***************************************************************************)
(* srvfb -device: serveVideo streams the local framebuffer to a browser    *)
(* while other processes draw, and the browser may leave or be cut off.    *)
(***************************************************************************)
EXTENDS VideoHandler

VARIABLES screen, reading

INSTANCE Framebuffer

fbVars == <<screen, reading>>
vars == <<videoVars, fbVars>>

Init ==
  /\ FramebufferInit
  /\ VideoInit
  /\ pc = "read"

DrawFrame ==
  /\ \E f \in Frames : Draw(f)
  /\ UNCHANGED videoVars

\* handler.readImage is called, ...
StartRead ==
  /\ pc = "read"
  /\ ReadBegin
  /\ UNCHANGED videoVars

\* ... returns a copy, ...
FinishRead ==
  \E f \in Frames : ReadEnd(f) /\ Got(f)

\* ... or finds a mode that it does not support.
FailRead ==
  /\ "mode" \in Failures
  /\ reading = "no"
  /\ GiveUp("read")
  /\ UNCHANGED fbVars

Handler ==
  \/ StartRead
  \/ FinishRead
  \/ (SkipFrame \/ KeepFrame \/ Wake \/ CreatePart \/ Send) /\ UNCHANGED fbVars

Next ==
  \/ DrawFrame
  \/ Handler
  \/ FailRead
  \/ Receive /\ UNCHANGED fbVars
  \/ Disturbed /\ UNCHANGED fbVars
  \/ KernelReset /\ UNCHANGED fbVars

Spec == Init /\ [][Next]_vars

\* The handler's goroutine is scheduled, the browser reads what arrives, and
\* the kernel finds out about dead connections.
Fairness ==
  /\ WF_vars(Handler)
  /\ WF_vars(Receive /\ UNCHANGED fbVars)
  /\ WF_vars(KernelReset /\ UNCHANGED fbVars)

FairSpec == Spec /\ Fairness

-----------------------------------------------------------------------------

\* Every variable has its type.
TypeOK == VideoTypeOK /\ FramebufferTypeOK

\* A screen that does not change any more ends up on display, whatever torn
\* copies were sent before and although Chrome lags one part behind.
Converges ==
  \A f \in Frames :
    <>[](screen = f /\ peer = "up" /\ pc # "done") => <>[](shown = f)

\* A handler whose browser is gone ends if it goes on to find frames to send.
ActiveNoticesGone ==
  (<>(peer # "up") /\ []<>(pc \in {"part", "done"})) => <>(pc = "done")

\* "Exit if there's no activity for this time" (flag -idle, srvfb.go:57) needs
\* the connection of a browser that has left to be closed: net/http does that
\* when the handler ends, and earlier when a write fails.
GoneNoticed == (peer = "left") ~> (pc = "done" \/ werr)
=============================================================================
