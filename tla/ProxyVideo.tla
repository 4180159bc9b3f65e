----------------------------- MODULE ProxyVideo -----------------------------
(***************************************************************************)
(* srvfb -proxy: serveVideo reads frames from the serveRaw of another      *)
(* srvfb (dialProxy, proxyconn) and streams them to its own browser.       *)
(*                                                                         *)
(* proxyconn.readImage closes the part that it has read, and a             *)
(* multipart.Part is closed by reading up to the next boundary, which      *)
(* serveRaw writes together with the next frame: readImage returns a frame *)
(* only when the next one is on its way, or the stream has ended.          *)
(***************************************************************************)
EXTENDS VideoHandler

CONSTANTS RawCap, Header

ASSUME ProxyAssumption ==
  /\ RawCap \in Nat \ {0, 1}  \* the end of a frame and the next boundary
  /\ Header \notin Frames \cup {NoFrame}

VARIABLES screen, reading, rpc, rim, r1, r2, rawWire, rawPeer, rawErr

INSTANCE RawHandler

upstream == <<screen, reading, rpc, rim, r1, r2, rawWire, rawPeer, rawErr>>
vars == <<videoVars, upstream>>

Init ==
  /\ VideoInit
  /\ RawInit
  /\ pc = "dial"

\* Mutant of PartComplete: the end of the stream does not end a part.
BoundarySeen == Len(rawWire) >= 2

\* The part at the head of the raw stream is complete.
PartComplete ==
  \/ Len(rawWire) >= 2
  \/ Len(rawWire) = 1 /\ rpc = "done"

\* resp.Body.Close
CloseBody ==
  /\ rawPeer' = "left"
  /\ UNCHANGED <<screen, reading, rpc, rim, r1, r2, rawWire, rawErr>>

ReadPart ==
  /\ PartComplete
  /\ rawWire' = Tail(rawWire)
  /\ UNCHANGED <<screen, reading, rpc, rim, r1, r2, rawPeer, rawErr>>

\* dialProxy sends the request, ...
Dial ==
  /\ Goto("dial", "header")
  /\ rpc' = "first"
  /\ UNCHANGED <<im, dedupVars, respVars, browserVars>>
  /\ UNCHANGED <<screen, reading, rim, r1, r2, rawWire, rawPeer, rawErr>>

\* ... or there is nobody to send it to.
DialFail ==
  /\ "device" \in Failures
  /\ GiveUp("dial")
  /\ UNCHANGED upstream

\* readHdr accepts the header, ...
ReadHdr ==
  /\ Goto("header", "read")
  /\ ReadPart
  /\ UNCHANGED <<im, dedupVars, respVars, browserVars>>

\* ... or gets an error response or the end of the stream: 502 to the browser.
ReadHdrFail ==
  /\ rpc = "done" /\ rawWire = <<>>
  /\ GiveUp("header")
  /\ CloseBody

\* proxyconn.readImage returns a frame, ...
ReadImage ==
  /\ ReadPart
  /\ Got(Head(rawWire))

\* ... or the end of the stream.
ReadImageFail ==
  /\ rpc = "done" /\ rawWire = <<>>
  /\ GiveUp("read")
  /\ CloseBody

\* Mutant of ProxyCreatePart: c.close is not deferred.
LeakyCreatePart == CreatePart /\ UNCHANGED upstream

\* serveVideo may end in CreatePart; its deferred c.close then closes the raw
\* stream.
ProxyCreatePart ==
  /\ CreatePart
  /\ IF pc' = "done" THEN CloseBody ELSE UNCHANGED upstream

Proxy ==
  \/ Dial
  \/ ReadHdr
  \/ ReadHdrFail
  \/ ReadImage
  \/ ReadImageFail
  \/ ProxyCreatePart
  \/ (SkipFrame \/ KeepFrame \/ Wake \/ Send) /\ UNCHANGED upstream

\* The device, the browser and the connections
Environment ==
  \/ DrawFrame /\ UNCHANGED videoVars
  \/ RawStep /\ UNCHANGED videoVars
  \/ "mode" \in Failures /\ RawFailRead /\ UNCHANGED videoVars
  \/ "device" \in Failures /\ DeviceDown /\ UNCHANGED videoVars
  \/ RawReset /\ UNCHANGED videoVars
  \/ Receive /\ UNCHANGED upstream
  \/ Disturbed /\ UNCHANGED upstream
  \/ KernelReset /\ UNCHANGED upstream

Next == Proxy \/ DialFail \/ Environment

Spec == Init /\ [][Next]_vars

\* Both handlers' goroutines are scheduled, the browser reads what arrives, and
\* the kernels find out about dead connections.
Fairness ==
  /\ WF_vars(Proxy)
  /\ WF_vars(RawStep /\ UNCHANGED videoVars)
  /\ WF_vars(RawReset /\ UNCHANGED videoVars)
  /\ WF_vars(Receive /\ UNCHANGED upstream)
  /\ WF_vars(KernelReset /\ UNCHANGED upstream)

FairSpec == Spec /\ Fairness

-----------------------------------------------------------------------------

\* Every variable has its type.
TypeOK == VideoTypeOK /\ RawTypeOK

\* A screen that does not change any more is the last part that the proxy's
\* browser receives, through both dedupers and the frame that readImage holds
\* back.
LastPartCurrent ==
  \A f \in Frames :
    <>[](screen = f /\ peer = "up" /\ pc # "done" /\ rpc # "done")
      => <>[](pending = f)

\* When the device's stream has ended, for whatever reason, the proxy passes on
\* what it has and ends its own stream.
EndsWithDevice == (rpc = "done") ~> (pc = "done")

\* A proxy that has ended releases the device's handler, if that goes on to
\* find frames to send, or is stuck with one that nobody reads any more.
DeviceReleased ==
  (<>(pc = "done") /\ []<>(rpc \in {"part", "write", "done"}))
    => <>(rpc = "done")

\* "we only start skipping after two consecutive frames are identical", so that
\* Chrome shows the last frame (srvfb.go:473-476), "via proxy or not"
\* (README.md:50): a screen that does not change any more ends up on display.
ConvergesViaProxy ==
  \A f \in Frames :
    <>[](screen = f /\ peer = "up" /\ pc # "done" /\ rpc # "done")
      => <>[](shown = f)
=============================================================================
