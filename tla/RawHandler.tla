----------------------------- MODULE RawHandler -----------------------------
(***************************************************************************)
(* handler.serveRaw of srvfb.go, which streams the framebuffer to a proxy: *)
(* a header, a first frame that passes by the deduper, and then the frames *)
(* that the deduper keeps, without a pause between two looks.              *)
(***************************************************************************)
EXTENDS Naturals, Sequences

CONSTANTS Frames, Hash, RawCap, NoFrame, Header

VARIABLES
  screen, reading,             \* the framebuffer
  rpc,                         \* where serveRaw is; "none": not requested yet
  rim,                         \* the frame read last
  r1, r2,                      \* its deduper
  rawWire, rawPeer, rawErr     \* its response

Fb == INSTANCE Framebuffer
Dedup == INSTANCE Deduper WITH h1 <- r1, h2 <- r2
Raw == INSTANCE Response WITH
         Cap <- RawCap, wire <- rawWire, peer <- rawPeer, werr <- rawErr

fbVars == <<screen, reading>>
rawDedupVars == <<r1, r2>>
rawRespVars == <<rawWire, rawPeer, rawErr>>
rawVars == <<fbVars, rpc, rim, rawDedupVars, rawRespVars>>

RawInit ==
  /\ Fb!FramebufferInit
  /\ rpc = "none"
  /\ rim = NoFrame
  /\ Dedup!DeduperInit
  /\ Raw!ResponseInit

RawGoto(from, to) ==
  /\ rpc = from
  /\ rpc' = to

DrawFrame ==
  /\ \E f \in Frames : Fb!Draw(f)
  /\ UNCHANGED <<rpc, rim, rawDedupVars, rawRespVars>>

\* h.readImage, for the first frame and for the others
RawStartRead ==
  /\ rpc \in {"first", "read"}
  /\ Fb!ReadBegin
  /\ UNCHANGED <<rpc, rim, rawDedupVars, rawRespVars>>

RawFinishRead ==
  /\ rpc \in {"first", "read"}
  /\ \E f \in Frames : Fb!ReadEnd(f) /\ rim' = f
  /\ rpc' = IF rpc = "first" THEN "head" ELSE "dedup"
  /\ UNCHANGED <<rawDedupVars, rawRespVars>>

\* It fails: an error response, or the end of the stream.
RawFailRead ==
  /\ rpc \in {"first", "read"}
  /\ reading = "no"
  /\ rpc' = "done"
  /\ UNCHANGED <<fbVars, rim, rawDedupVars, rawRespVars>>

\* The raw header and the first frame leave in one flush.
RawHead ==
  /\ RawGoto("head", "read")
  /\ rawWire' = <<Header, rim>>
  /\ UNCHANGED <<fbVars, rim, rawDedupVars, rawPeer, rawErr>>

RawSkipFrame ==
  /\ RawGoto("dedup", "read")
  /\ Dedup!Skip(rim)
  /\ UNCHANGED <<fbVars, rim, rawRespVars>>

RawKeepFrame ==
  /\ RawGoto("dedup", "part")
  /\ Dedup!Keep(rim)
  /\ UNCHANGED <<fbVars, rim, rawRespVars>>

RawCreatePart ==
  /\ RawGoto("part", IF rawErr THEN "done" ELSE "write")
  /\ UNCHANGED <<fbVars, rim, rawDedupVars, rawRespVars>>

\* w.Write(pix) and Flush. The error of Write ends the stream; a frame small
\* enough for the buffer fails in Flush only, whose error is dropped.
RawWrite ==
  /\ rpc = "write"
  /\ Raw!Write(rim)
  /\ \/ rpc' = "read"
     \/ rawErr' /\ rpc' = "done"
  /\ UNCHANGED <<fbVars, rim, rawDedupVars>>

RawReset ==
  /\ Raw!Reset
  /\ UNCHANGED <<fbVars, rpc, rim, rawDedupVars>>

\* The device goes down or out of reach: what the proxy has not received by
\* then may be lost.
DeviceDown ==
  /\ rpc \notin {"none", "done"}
  /\ rpc' = "done"
  /\ \E n \in 0..Len(rawWire) : rawWire' = SubSeq(rawWire, 1, n)
  /\ UNCHANGED <<fbVars, rim, rawDedupVars, rawPeer, rawErr>>

RawStep ==
  \/ RawStartRead
  \/ RawFinishRead
  \/ RawHead
  \/ RawSkipFrame
  \/ RawKeepFrame
  \/ RawCreatePart
  \/ RawWrite

RawTypeOK ==
  /\ Fb!FramebufferTypeOK
  /\ rpc \in {"none", "first", "head", "read", "dedup", "part", "write", "done"}
  /\ rim \in Frames \cup {NoFrame}
  /\ Dedup!DeduperTypeOK
  /\ Raw!ResponseTypeOK(Frames \cup {Header})
=============================================================================
