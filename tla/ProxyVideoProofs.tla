-------------------------- MODULE ProxyVideoProofs --------------------------
(***************************************************************************)
(* srvfb -proxy, for every set of frames, all buffer sizes and every kind  *)
(* of failure of the device, of the stream between the two and of the      *)
(* browser; and the same for any request to it, of which a download uses   *)
(* the first steps of the video only.                                      *)
(***************************************************************************)
EXTENDS Server, VideoHandlerProofs

\* The device answers the request that dialProxy has sent.
Requested ==
  /\ pc = "dial" => rpc = "none"
  /\ rpc = "none" => pc \in {"dial", "done"}
  /\ rpc \in {"first", "head"} => pc = "header"
  /\ rawPeer # "up" => pc = "done"

\* serveRaw has read a frame before it handles it.
RawInHand == rpc \in {"head", "dedup", "part", "write"} => rim \in Frames

\* The raw stream is the header, which readHdr takes off, and then frames.
RawStream ==
  /\ rpc \in {"none", "first", "head"} => rawWire = <<>>
  /\ pc = "header" /\ rpc \notin {"first", "head", "done"} => rawWire # <<>>
  /\ \A i \in 1..Len(rawWire) :
       IF pc = "header" /\ i = 1 THEN rawWire[i] = Header
                                 ELSE rawWire[i] \in Frames

RawInv == RawTypeOK /\ Requested /\ RawInHand /\ RawStream

ProxyInv == VideoInv /\ RawInv

-----------------------------------------------------------------------------

\* Neither handler has started.
LEMMA InitProxy == Init => ProxyInv
<1> SUFFICES ASSUME Init PROVE ProxyInv
  OBVIOUS
<1> USE DEF Init, RawInit, Fb!FramebufferInit, Dedup!DeduperInit,
            Raw!ResponseInit
<1>1. rawErr \in BOOLEAN
  OBVIOUS
<1>2. rawWire \in Seq(Frames \cup {Header}) /\ Len(rawWire) = 0
  BY EmptySeq
<1>3. RawTypeOK
  BY <1>1, <1>2, ProxyAssumption
     DEF RawTypeOK, Fb!FramebufferTypeOK, Dedup!DeduperTypeOK,
         Raw!ResponseTypeOK
<1> QED
  BY <1>2, <1>3, InitVideo DEF ProxyInv, RawInv, Requested, RawInHand, RawStream

\* What readImage takes off the raw stream is a frame.
LEMMA HeadIsFrame ==
  ASSUME RawInv, rawWire # <<>>, pc # "header"
  PROVE  Head(rawWire) \in Frames
<1>1. rawWire \in Seq(Frames \cup {Header})
  BY DEF RawInv, RawTypeOK, Raw!ResponseTypeOK
<1>2. Len(rawWire) \in Nat \ {0} /\ Head(rawWire) = rawWire[1]
  BY <1>1, EmptySeq
<1> QED
  BY <1>2 DEF RawInv, RawStream

\* The proxy's steps are those of serveVideo.
LEMMA ProxyVideoStep ==
  ASSUME RawInv, [Next]_vars
  PROVE  [VideoStep]_videoVars
<1>1. CASE ReadImage
  <2>1. rawWire # <<>>
    BY <1>1 DEF ReadImage, ReadPart, PartComplete
  <2> QED
    BY <1>1, <2>1, HeadIsFrame DEF ReadImage, Got, Goto, VideoStep
<1>2. CASE Proxy /\ ~ReadImage
  BY <1>2 DEF Proxy, Dial, ReadHdr, ReadHdrFail, ReadImageFail, ProxyCreatePart,
              VideoStep, Connect, Goto
<1>3. CASE ~Proxy
  BY <1>3 DEF Next, Environment, DialFail, vars, VideoStep
<1> QED
  BY <1>1, <1>2, <1>3

\* Reading a part takes the header or a frame off the raw stream.
LEMMA ReadPartStream ==
  ASSUME RawInv, ReadPart
  PROVE  /\ rawWire \in Seq(Frames \cup {Header}) /\ rawWire # <<>>
         /\ rawWire' \in Seq(Frames \cup {Header}) /\ Len(rawWire') <= RawCap
         /\ \A i \in 1..Len(rawWire') : rawWire'[i] \in Frames
<1>1. /\ rawWire \in Seq(Frames \cup {Header}) /\ Len(rawWire) <= RawCap
      /\ rawWire # <<>> /\ rawWire' = Tail(rawWire)
  <2>1. rawWire \in Seq(Frames \cup {Header}) /\ Len(rawWire) <= RawCap
    BY DEF RawInv, RawTypeOK, Raw!ResponseTypeOK
  <2>2. Len(rawWire) # 0 /\ rawWire' = Tail(rawWire)
    BY DEF ReadPart, PartComplete
  <2>3. Len(<<>>) = 0
    BY EmptySeq
  <2> QED
    BY <2>1, <2>2, <2>3
<1>2. /\ rawWire' \in Seq(Frames \cup {Header})
      /\ Len(rawWire) \in Nat /\ Len(rawWire') = Len(rawWire) - 1
      /\ \A i \in 1..Len(rawWire') : rawWire'[i] = rawWire[i + 1]
  <2> DEFINE s == rawWire
             S == Frames \cup {Header}
  <2>1. s \in Seq(S) /\ s # <<>> /\ Len(s) \in Nat
    BY <1>1, LenProperties
  <2> HIDE DEF s, S
  <2>2. Tail(s) \in Seq(S) /\ Len(Tail(s)) = Len(s) - 1
        /\ \A i \in 1..Len(Tail(s)) : Tail(s)[i] = s[i + 1]
    BY <2>1, HeadTailProperties
  <2> QED
    BY <1>1, <2>1, <2>2 DEF s, S
<1>3. Len(rawWire') <= RawCap
  BY <1>1, <1>2, ProxyAssumption
<1>4. ASSUME NEW i \in 1..Len(rawWire')
      PROVE  rawWire'[i] \in Frames
  <2>1. i + 1 \in 1..Len(rawWire) /\ i + 1 # 1
    BY <1>2
  <2> QED
    BY <1>2, <2>1 DEF RawInv, RawStream
<1> QED
  BY <1>1, <1>2, <1>3, <1>4

\* Every step of either handler, of the device and of the two connections keeps
\* the raw stream in order.
LEMMA NextRaw ==
  ASSUME RawInv, [Next]_vars
  PROVE  RawInv'
<1> USE ProxyAssumption
    DEF RawInv, RawTypeOK, Fb!FramebufferTypeOK, Dedup!DeduperTypeOK,
        Raw!ResponseTypeOK, Requested, RawInHand, RawStream, Goto, RawGoto,
        fbVars, rawDedupVars, rawRespVars, rawVars, upstream
<1>1. CASE Dial
  BY <1>1 DEF Dial
<1>2. CASE ReadHdr
  <2>1. rawWire' \in Seq(Frames \cup {Header}) /\ Len(rawWire') <= RawCap
        /\ (\A i \in 1..Len(rawWire') : rawWire'[i] \in Frames)
        /\ rawWire # <<>>
    BY <1>2, ReadPartStream DEF ReadHdr
  <2> QED
    BY <1>2, <2>1 DEF ReadHdr, ReadPart
<1>3. CASE ReadHdrFail \/ ReadImageFail
  BY <1>3 DEF ReadHdrFail, ReadImageFail, GiveUp, CloseBody
<1>4. CASE ReadImage
  <2>1. rawWire' \in Seq(Frames \cup {Header}) /\ Len(rawWire') <= RawCap
        /\ (\A i \in 1..Len(rawWire') : rawWire'[i] \in Frames)
        /\ rawWire # <<>>
    BY <1>4, ReadPartStream DEF ReadImage
  <2> QED
    BY <1>4, <2>1 DEF ReadImage, ReadPart, Got
<1>5. CASE ProxyCreatePart
  BY <1>5 DEF ProxyCreatePart, CreatePart, CloseBody
<1>6. CASE (SkipFrame \/ KeepFrame \/ Wake \/ Send) /\ UNCHANGED upstream
  BY <1>6 DEF SkipFrame, KeepFrame, Wake, Send
<1>7. CASE DialFail
  BY <1>7 DEF DialFail, GiveUp
<1>8. CASE (Receive \/ Disturbed \/ KernelReset) /\ UNCHANGED upstream
  BY <1>8 DEF Receive, Disturbed, KernelReset
<1>9. CASE DrawFrame /\ UNCHANGED videoVars
  BY <1>9 DEF DrawFrame, Fb!Draw, videoVars
<1>10. CASE RawStartRead /\ UNCHANGED videoVars
  BY <1>10 DEF RawStartRead, Fb!ReadBegin, videoVars
<1>11. CASE RawFinishRead /\ UNCHANGED videoVars
  BY <1>11 DEF RawFinishRead, Fb!ReadEnd, videoVars
<1>12. CASE RawHead /\ UNCHANGED videoVars
  <2>1. rawWire' = <<Header, rim>> /\ rim \in Frames
    BY <1>12 DEF RawHead
  <2>2. rawWire' \in Seq(Frames \cup {Header}) /\ Len(rawWire') = 2
        /\ rawWire'[1] = Header /\ rawWire'[2] \in Frames
    BY <2>1
  <2> QED
    BY <1>12, <2>2 DEF RawHead, videoVars
<1>13. CASE RawSkipFrame /\ UNCHANGED videoVars
  BY <1>13 DEF RawSkipFrame, Dedup!Skip, Dedup!dedupVars, videoVars
<1>14. CASE RawKeepFrame /\ UNCHANGED videoVars
  BY <1>14 DEF RawKeepFrame, Dedup!Keep, videoVars
<1>15. CASE RawCreatePart /\ UNCHANGED videoVars
  BY <1>15 DEF RawCreatePart, videoVars
<1>16. CASE RawWrite /\ UNCHANGED videoVars
  <2>1. CASE rawPeer # "reset" /\ Len(rawWire) < RawCap
             /\ rawWire' = Append(rawWire, rim) /\ UNCHANGED <<rawPeer, rawErr>>
    <3>1. /\ rawWire' \in Seq(Frames \cup {Header}) /\ Len(rawWire) \in Nat
          /\ Len(rawWire') = Len(rawWire) + 1 /\ rim \in Frames
          /\ \A i \in 1..Len(rawWire) : rawWire'[i] = rawWire[i]
          /\ rawWire'[Len(rawWire) + 1] = rim
      BY <1>16, <2>1, AppendProperties, LenProperties DEF RawWrite
    <3> QED
      BY <1>16, <2>1, <3>1 DEF RawWrite, videoVars
  <2>2. CASE rawPeer = "reset" /\ rawErr' = TRUE
             /\ UNCHANGED <<rawWire, rawPeer>>
    <3>1. rawErr' \in BOOLEAN
      BY <2>2
    <3> QED
      BY <1>16, <2>2, <3>1 DEF RawWrite, videoVars
  <2> QED
    BY <1>16, <2>1, <2>2 DEF RawWrite, Raw!Write
<1>17. CASE RawFailRead /\ UNCHANGED videoVars
  BY <1>17 DEF RawFailRead, videoVars
<1>18. CASE DeviceDown /\ UNCHANGED videoVars
  <2>1. PICK n \in 0..Len(rawWire) : rawWire' = SubSeq(rawWire, 1, n)
    BY <1>18 DEF DeviceDown
  <2>2. /\ rawWire' \in Seq(Frames \cup {Header}) /\ Len(rawWire) \in Nat
        /\ Len(rawWire') = n /\ \A i \in 1..n : rawWire'[i] = rawWire[i]
    BY <2>1, SubSeqProperties, LenProperties, ElementOfSeq
  <2> QED
    BY <1>18, <2>1, <2>2 DEF DeviceDown, videoVars
<1>19. CASE RawReset /\ UNCHANGED videoVars
  BY <1>19, EmptySeq DEF RawReset, Raw!Reset, videoVars
<1>20. CASE UNCHANGED vars
  BY <1>20 DEF vars, videoVars
<1> QED
  BY <1>1, <1>2, <1>3, <1>4, <1>5, <1>6, <1>7, <1>8, <1>9, <1>10, <1>11, <1>12,
     <1>13, <1>14, <1>15, <1>16, <1>17, <1>18, <1>19, <1>20
     DEF Next, Environment, Proxy, RawStep

-----------------------------------------------------------------------------

\* Both layers together are an invariant.
LEMMA ProxyInvariant == Spec => []ProxyInv
<1>1. Init => ProxyInv
  BY InitProxy
<1>2. ProxyInv /\ [Next]_vars => ProxyInv'
  BY NextRaw, ProxyVideoStep, NextVideo DEF ProxyInv
<1> QED
  BY <1>1, <1>2, PTL DEF Spec

\* Every variable of the device, of the proxy and between them keeps its type;
\* in particular readImage never takes the raw header for a frame.
THEOREM ProxyTypeCorrect == Spec => []TypeOK
<1>1. ProxyInv => TypeOK
  BY DEF ProxyInv, VideoInv, RawInv, TypeOK
<1> QED
  BY <1>1, ProxyInvariant, PTL

\* With a checksum that tells frames apart, the proxy's serveVideo, too, sleeps
\* only when its browser displays or will display the frame it has read.
THEOREM ProxySkipsOnlyShown == NoCollision => (Spec => []SkipOnlyShown)
<1> SUFFICES ASSUME NoCollision
             PROVE  Spec => []SkipOnlyShown
  OBVIOUS
<1>1. ProxyInv => SkipOnlyShown
  BY SkippedIsShown DEF ProxyInv
<1> QED
  BY <1>1, ProxyInvariant, PTL

-----------------------------------------------------------------------------
(* Any request. *)

\* A download ends with a picture that no deduper has seen.
ServerInv ==
  /\ RawInv /\ VideoTypeOK
  /\ ~(request = "/download" /\ pc = "done") => VideoInv

\* A handler that has returned leaves its connection to the kernels and the browser.
LEMMA AfterDone ==
  ASSUME VideoTypeOK, Environment, pc = "done"
  PROVE  VideoTypeOK' /\ pc' = "done"
<1> USE DEF VideoTypeOK, DeduperTypeOK, ResponseTypeOK, dedupVars, respVars, browserVars
<1>1. CASE Receive
  <2>1. /\ wire \in Seq(Frames) /\ wire # <<>> /\ wire' = Tail(wire)
        /\ Len(wire) \in Nat /\ Len(wire) <= Cap /\ Cap \in Nat
        /\ pending' = Head(wire)
    BY <1>1, LenProperties, CapAssumption DEF Receive, Take
  <2>2. wire' \in Seq(Frames) /\ Len(wire') = Len(wire) - 1 /\ pending' \in Frames
    BY <2>1, HeadTailProperties
  <2>3. Len(wire') <= Cap
    BY <2>1, <2>2
  <2> QED
    BY <1>1, <2>2, <2>3 DEF Receive, Take
<1>2. CASE Disturbed
  BY <1>2 DEF Disturbed, Leave, Vanish
<1>3. CASE KernelReset
  <2>1. wire' = <<>> /\ wire' \in Seq(Frames) /\ Len(wire') = 0 /\ Cap \in Nat
    BY <1>3, EmptySeq, CapAssumption DEF KernelReset, Reset
  <2> QED
    BY <1>3, <2>1 DEF KernelReset, Reset
<1>4. CASE UNCHANGED videoVars
  BY <1>4 DEF videoVars
<1> QED
  BY <1>1, <1>2, <1>3, <1>4 DEF Environment

LEMMA ServerNextInv ==
  ASSUME ServerInv, [ServerNext]_serverVars
  PROVE  ServerInv'
<1>1. ASSUME VideoInv, [VideoStep]_videoVars, RawInv' PROVE ServerInv'
  BY <1>1, NextVideo DEF ServerInv, VideoInv
<1> USE DEF Goto, RawInv, RawTypeOK, Fb!FramebufferTypeOK, Dedup!DeduperTypeOK,
            Raw!ResponseTypeOK, Requested, RawInHand, RawStream
<1>2. CASE ServeHTTP
  <2>1. pc = "dial" /\ GiveUp("dial") /\ UNCHANGED upstream
    BY <1>2 DEF ServeHTTP, GiveUp
  <2>2. RawInv'
    BY <2>1 DEF ServerInv, GiveUp, upstream
  <2> QED
    BY <1>1, <2>1, <2>2 DEF ServerInv, VideoStep
<1>3. CASE Handle
  <2>1. Next /\ pc # "done"
    BY <1>3 DEF Handle, Next, Proxy, DialFail, GiveUp, Dial, ReadHdr, ReadHdrFail, ReadImage,
                ReadImageFail, ProxyCreatePart, CreatePart, SkipFrame, KeepFrame, Wake, Send,
                Got
  <2> QED
    BY <1>1, <2>1, NextRaw, ProxyVideoStep DEF ServerInv
<1>4. CASE DialChained
  <2>1. pc = "dial" /\ Connect
    BY <1>4 DEF DialChained, Connect
  <2>2. RawInv'
    BY <1>4 DEF ServerInv, DialChained
  <2> QED
    BY <1>1, <2>1, <2>2 DEF ServerInv, VideoStep
<1>5. CASE ServeImage
  <2>1. /\ pc = "dedup" /\ pc' = "done" /\ Write(im) /\ CloseBody
        /\ request = "/download" /\ request' = request
        /\ UNCHANGED <<im, dedupVars, browserVars>>
    BY <1>5 DEF ServeImage
  <2>2. im \in Frames /\ VideoTypeOK
    BY <2>1 DEF ServerInv, VideoInv, InHand
  <2>3. RawInv'
    BY <2>1 DEF ServerInv, CloseBody
  <2>4. wire' \in Seq(Frames) /\ Len(wire') <= Cap /\ peer' = peer /\ werr' \in BOOLEAN
    <3>1. wire \in Seq(Frames) /\ Len(wire) \in Nat /\ Len(wire) <= Cap /\ werr \in BOOLEAN
      BY <2>2, LenProperties DEF VideoTypeOK, ResponseTypeOK
    <3>2. CASE wire' = Append(wire, im) /\ Len(wire) < Cap /\ UNCHANGED <<peer, werr>>
      <4>1. wire' \in Seq(Frames) /\ Len(wire') = Len(wire) + 1
        BY <2>2, <3>1, <3>2, AppendProperties
      <4> QED
        BY <3>1, <3>2, <4>1, CapAssumption
    <3>3. CASE werr' = TRUE /\ UNCHANGED <<wire, peer>>
      <4>1. werr' \in BOOLEAN
        BY <3>3
      <4> QED
        BY <3>1, <3>3, <4>1
    <3> QED
      BY <2>1, <3>2, <3>3 DEF Write
  <2>5. VideoTypeOK'
    BY <2>1, <2>2, <2>4
       DEF VideoTypeOK, DeduperTypeOK, ResponseTypeOK, dedupVars, browserVars
  <2> QED
    BY <2>1, <2>3, <2>5 DEF ServerInv
<1>6. CASE Environment /\ UNCHANGED <<request, answer>>
  <2>1. RawInv' /\ [VideoStep]_videoVars
    BY <1>6, NextRaw, ProxyVideoStep DEF ServerInv, Next
  <2>2. CASE request = "/download" /\ pc = "done"
    BY <1>6, <2>1, <2>2, AfterDone DEF ServerInv
  <2>3. CASE ~(request = "/download" /\ pc = "done")
    BY <1>1, <2>1, <2>3 DEF ServerInv
  <2> QED
    BY <2>2, <2>3
<1>7. CASE UNCHANGED serverVars
  <2>1. UNCHANGED vars /\ UNCHANGED videoVars /\ pc' = pc /\ request' = request
    BY <1>7 DEF serverVars, vars, videoVars
  <2>2. RawInv' /\ [VideoStep]_videoVars
    BY <2>1, NextRaw, ProxyVideoStep DEF ServerInv
  <2>3. VideoTypeOK'
    BY <2>1 DEF ServerInv, VideoTypeOK, DeduperTypeOK, ResponseTypeOK, videoVars, dedupVars,
                respVars, browserVars
  <2> QED
    BY <1>1, <2>1, <2>2, <2>3 DEF ServerInv
<1> QED
  BY <1>2, <1>3, <1>4, <1>5, <1>6, <1>7 DEF ServerNext

LEMMA ServerInvariant == ServerSpec => []ServerInv
<1>1. ServerInit => ServerInv
  BY InitProxy DEF ServerInit, ServerInv, ProxyInv, VideoInv
<1> QED
  BY <1>1, ServerNextInv, PTL DEF ServerSpec

\* Every variable keeps its type, whatever is requested and also when the device is
\* another proxy.
THEOREM ServerTypeCorrect == ServerSpec => []TypeOK
<1>1. ServerInv => TypeOK
  BY DEF ServerInv, RawInv, TypeOK
<1> QED
  BY <1>1, ServerInvariant, PTL

\* A request for a video sleeps only on what its browser displays or will display;
\* other requests do not use the deduper.
THEOREM ServerSkipsOnlyShown == NoCollision => (ServerSpec => []SkipOnlyShown)
<1> SUFFICES ASSUME NoCollision
             PROVE  ServerSpec => []SkipOnlyShown
  OBVIOUS
<1>1. ServerInv => SkipOnlyShown
  BY SkippedIsShown DEF ServerInv, SkipOnlyShown
<1> QED
  BY <1>1, ServerInvariant, PTL
=============================================================================
