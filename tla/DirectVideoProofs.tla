------------------------- MODULE DirectVideoProofs -------------------------
(***************************************************************************)
(* srvfb -device, for every set of frames, every buffer size and every     *)
(* kind of failure.                                                        *)
(***************************************************************************)
EXTENDS DirectVideo, VideoHandlerProofs

FramebufferInv == FramebufferTypeOK /\ VideoInv

\* The handler starts with a clean deduper and a readable framebuffer.
LEMMA InitDirect == Init => FramebufferInv
BY InitVideo DEF Init, FramebufferInit, FramebufferInv, FramebufferTypeOK

\* Whoever draws, reads, sends or leaves: the handler's steps are those of
\* serveVideo, and the framebuffer keeps its type.
LEMMA NextDirect ==
  ASSUME FramebufferInv, [Next]_vars
  PROVE  FramebufferInv'
<1>1. [VideoStep]_videoVars
  BY DEF Next, DrawFrame, Handler, StartRead, FinishRead, FailRead, vars,
         VideoStep
<1>2. VideoInv'
  BY <1>1, NextVideo DEF FramebufferInv
<1>3. FramebufferTypeOK'
  BY DEF Next, DrawFrame, Handler, StartRead, FinishRead, FailRead, vars,
         fbVars, Draw, ReadBegin, ReadEnd, FramebufferTypeOK, FramebufferInv
<1> QED
  BY <1>2, <1>3 DEF FramebufferInv

LEMMA DirectInvariant == Spec => []FramebufferInv
BY InitDirect, NextDirect, PTL DEF Spec

\* Every variable keeps its type.
THEOREM DirectTypeCorrect == Spec => []TypeOK
<1>1. FramebufferInv => TypeOK
  BY DEF FramebufferInv, VideoInv, TypeOK
<1> QED
  BY <1>1, DirectInvariant, PTL

\* With a checksum that tells frames apart, serveVideo sleeps only when the
\* browser displays the frame it has read, or will once it has read all that is
\* under way.
THEOREM DirectSkipsOnlyShown == NoCollision => (Spec => []SkipOnlyShown)
<1> SUFFICES ASSUME NoCollision
             PROVE  Spec => []SkipOnlyShown
  OBVIOUS
<1>1. FramebufferInv => SkipOnlyShown
  BY SkippedIsShown DEF FramebufferInv
<1> QED
  BY <1>1, DirectInvariant, PTL
=============================================================================
