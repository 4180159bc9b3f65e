------------------------- MODULE VideoHandlerProofs -------------------------
(***************************************************************************)
(* Lemmas about serveVideo that hold wherever its frames come from: what   *)
(* the deduper remembers are the two frames last sent.  DirectVideoProofs  *)
(* and ProxyVideoProofs apply them to the two readers.                     *)
(***************************************************************************)
EXTENDS VideoHandler, SequenceTheorems, TLAPS

\* The checksum of different frames differs, and none is the deduper's initial
\* zero.  FNV-1a cannot give that for all frames; SkipOnlyShown needs it.
NoCollision ==
  /\ \A f \in Frames : Hash[f] # 0
  /\ \A f, g \in Frames : Hash[f] = Hash[g] => f = g

\* The checksum that the deduper holds for a place in Delivered.
HashOf(p) == IF p = NoFrame THEN 0 ELSE Hash[p]

\* The last two of the parts s, p and those on the wire w.
Last(w, p) == IF Len(w) = 0 THEN p ELSE w[Len(w)]
LastButOne(w, p, s) ==
  IF Len(w) = 0 THEN s ELSE IF Len(w) = 1 THEN p ELSE w[Len(w) - 1]

LastPart == Last(wire, pending)
PartBefore == LastButOne(wire, pending, shown)

\* Between keeping a frame and sending it, the deduper is one frame ahead of
\* the wire.
Remembered ==
  peer = "up" =>
    IF pc \in {"part", "send"}
    THEN h2 = HashOf(im) /\ h1 = HashOf(LastPart)
    ELSE h2 = HashOf(LastPart) /\ h1 = HashOf(PartBefore)

\* serveVideo has read a frame before it handles it, ...
InHand == pc \in {"dedup", "sleep", "part", "send"} => im \in Frames

\* ... skips only what the deduper has seen twice, ...
Skipped == pc = "sleep" => Repeated(im)

\* ... and meets a write error only on a dead connection.
ErrorsLate == werr => peer = "reset"

VideoInv ==
  VideoTypeOK /\ Remembered /\ InHand /\ Skipped /\ ErrorsLate

\* The steps that the two readers build their next-state relations from.
Connect ==
  /\ pc \in {"dial", "header"}
  /\ pc' \in {"header", "read"}
  /\ UNCHANGED <<im, dedupVars, respVars, browserVars>>

VideoStep ==
  \/ \E f \in Frames : Got(f)
  \/ \E from \in {"dial", "header", "read"} : GiveUp(from)
  \/ Connect
  \/ SkipFrame \/ KeepFrame \/ Wake \/ CreatePart \/ Send
  \/ Receive \/ Disturbed \/ KernelReset

-----------------------------------------------------------------------------

\* What a part that is written does to the last two, ...
LEMMA LastAppended ==
  ASSUME NEW S, NEW w \in Seq(S), NEW x \in S, NEW p, NEW s
  PROVE  /\ Append(w, x) \in Seq(S)
         /\ Len(Append(w, x)) = Len(w) + 1
         /\ Last(Append(w, x), p) = x
         /\ LastButOne(Append(w, x), p, s) = Last(w, p)
BY AppendProperties, LenProperties DEF Last, LastButOne

\* ... a part that is received does not do to them, ...
LEMMA LastReceived ==
  ASSUME NEW S, NEW w \in Seq(S), w # <<>>, NEW p, NEW s
  PROVE  /\ Tail(w) \in Seq(S) /\ Head(w) \in S
         /\ Len(Tail(w)) = Len(w) - 1
         /\ Last(Tail(w), Head(w)) = Last(w, p)
         /\ LastButOne(Tail(w), Head(w), p) = LastButOne(w, p, s)
<1>1. /\ Tail(w) \in Seq(S) /\ Head(w) \in S
      /\ Len(Tail(w)) = Len(w) - 1 /\ Len(w) \in Nat /\ Len(w) >= 1
      /\ \A i \in 1..Len(Tail(w)) : Tail(w)[i] = w[i + 1]
  BY HeadTailProperties, EmptySeq
<1>2. Head(w) = w[1]
  BY <1>1
<1> QED
  BY <1>1, <1>2 DEF Last, LastButOne

\* ... and that they are the last two that the browser gets.
LEMMA LastDelivered ==
  ASSUME NEW S, NEW w \in Seq(S), NEW p \in S, NEW s \in S
  PROVE  LET d == <<s, p>> \o w
         IN  d[Len(d)] = Last(w, p) /\ d[Len(d) - 1] = LastButOne(w, p, s)
<1> DEFINE b == <<s, p>>
            d == b \o w
            n == Len(w)
<1>1. b \in Seq(S) /\ Len(b) = 2 /\ b[1] = s /\ b[2] = p
  OBVIOUS
<1>2. n \in Nat
  BY LenProperties
<1> HIDE DEF b
<1>3. /\ Len(d) = n + 2
      /\ \A i \in 1..(n + 2) : d[i] = IF i <= 2 THEN b[i] ELSE w[i - 2]
  <2>1. /\ Len(d) = Len(b) + Len(w)
        /\ \A i \in 1..(Len(b) + Len(w)) :
             d[i] = IF i <= Len(b) THEN b[i] ELSE w[i - Len(b)]
    BY <1>1, ConcatProperties
  <2>2. Len(b) + Len(w) = n + 2
    BY <1>1, <1>2
  <2> QED
    BY <1>1, <2>1, <2>2
<1> HIDE DEF d, n
<1>4. n + 1 \in 1..(n + 2) /\ n + 2 \in 1..(n + 2)
  BY <1>2
<1>5. d[n + 1] = IF n + 1 <= 2 THEN b[n + 1] ELSE w[(n + 1) - 2]
  BY <1>3, <1>4
<1>6. d[n + 2] = IF n + 2 <= 2 THEN b[n + 2] ELSE w[(n + 2) - 2]
  BY <1>3, <1>4
<1>7. (n + 1) - 2 = n - 1 /\ (n + 2) - 2 = n
  BY <1>2
<1>8. CASE n = 0
  <2>1. d[n + 1] = s /\ d[n + 2] = p
    BY <1>1, <1>5, <1>6, <1>8
  <2> QED
    BY <1>2, <1>3, <1>8, <2>1 DEF Last, LastButOne, d, n, b
<1>9. CASE n = 1
  <2>1. d[n + 1] = p /\ d[n + 2] = w[n]
    BY <1>1, <1>5, <1>6, <1>7, <1>9
  <2> QED
    BY <1>2, <1>3, <1>9, <2>1 DEF Last, LastButOne, d, n, b
<1>10. CASE n > 1
  <2>1. d[n + 1] = w[n - 1] /\ d[n + 2] = w[n]
    BY <1>2, <1>5, <1>6, <1>7, <1>10
  <2> QED
    BY <1>2, <1>3, <1>10, <2>1 DEF Last, LastButOne, d, n, b
<1> QED
  BY <1>2, <1>8, <1>9, <1>10

-----------------------------------------------------------------------------

\* A new handler has nothing to remember.
LEMMA InitVideo ==
  ASSUME VideoInit, pc \in {"dial", "read"}
  PROVE  VideoInv
<1> USE DEF VideoInit, DeduperInit, ResponseInit
<1>1. werr \in BOOLEAN /\ ErrorsLate
  BY DEF ErrorsLate
<1>2. wire \in Seq(Frames) /\ Len(wire) = 0
  BY EmptySeq
<1>3. VideoTypeOK
  BY <1>1, <1>2, CapAssumption DEF VideoTypeOK, DeduperTypeOK, ResponseTypeOK
<1>4. Remembered
  BY <1>2 DEF Remembered, HashOf, LastPart, PartBefore, Last, LastButOne
<1> QED
  BY <1>1, <1>3, <1>4 DEF VideoInv, InHand, Skipped

\* Every step of serveVideo, of its connection and of its browser keeps the
\* deduper in line with what was sent.
LEMMA NextVideo ==
  ASSUME VideoInv, [VideoStep]_videoVars
  PROVE  VideoInv'
<1> USE VideoAssumption, CapAssumption, HashAssumption
    DEF VideoInv, VideoTypeOK, DeduperTypeOK, ResponseTypeOK, Remembered,
        InHand, Skipped, ErrorsLate, HashOf, LastPart, PartBefore, Goto,
        Last, LastButOne, dedupVars, respVars, browserVars, Repeated
<1>1. ASSUME NEW f \in Frames, Got(f)
      PROVE  VideoInv'
  BY <1>1 DEF Got
<1>2. ASSUME NEW from \in {"dial", "header", "read"}, GiveUp(from)
      PROVE  VideoInv'
  BY <1>2 DEF GiveUp
<1>3. CASE Connect
  BY <1>3 DEF Connect
<1>4. CASE SkipFrame
  BY <1>4 DEF SkipFrame, Skip
<1>5. CASE KeepFrame
  BY <1>5 DEF KeepFrame, Keep
<1>6. CASE Wake
  BY <1>6 DEF Wake
<1>7. CASE CreatePart
  BY <1>7 DEF CreatePart
<1>8. CASE Send
  <2>1. CASE peer # "reset" /\ Len(wire) < Cap /\ wire' = Append(wire, im)
             /\ UNCHANGED <<peer, werr>>
    <3>1. wire' \in Seq(Frames) /\ Len(wire') <= Cap
          /\ LastPart' = im /\ PartBefore' = LastPart
      BY <1>8, <2>1, LastAppended, LenProperties DEF Send
    <3> QED
      BY <1>8, <2>1, <3>1 DEF Send
  <2>2. CASE peer = "reset" /\ werr' = TRUE /\ UNCHANGED <<wire, peer>>
    <3>1. werr' \in BOOLEAN
      BY <2>2
    <3> QED
      BY <1>8, <2>2, <3>1 DEF Send
  <2> QED
    BY <1>8, <2>1, <2>2 DEF Send, Write
<1>9. CASE Receive
  <2>1. wire # <<>> /\ wire' = Tail(wire) /\ pending' = Head(wire)
        /\ shown' = pending /\ UNCHANGED <<pc, im, h1, h2, peer, werr>>
    BY <1>9 DEF Receive, Take
  <2>2. wire \in Seq(Frames) /\ Len(wire) \in Nat /\ Len(wire) <= Cap
    BY LenProperties
  <2>3. /\ wire' \in Seq(Frames) /\ Len(wire') = Len(wire) - 1
        /\ pending' \in Frames
    BY <2>1, <2>2, HeadTailProperties
  <2>4. LastPart' = LastPart /\ PartBefore' = PartBefore
    <3> HIDE DEF Last, LastButOne
    <3>1. Last(Tail(wire), Head(wire)) = Last(wire, pending)
          /\ LastButOne(Tail(wire), Head(wire), pending)
               = LastButOne(wire, pending, shown)
      BY <2>1, <2>2, LastReceived
    <3> QED
      BY <2>1, <3>1
  <2> HIDE DEF LastPart, PartBefore
  <2> QED
    BY <2>1, <2>2, <2>3, <2>4
<1>10. CASE Disturbed
  BY <1>10 DEF Disturbed, Leave, Vanish
<1>11. CASE KernelReset
  BY <1>11 DEF KernelReset, Reset
<1>12. CASE UNCHANGED videoVars
  BY <1>12 DEF videoVars
<1> QED
  BY <1>1, <1>2, <1>3, <1>4, <1>5, <1>6, <1>7, <1>8, <1>9, <1>10, <1>11, <1>12
     DEF VideoStep

\* So a handler skips only what the browser has and will get twice at the end.
LEMMA SkippedIsShown ==
  ASSUME NoCollision, VideoInv
  PROVE  SkipOnlyShown
<1> SUFFICES ASSUME pc = "sleep", peer = "up"
             PROVE  LET n == Len(Delivered)
                    IN  Delivered[n] = im /\ Delivered[n - 1] = im
  BY DEF SkipOnlyShown
<1>1. /\ LastPart \in Frames \cup {NoFrame}
      /\ PartBefore \in Frames \cup {NoFrame}
  <2>1. wire \in Seq(Frames) /\ Len(wire) \in Nat
    BY LenProperties DEF VideoInv, VideoTypeOK, ResponseTypeOK
  <2>2. pending \in Frames \cup {NoFrame} /\ shown \in Frames \cup {NoFrame}
    BY DEF VideoInv, VideoTypeOK
  <2>3. CASE Len(wire) = 0
    BY <2>2, <2>3 DEF LastPart, PartBefore, Last, LastButOne
  <2>4. CASE Len(wire) # 0
    <3>1. wire[Len(wire)] \in Frames
      BY <2>1, <2>4, ElementOfSeq
    <3>2. Len(wire) # 1 => wire[Len(wire) - 1] \in Frames
      <4> DEFINE n == Len(wire)
      <4>1. n \in Nat /\ n # 0
        BY <2>1, <2>4
      <4> HIDE DEF n
      <4>2. n # 1 => n - 1 \in 1..n
        BY <4>1
      <4> QED
        BY <2>1, <4>2, ElementOfSeq DEF n
    <3> QED
      BY <2>2, <2>4, <3>1, <3>2 DEF LastPart, PartBefore, Last, LastButOne
  <2> QED
    BY <2>3, <2>4
<1>2. /\ im \in Frames
      /\ HashOf(LastPart) = Hash[im] /\ HashOf(PartBefore) = Hash[im]
  BY DEF VideoInv, Remembered, InHand, Skipped, Repeated
<1>3. LastPart = im /\ PartBefore = im
  BY <1>1, <1>2 DEF NoCollision, HashOf
<1>4. Delivered[Len(Delivered)] = LastPart
      /\ Delivered[Len(Delivered) - 1] = PartBefore
  <2> DEFINE S == Frames \cup {NoFrame}
  <2>1. wire \in Seq(S) /\ pending \in S /\ shown \in S
    BY SeqMonotonic DEF VideoInv, VideoTypeOK, ResponseTypeOK
  <2> HIDE DEF S
  <2> QED
    BY <2>1, LastDelivered DEF Delivered, LastPart, PartBefore
<1> QED
  BY <1>3, <1>4
=============================================================================
