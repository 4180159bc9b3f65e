--------------------------- MODULE GeometryProofs ---------------------------
(* Proofs about Geometry: rows are never sheared, pictures never leave the *)
(* mapping, and they are the display's as long as nobody pans.             *)
EXTENDS Geometry, TLAPS

\* A piece of the memory begins at the start of a line, the first one that its mode
\* makes visible.
Piece(f) ==
  /\ \E y0 \in 0..Mem : f.from = y0 * line
  /\ f.from = Visual(f.mode).y0 * line

\* The strengthening: everything that the proxy goes by comes from one header,
\* whose stride is the line length, and from slices of whole lines.
IInv ==
  /\ mode \in Modes /\ line \in 1..(Limit - 1)
  /\ raw \in {"first", "stream", "done", "panic"}
  /\ proxy \in {"header", "stream", "done"}
  /\ hdr # None =>
       /\ hdr \in [stride : 0..(Limit - 1), width : Nat, height : Nat]
       /\ hdr.stride = line
  /\ raw = "first" => hdr = None
  /\ frame # None =>
       frame \in [from : 0..Mem, to : 0..Mem, mode : Modes] /\ Piece(frame)
  /\ conn \in {hdr, None}
  /\ proxy = "stream" => conn # None
  /\ im # None =>
       /\ im \in [from : 0..Mem, mode : Modes] /\ Piece(im)
       /\ conn # None
       /\ im.from + conn.stride * conn.height <= Mem

-----------------------------------------------------------------------------
(* Arithmetic. *)

\* A line of at least one word has a number below the size of the memory.
LEMMA LineNumber ==
  ASSUME NEW y \in Nat, NEW n \in Nat \ {0}, NEW k \in Nat, y * n <= k
  PROVE  y \in 0..k
<1>1. y <= y * n
  <2>1. y * n = y + y * (n - 1)
    OBVIOUS
  <2>2. y * (n - 1) >= 0
    OBVIOUS
  <2>3. y * (n - 1) \in Int /\ y * n \in Int
    OBVIOUS
  <2> QED
    BY <2>1, <2>2, <2>3
<1>2. y * n \in Int
  OBVIOUS
<1> QED
  BY <1>1, <1>2

\* Lines that begin earlier begin at lower words.
LEMMA LinesInOrder ==
  ASSUME NEW a \in Nat, NEW b \in Nat, NEW n \in Nat, a <= b
  PROVE  a * n <= b * n
<1>1. b * n = a * n + (b - a) * n
  OBVIOUS
<1>2. (b - a) * n >= 0
  OBVIOUS
<1>3. a * n \in Int /\ b * n \in Int /\ (b - a) * n \in Int
  OBVIOUS
<1> QED
  BY <1>1, <1>2, <1>3

\* A position in a picture is a word of it.
LEMMA PositionBound ==
  ASSUME NEW x \in Nat, NEW y \in Nat, NEW n \in Nat, NEW h \in Nat,
         x < n, y < h
  PROVE  y * n + x < n * h
<1>1. (y + 1) * n <= h * n
  BY LinesInOrder
<1>2. (y + 1) * n = y * n + n
  OBVIOUS
<1>3. h * n = n * h
  OBVIOUS
<1>4. y * n \in Int /\ n * h \in Int
  OBVIOUS
<1> QED
  BY <1>1, <1>2, <1>3, <1>4

\* What Device.Image makes of a mode.
LEMMA VisualType ==
  ASSUME NEW m \in Modes
  PROVE  /\ Visual(m).y0 \in Nat /\ Visual(m).y1 \in Nat
         /\ Visual(m).y0 <= Visual(m).y1
         /\ Dx(Visual(m)) \in Nat /\ Dy(Visual(m)) \in Nat
  BY GeometryAssumption DEF Visual, Rect, Lower, Upper, Dx, Dy

\* A slice that does not panic consists of lines.
LEMMA SliceType ==
  ASSUME IInv, Slice(mode).to <= Mem
  PROVE  /\ Slice(mode) \in [from : 0..Mem, to : 0..Mem, mode : Modes]
         /\ Piece(Slice(mode))
<1> DEFINE r == Visual(mode)
<1>1. mode \in Modes /\ line \in Nat \ {0} /\ Mem \in Nat
  BY GeometryAssumption DEF IInv
<1>2. r.y0 \in Nat /\ r.y1 \in Nat /\ r.y0 <= r.y1
  BY <1>1, VisualType
<1>3. r.y0 * line <= r.y1 * line
  BY <1>1, <1>2, LinesInOrder
<1>4. r.y0 * line \in Nat /\ r.y1 * line \in Nat
  BY <1>1, <1>2
<1>5. r.y1 * line <= Mem
  BY DEF Slice
<1>6. r.y0 * line <= Mem
  BY <1>1, <1>3, <1>4, <1>5
<1>7. r.y0 \in 0..Mem
  BY <1>1, <1>2, <1>6, LineNumber
<1> HIDE DEF r
<1>8. Slice(mode) = [from |-> r.y0 * line, to |-> r.y1 * line, mode |-> mode]
  BY DEF Slice, r
<1>9. Slice(mode).from = Visual(Slice(mode).mode).y0 * line
  BY DEF Slice
<1>10. Slice(mode).from = r.y0 * line
  BY <1>8
<1>11. Slice(mode) \in [from : 0..Mem, to : 0..Mem, mode : Modes]
  BY <1>1, <1>4, <1>5, <1>6, <1>8
<1> QED
  BY <1>7, <1>9, <1>10, <1>11 DEF Piece

-----------------------------------------------------------------------------

\* Open finds a mode whose lines are not empty.
LEMMA InitIInv == Init => IInv
  BY GeometryAssumption DEF Init, IInv

\* No step disturbs it.
LEMMA NextIInv ==
  ASSUME IInv, [Next]_vars
  PROVE  IInv'
<1>0. Mem \in Nat /\ Limit \in Nat
  BY GeometryAssumption
<1>1. CASE SetMode
  BY <1>1 DEF SetMode, IInv, Piece
<1>2. ASSUME NEW from \in {"first", "stream"}, RawFrame(from)
      PROVE  IInv'
  <2>1. /\ frame' \in [from : 0..Mem, to : 0..Mem, mode : Modes]
        /\ Piece(frame')
    BY <1>2, SliceType DEF RawFrame
  <2>2. line' = line /\ conn' = conn /\ im' = im /\ proxy' = proxy /\ mode' = mode
    BY <1>2 DEF RawFrame
  <2>3. /\ frame' # None => frame' \in [from : 0..Mem, to : 0..Mem, mode : Modes]
        /\ Piece(frame)'
    BY <2>1, <2>2 DEF Piece
  <2>4. CASE raw = "first"
    <3>1. /\ RawHeader(mode) \in [stride : 0..(Limit - 1), width : Nat, height : Nat]
          /\ RawHeader(mode).stride = line
      <4>1. line % Limit = line
        BY <1>0 DEF IInv
      <4>2. Dx(Visual(mode)) \in Nat /\ Dy(Visual(mode)) \in Nat
        BY VisualType DEF IInv
      <4>3. line \in 0..(Limit - 1)
        BY <1>0 DEF IInv
      <4> QED
        BY <4>1, <4>2, <4>3 DEF RawHeader
    <3>2. hdr' = RawHeader(mode) /\ raw' = "stream"
      BY <1>2, <2>4 DEF RawFrame
    <3>3. hdr = None /\ conn = None /\ im = None /\ proxy # "stream"
      BY <2>4 DEF IInv
    <3> QED
      BY <2>2, <2>3, <3>1, <3>2, <3>3 DEF IInv
  <2>5. CASE raw # "first"
    <3>1. hdr' = hdr /\ raw' = "stream"
      BY <1>2, <2>5 DEF RawFrame
    <3> QED
      BY <2>2, <2>3, <3>1 DEF IInv, Piece
  <2> QED
    BY <2>4, <2>5
<1>3. CASE RawPanic
  BY <1>3 DEF RawPanic, IInv, Piece
<1>4. CASE RawError
  BY <1>4 DEF RawError, IInv, Piece
<1>5. CASE ReadHdr
  BY <1>5 DEF ReadHdr, IInv, Piece
<1>6. CASE ReadImage
  <2>1. /\ frame \in [from : 0..Mem, to : 0..Mem, mode : Modes]
        /\ Piece(frame) /\ conn # None
    BY <1>6 DEF ReadImage, IInv
  <2>2. CASE frame.to - frame.from >= conn.stride * conn.height
    <3>1. im' = [from |-> frame.from, mode |-> frame.mode] /\ proxy' = proxy
      BY <1>6, <2>2 DEF ReadImage
    <3>2. conn.stride * conn.height \in Int
      BY <2>1 DEF IInv
    <3>3. frame.from + conn.stride * conn.height <= Mem
      BY <1>0, <2>1, <2>2, <3>2
    <3> QED
      BY <1>6, <2>1, <3>1, <3>3 DEF ReadImage, IInv, Piece
  <2>3. CASE ~(frame.to - frame.from >= conn.stride * conn.height)
    <3>1. im' = im /\ proxy' = "done"
      BY <1>6, <2>3 DEF ReadImage
    <3> QED
      BY <1>6, <3>1 DEF ReadImage, IInv, Piece
  <2> QED
    BY <2>2, <2>3
<1>7. CASE UNCHANGED vars
  BY <1>7 DEF vars, IInv, Piece
<1> QED
  BY <1>1, <1>2, <1>3, <1>4, <1>5, <1>6, <1>7 DEF Next

\* So it holds always.
LEMMA Invariance == Spec => []IInv
  BY InitIInv, NextIInv, PTL DEF Spec

-----------------------------------------------------------------------------

\* The words of the proxy's picture.
LEMMA ProxiedWords ==
  ASSUME IInv, im # None, NEW p \in DOMAIN Proxied
  PROVE  /\ p[1] \in Nat /\ p[2] \in Nat /\ p[2] < conn.height
         /\ im.from \in Nat /\ conn.stride = line /\ conn.height \in Nat
         /\ Proxied[p] = IF p[1] < line THEN im.from + p[2] * line + p[1] ELSE Blank
<1>1. conn = hdr /\ hdr # None
  BY DEF IInv
<1>2. conn.stride = line /\ conn.width \in Nat /\ conn.height \in Nat
  BY <1>1 DEF IInv
<1>3. p \in (0..(conn.width - 1)) \X (0..(conn.height - 1))
  BY DEF Proxied, Encoded, Positions
<1>4. Proxied[p] = IF p[1] < line THEN im.from + p[2] * line + p[1] ELSE Blank
  BY <1>2, <1>3 DEF Proxied, Encoded, Positions
<1>5. im.from \in Nat
  BY GeometryAssumption DEF IInv
<1>6. p[1] \in Nat /\ p[2] \in Nat /\ p[2] < conn.height
  BY <1>2, <1>3
<1> QED
  BY <1>2, <1>4, <1>5, <1>6

\* Every variable keeps its type, and the proxy's pictures consist of words of the
\* mapping (readImage's ReadFull, srvfb.go:465), for all modes and line lengths.
THEOREM GeometryTypeCorrect == Spec => []TypeOK
<1>1. IInv => TypeOK
  <2> SUFFICES ASSUME IInv PROVE TypeOK
    OBVIOUS
  <2>1. ASSUME im # None, NEW p \in DOMAIN Proxied
        PROVE  Proxied[p] \in Blank..(Mem - 1)
    <3>1. CASE p[1] < line
      <4>0. /\ p[1] \in Nat /\ p[2] \in Nat /\ line \in Nat /\ conn.height \in Nat
            /\ p[2] < conn.height
        BY <2>1, ProxiedWords, GeometryAssumption DEF IInv
      <4>1. p[2] * line + p[1] < line * conn.height
        BY <3>1, <4>0, PositionBound
      <4>2. im.from + line * conn.height <= Mem
        BY <2>1, ProxiedWords DEF IInv
      <4>3. /\ line * conn.height \in Int /\ p[2] * line \in Nat
            /\ p[1] \in Nat /\ im.from \in Nat /\ Mem \in Nat
        BY <2>1, ProxiedWords, GeometryAssumption DEF IInv
      <4>4. Proxied[p] = im.from + p[2] * line + p[1]
        BY <2>1, <3>1, ProxiedWords
      <4> QED
        BY <4>1, <4>2, <4>3, <4>4 DEF Blank
    <3>2. CASE ~(p[1] < line)
      BY <2>1, <3>2, ProxiedWords, GeometryAssumption DEF Blank
    <3> QED
      BY <3>1, <3>2
  <2>2. line \in Nat
    BY GeometryAssumption DEF IInv
  <2> QED
    BY <2>1, <2>2 DEF IInv, TypeOK
<1> QED
  BY <1>1, Invariance, PTL

\* However the mode changes under the proxy's header, the rows that it shows are
\* pieces of consecutive lines: the stride of the header is the line length of
\* Open, and serveRaw slices whole lines.
THEOREM RowsStayAligned == Spec => []RowsAligned
<1>1. IInv => RowsAligned
  <2> SUFFICES ASSUME IInv, im # None
               PROVE  \E y0 \in 0..Mem : \A p \in DOMAIN Proxied :
                        p[1] < line => Proxied[p] = (y0 + p[2]) * line + p[1]
    BY DEF RowsAligned
  <2>1. PICK y0 \in 0..Mem : im.from = y0 * line
    BY DEF IInv, Piece
  <2>2. ASSUME NEW p \in DOMAIN Proxied, p[1] < line
        PROVE  Proxied[p] = (y0 + p[2]) * line + p[1]
    <3>1. Proxied[p] = im.from + p[2] * line + p[1]
      BY <2>2, ProxiedWords
    <3>2. p[1] \in Nat /\ p[2] \in Nat /\ line \in Nat /\ y0 \in Nat
      BY <2>2, ProxiedWords, GeometryAssumption DEF IInv
    <3>3. (y0 + p[2]) * line = y0 * line + p[2] * line
      BY <3>2
    <3> QED
      BY <2>1, <3>1, <3>3
  <2> QED
    BY <2>2
<1> QED
  BY <1>1, Invariance, PTL

\* A mode that is not panned makes visible what its resolution says.
LEMMA Unpanned ==
  ASSUME NEW m \in Modes, m.xo = 0, m.yo = 0
  PROVE  /\ Visual(m).y0 = 0 /\ Dx(Visual(m)) = m.xres /\ Dy(Visual(m)) = m.yres
         /\ m.xres \in Nat /\ m.yres \in Nat /\ m.xres <= m.xv /\ m.xv \in Nat
  BY GeometryAssumption DEF Visual, Rect, Lower, Upper, Dx, Dy

\* Lines encoded from the first one on are what the display shows, if the picture is
\* as large.
LEMMA EncodedIsVisible ==
  ASSUME NEW m \in Modes, m.xo = 0, m.yo = 0, m.xv = line
  PROVE  Encoded(0, line, m.xres, m.yres) = Visible(m)
<1>1. m.xres \in Nat /\ m.yres \in Nat /\ m.xres <= line /\ line \in Nat
  BY Unpanned
<1>2. ASSUME NEW p \in Positions(m.xres, m.yres)
      PROVE  (IF p[1] < line THEN 0 + p[2] * line + p[1] ELSE Blank)
               = (m.yo + p[2]) * m.xv + m.xo + p[1]
  <2>1. p[1] \in Nat /\ p[2] \in Nat /\ p[1] < line
    BY <1>1 DEF Positions
  <2>2. p[2] * line \in Nat
    BY <1>1, <2>1
  <2>3. m.yo + p[2] = p[2]
    BY <2>1
  <2> QED
    BY <2>1, <2>2, <2>3
<1> QED
  BY <1>2 DEF Encoded, Visible

\* A screen that is neither panned nor switched is shown by both kinds of srvfb
\* (fb.go:81, srvfb.go:378 and 465), for all resolutions and line lengths.
THEOREM UnpannedIsShown == Spec => []ShowsVisibleUnpanned
<1>1. IInv => ShowsVisibleUnpanned
  <2> SUFFICES ASSUME IInv PROVE ShowsVisibleUnpanned
    OBVIOUS
  <2>1. ASSUME mode.xv = line, mode.xo = 0, mode.yo = 0
        PROVE  Direct(mode) = Visible(mode)
    <3>1. mode \in Modes
      BY DEF IInv
    <3> QED
      BY <2>1, <3>1, Unpanned, EncodedIsVisible DEF Direct
  <2>2. ASSUME im # None, im.mode.xv = line, im.mode.xo = 0, im.mode.yo = 0,
               im.mode.xres = conn.width, im.mode.yres = conn.height
        PROVE  Proxied = Visible(im.mode)
    <3>1. im.mode \in Modes /\ im.from = Visual(im.mode).y0 * line /\ line \in Nat
      BY <2>2, GeometryAssumption DEF IInv, Piece
    <3>2. im.from = 0
      BY <2>2, <3>1, Unpanned
    <3>3. conn.stride = line
      BY <2>2 DEF IInv
    <3> QED
      BY <2>2, <3>1, <3>2, <3>3, EncodedIsVisible DEF Proxied
  <2> QED
    BY <2>1, <2>2 DEF ShowsVisibleUnpanned
<1> QED
  BY <1>1, Invariance, PTL

\* The slices of serveRaw and Encode are in range for every mode whose lines are as
\* long as in Open: that the virtual resolution is the size of the mapping and
\* contains the visual one is enough (fb.go:76-82).
THEOREM SlicesInRange == Spec => []PanicOnlyRotated
<1>1. IInv => PanicOnlyRotated
  <2> SUFFICES ASSUME IInv, Image(mode), mode.xv = line
               PROVE  Slice(mode).to <= Mem /\ ~DirectPanics(mode)
    BY DEF PanicOnlyRotated
  <2> DEFINE r == Visual(mode)
  <2>1. mode \in Modes /\ line \in Nat /\ Mem \in Nat /\ mode.yv \in Nat
    BY GeometryAssumption DEF IInv
  <2>2. mode.yv * line = Mem
    BY <2>1 DEF Image, Virtual, Rect, Lower, Upper, Dx, Dy
  <2>3. r.y0 \in Nat /\ r.y1 \in Nat /\ Dy(r) \in Nat /\ Dy(r) <= r.y1
    BY <2>1, VisualType DEF Dy
  <2>4. r.y1 <= mode.yv
    BY <2>1, GeometryAssumption DEF Visual, Rect, Upper
  <2> HIDE DEF r
  <2>5. r.y1 * line <= mode.yv * line /\ Dy(r) * line <= r.y1 * line
    BY <2>1, <2>3, <2>4, LinesInOrder
  <2>6. r.y1 * line \in Int /\ Dy(r) * line \in Int
    BY <2>1, <2>3
  <2>7. r.y1 * line <= Mem /\ ~(Dy(r) * line > Mem)
    BY <2>1, <2>2, <2>5, <2>6
  <2> QED
    BY <2>7 DEF Slice, DirectPanics, r
<1> QED
  BY <1>1, Invariance, PTL
=============================================================================
