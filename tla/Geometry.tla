------------------------------ MODULE Geometry ------------------------------
(***************************************************************************)
(* Which words of the framebuffer a picture shows: Device.Image of fb.go,  *)
(* serveRaw's header and slices, what proxyconn makes of them, and the     *)
(* rows that the PNG encoder takes.  Meanwhile other processes change the  *)
(* mode of the device.                                                     *)
(*                                                                         *)
(* Lengths are in words of 16 bits, a pixel each, and a word stands for    *)
(* its content: im.Pix[k] is k.                                            *)
(***************************************************************************)
EXTENDS Integers

CONSTANTS
  Mem,    \* words in Device.mmap
  Modes,  \* [bpp, xv, yv, xo, yo, xres, yres] of VarScreeninfo
  Limit,  \* what the header's stride is cut off at: 2^16 bytes
  None

ASSUME GeometryAssumption ==
  /\ Mem \in Nat /\ Limit \in Nat \ {0}
  /\ Modes \subseteq [bpp : Nat, xv : Nat, yv : Nat, xo : Nat, yo : Nat,
                      xres : Nat, yres : Nat]
  \* of the display drivers
  /\ \A m \in Modes :
       /\ m.xo + m.xres <= m.xv /\ m.yo + m.yres <= m.yv
       /\ m.bpp = 16 => m.xv * m.yv <= Mem
       /\ (m.xv * m.bpp) \div 16 \in 1..(Limit - 1)
  /\ None \notin [stride : Nat, width : Nat, height : Nat]
  /\ None \notin [from : Nat, to : Nat, mode : Modes]
  /\ None \notin [from : Nat, mode : Modes]

VARIABLES
  mode,   \* of the device now
  line,   \* Device.finfo.Line_length
  raw,    \* serveRaw: "first", "stream", "done" or "panic"
  proxy,  \* the proxy: "header", "stream" or "done"
  hdr,    \* the raw header, or None
  frame,  \* the part under way: [from, to, mode], or None
  conn,   \* stride, width, height of proxyconn, or None
  im      \* the proxy's image: [from, mode], or None

vars == <<mode, line, raw, proxy, hdr, frame, conn, im>>

Lower(a, b) == IF a < b THEN a ELSE b
Upper(a, b) == IF a < b THEN b ELSE a

\* image.Rect
Rect(x0, y0, x1, y1) ==
  [x0 |-> Lower(x0, x1), y0 |-> Lower(y0, y1),
   x1 |-> Upper(x0, x1), y1 |-> Upper(y0, y1)]

Dx(r) == r.x1 - r.x0
Dy(r) == r.y1 - r.y0

\* Rectangle.In
In(r, s) ==
  \/ Dx(r) = 0 \/ Dy(r) = 0
  \/ s.x0 <= r.x0 /\ r.x1 <= s.x1 /\ s.y0 <= r.y0 /\ r.y1 <= s.y1

Virtual(m) == Rect(0, 0, m.xv, m.yv)
Visual(m) == Rect(m.xo, m.yo, m.xres, m.yres)

\* Device.Image returns an image; readImage then takes over its stride and its
\* rectangle.
Image(m) ==
  /\ m.bpp = 16
  /\ Dx(Virtual(m)) * Dy(Virtual(m)) = Mem
  /\ In(Visual(m), Virtual(m))

-----------------------------------------------------------------------------

\* The driver's line length is read once, in Open.
Init ==
  /\ mode \in Modes /\ line = (mode.xv * mode.bpp) \div 16
  /\ raw = "first" /\ proxy = "header"
  /\ hdr = None /\ frame = None /\ conn = None /\ im = None

\* Another process rotates, pans or switches the screen.
SetMode ==
  /\ mode' \in Modes
  /\ UNCHANGED <<line, raw, proxy, hdr, frame, conn, im>>

\* Mutant of Slice: one line too many.
SliceInclusive(m) ==
  [from |-> Visual(m).y0 * line, to |-> (Visual(m).y1 + 1) * line, mode |-> m]

\* im.Pix[im.Rect.Min.Y*im.Stride : im.Rect.Max.Y*im.Stride]
Slice(m) == [from |-> Visual(m).y0 * line, to |-> Visual(m).y1 * line, mode |-> m]

\* The header that goes out with the first frame
RawHeader(m) ==
  [stride |-> line % Limit, width |-> Dx(Visual(m)), height |-> Dy(Visual(m))]

RawFrame(from) ==
  /\ raw = from /\ frame = None
  /\ Image(mode)
  /\ Slice(mode).to <= Mem
  /\ frame' = Slice(mode)
  /\ raw' = "stream"
  /\ hdr' = IF raw = "first" THEN RawHeader(mode) ELSE hdr
  /\ UNCHANGED <<mode, line, proxy, conn, im>>

\* Slicing beyond the mapping panics, which ends the connection.
RawPanic ==
  /\ raw \in {"first", "stream"} /\ frame = None
  /\ Image(mode)
  /\ Slice(mode).to > Mem
  /\ raw' = "panic"
  /\ UNCHANGED <<mode, line, proxy, hdr, frame, conn, im>>

RawError ==
  /\ raw \in {"first", "stream"} /\ frame = None
  /\ ~Image(mode)
  /\ raw' = "done"
  /\ UNCHANGED <<mode, line, proxy, hdr, frame, conn, im>>

\* Mutant of ReadHdr: the lines are taken to be as long as the picture is wide.
ReadHdrWidth ==
  /\ proxy = "header" /\ hdr # None
  /\ conn' = [hdr EXCEPT !.stride = hdr.width]
  /\ proxy' = "stream"
  /\ UNCHANGED <<mode, line, raw, hdr, frame, im>>

ReadHdr ==
  /\ proxy = "header" /\ hdr # None
  /\ conn' = hdr
  /\ proxy' = "stream"
  /\ UNCHANGED <<mode, line, raw, hdr, frame, im>>

\* Mutant of ReadImage: a short frame is taken for a whole one.
ReadImageShort ==
  /\ proxy = "stream" /\ frame # None
  /\ frame' = None
  /\ im' = [from |-> frame.from, mode |-> frame.mode]
  /\ UNCHANGED <<mode, line, raw, proxy, hdr, conn>>

\* proxyconn.readImage: the rest of a larger frame is left out, a smaller one is
\* an error.
ReadImage ==
  /\ proxy = "stream" /\ frame # None
  /\ frame' = None
  /\ IF frame.to - frame.from >= conn.stride * conn.height
     THEN im' = [from |-> frame.from, mode |-> frame.mode] /\ UNCHANGED proxy
     ELSE proxy' = "done" /\ UNCHANGED im
  /\ UNCHANGED <<mode, line, raw, hdr, conn>>

Next ==
  SetMode \/ RawFrame("first") \/ RawFrame("stream") \/ RawPanic \/ RawError
  \/ ReadHdr \/ ReadImage

Spec == Init /\ [][Next]_vars

-----------------------------------------------------------------------------

Positions(width, height) == (0..(width - 1)) \X (0..(height - 1))

Blank == -1

\* Mutant of Encoded: an image with a stride of its own is encoded without it.
EncodedDense(from, stride, width, height) ==
  [p \in Positions(width, height) |->
     IF p[1] < stride THEN from + p[2] * width + p[1] ELSE Blank]

\* Encode of a Gray16 image, of which Pix[from] is the first word: row y is a
\* stride from y strides on, cut off at the width.
Encoded(from, stride, width, height) ==
  [p \in Positions(width, height) |->
     IF p[1] < stride THEN from + p[2] * stride + p[1] ELSE Blank]

\* The picture of the proxy's browser, ...
Proxied == Encoded(im.from, conn.stride, conn.width, conn.height)

\* ... and of one of the device in this mode; the encoder's slices may be out of
\* range as well.
Direct(m) == Encoded(0, line, Dx(Visual(m)), Dy(Visual(m)))
DirectPanics(m) == Dx(Visual(m)) > 0 /\ Dy(Visual(m)) * line > Mem

\* What the display shows.
Visible(m) ==
  [p \in Positions(m.xres, m.yres) |-> (m.yo + p[2]) * m.xv + m.xo + p[1]]

\* Every variable has its type; a picture consists of words of the mapping.
TypeOK ==
  /\ mode \in Modes /\ line \in Nat
  /\ raw \in {"first", "stream", "done", "panic"}
  /\ proxy \in {"header", "stream", "done"}
  /\ hdr \in [stride : 0..(Limit - 1), width : Nat, height : Nat] \cup {None}
  /\ frame \in [from : 0..Mem, to : 0..Mem, mode : Modes] \cup {None}
  /\ conn \in {hdr, None}
  /\ im \in [from : 0..Mem, mode : Modes] \cup {None}
  /\ im # None => \A p \in DOMAIN Proxied : Proxied[p] \in Blank..(Mem - 1)

\* However the mode changes under the header that the proxy goes by (srvfb.go:443),
\* its rows are pieces of consecutive lines of the memory: it may show the wrong
\* part, but never a sheared picture.
RowsAligned ==
  im # None =>
    \E y0 \in 0..Mem : \A p \in DOMAIN Proxied :
      p[1] < line => Proxied[p] = (y0 + p[2]) * line + p[1]

\* The slices of serveRaw and Encode are in range while the lines are as long as
\* they were in Open (fb.go:44): Image need not compare Max.Y with the mapping.
PanicOnlyRotated ==
  Image(mode) /\ mode.xv = line => Slice(mode).to <= Mem /\ ~DirectPanics(mode)

\* While nobody pans the screen nor changes its mode, both kinds of srvfb show it.
ShowsVisibleUnpanned ==
  /\ Image(mode) /\ mode.xv = line /\ mode.xo = 0 /\ mode.yo = 0 =>
       Direct(mode) = Visible(mode)
  /\ im # None =>
       LET m == im.mode
       IN  m.xv = line /\ m.xo = 0 /\ m.yo = 0
           /\ m.xres = conn.width /\ m.yres = conn.height => Proxied = Visible(m)

\* "visual resolution" (fb.go:81) and "serve the contents of a linux framebuffer
\* device as video" (README.md:3): a frame that fits the header is what the display
\* shows, also when the driver has panned to another part of the memory.
ShowsVisible ==
  im # None =>
    LET m == im.mode
    IN  m.xv = line /\ Dx(Visual(m)) = conn.width /\ Dy(Visual(m)) = conn.height =>
          Proxied = Visible(m)
=============================================================================
