----------------------------- MODULE PngPixels ------------------------------
(***************************************************************************)
(* Pixels and bytes in internal/png: writeImage converts the pixels of a   *)
(* row to bytes, and decode the rows to pixels, those of its own files and *)
(* those of other programs, which may be interlaced or have a transparent  *)
(* color.  Between the two PngRows has the filters, which lose nothing.    *)
(***************************************************************************)
EXTENDS PngFormat, Adam7

CONSTANTS
  Plain,      \* sizes, as pairs of width and height, of the images that are encoded
  Interlaced, \* and of the interlaced ones that another program has made
  Samples,    \* the values of samples that are tried, where the depth has them
  Images(_, _, _),  \* the images of a cb, a width and a height that are encoded
  Seeds,            \* of another program's file: in its pass and line ...
  Byte(_, _, _, _)  \* ... byte number k

ASSUME SizeAssumption == Plain \cup Interlaced \subseteq (Nat \ {0}) \X (Nat \ {0})
ASSUME SampleAssumption == Samples \subseteq Nat /\ \A s \in Samples : s < 65536

VARIABLES
  cb, width, height, interlaced,
  pixels,        \* what is encoded, by number; no pixels: another program's file
  file,          \* the rows: of which pass (0 if not interlaced) and line, and bytes
  trns,          \* samples of its tRNS chunk, or none
  pc,            \* "pack", "header", "row", "unpack", "done"
  y,             \* the writer's or the reader's row
  x, i, a, c,    \* the writer's loop: pixels and bytes done, bits in hand
  row, prev,     \* cr[0] and pr
  dcb, transparent,  \* the reader: its cb, d.transparent,
  pass, at,          \* the pass it is in, the rows it has read,
  cdat, b, out,      \* the row it is in, the byte in hand, the row's pixels,
  passImage, image   \* the pixels of the pass and of the image

picture == <<cb, width, height, interlaced, pixels, trns>>
packing == <<x, i, a, c, row, prev>>
header == <<dcb, transparent>>
unpacking == <<pass, at, cdat, b, out, passImage, image>>
vars == <<picture, file, pc, y, packing, header, unpacking>>

\* A byte of cr[0] that an earlier row or image has left
Stale == 256

\* A pixel that has not been decoded
Missing == <<>>

Values(depth) == {s \in Samples : s < 2^depth}

\* The pixels that Encode chooses a cb for: without transparency for cbTC.
Encodable(f) ==
  LET d == Written[f][1]
      v == Values(d)
  IN  IF Written[f][2] \in {ctGrayscale, ctPaletted} THEN [1..1 -> v]
      ELSE IF Written[f][2] = ctTrueColor THEN {p \in [1..4 -> v] : p[4] = 2^d - 1}
      ELSE [1..4 -> v]

\* What a tRNS chunk may hold that parsetRNS accepts for this cb: any 16 bits
Transparencies(f) ==
  IF Parsed[f][2] = ctGrayscale THEN [1..1 -> Samples]
  ELSE IF Parsed[f][2] = ctTrueColor THEN [1..3 -> Samples]
  ELSE {}

Start ==
  /\ y = 0 /\ x = 0 /\ i = 0 /\ a = 0 /\ c = 0
  /\ dcb = "none" /\ transparent = <<>>
  /\ pass = 0 /\ at = 0 /\ cdat = <<>> /\ b = 0 /\ out = <<>>
  /\ passImage = <<>> /\ image = [n \in 0..(width * height - 1) |-> Missing]

\* An encoder, whose buffers may have been used for another image
InitEncode ==
  /\ cb \in DOMAIN Written
  /\ \E size \in Plain : width = size[1] /\ height = size[2]
  /\ interlaced = FALSE /\ trns = <<>>
  /\ pixels \in Images(cb, width, height)
  /\ DOMAIN pixels = 0..(width * height - 1)
  /\ \A n \in DOMAIN pixels : pixels[n] \in Encodable(cb)
  /\ file = <<>>
  /\ LET size == RowBytes(WriterBits[cb], width)
     IN  /\ row = [k \in 0..(size - 1) |-> Stale]
         /\ prev = [k \in 0..(size - 1) |-> 0]
  /\ pc = "pack"

\* The pass of a pixel by the standard, 0 in an image that is not interlaced, and
\* the columns of a line, up to one, that a pass has
PassAt(column, line) == IF interlaced THEN PassOf(column, line) ELSE 0
ColumnsOf(ps, line, end) == {k \in 0..(end - 1) : PassAt(k, line) = ps}

\* The rows of a file: the passes one after another, each from top to bottom
Scanlines ==
  {<<PassAt(column, line), line>> : column \in 0..(width - 1), line \in 0..(height - 1)}
Before(s, t) == s[1] < t[1] \/ (s[1] = t[1] /\ s[2] < t[2])
Place(lines) == [s \in lines |-> Cardinality({t \in lines : Before(t, s)}) + 1]

\* Another program's file
Foreign(seed) ==
  LET lines == Scanlines
      place == Place(lines)
      bits(s) == Cardinality(ColumnsOf(s[1], s[2], width)) * Channels(cb) * Depth(cb)
      bytes(s) == [k \in 0..(((bits(s) + 7) \div 8) - 1) |-> Byte(seed, s[1], s[2], k)]
  IN  [n \in 1..Cardinality(lines) |->
        LET s == CHOOSE s \in lines : place[s] = n
        IN  [pass |-> s[1], line |-> s[2], bytes |-> bytes(s)]]

InitForeign ==
  /\ cb \in DOMAIN Parsed /\ interlaced \in BOOLEAN
  /\ \E size \in (IF interlaced THEN Interlaced ELSE Plain) :
       width = size[1] /\ height = size[2]
  /\ pixels = <<>> /\ row = <<>> /\ prev = <<>>
  /\ file \in {Foreign(seed) : seed \in Seeds}
  /\ \A n \in DOMAIN file : \A k \in DOMAIN file[n].bytes : file[n].bytes[k] \in 0..255
  /\ trns \in {<<>>} \cup Transparencies(cb)
  /\ pc = "header"

Init == (InitEncode \/ InitForeign) /\ Start

-----------------------------------------------------------------------------
(* writeImage *)

\* Put bytes into cr[0] at i.
Put(bytes) ==
  /\ row' = [k \in DOMAIN row |->
               IF k \in i..(i + Len(bytes) - 1) THEN bytes[k - i + 1] ELSE row[k]]
  /\ i' = i + Len(bytes)

\* cbP4, cbP2, cbP1: a turn of the loop
PackIndex ==
  /\ pc = "pack" /\ x < width
  /\ WriterBits[cb] < 8
  /\ x' = x + 1
  /\ LET bits == WriterBits[cb]
         full == (a * 2^bits + pixels[y * width + x][1]) % 256
     IN  \/ /\ c + 1 = 8 \div bits
            /\ Put(<<full>>)
            /\ a' = 0 /\ c' = 0
         \/ /\ c + 1 # 8 \div bits
            /\ a' = full /\ c' = c + 1
            /\ UNCHANGED <<row, i>>
  /\ UNCHANGED <<picture, file, pc, y, prev, header, unpacking>>

\* Mutant of BytesOf: the low byte first.
BytesOfSwapped(samples, depth) ==
  IF depth = 16
  THEN [k \in 1..(2 * Len(samples)) |->
          LET s == samples[(k + 1) \div 2]
          IN  IF k % 2 = 1 THEN s % 256 ELSE s \div 256]
  ELSE samples

BytesOf(samples, depth) ==
  IF depth = 16
  THEN [k \in 1..(2 * Len(samples)) |->
          LET s == samples[(k + 1) \div 2]
          IN  IF k % 2 = 1 THEN s \div 256 ELSE s % 256]
  ELSE samples

\* The other cbs: the samples of a pixel, without its alpha if it is opaque
PackSamples ==
  /\ pc = "pack" /\ x < width
  /\ WriterBits[cb] >= 8
  /\ LET p == pixels[y * width + x]
         wide == cb \in {"cbG16", "cbTC16", "cbTCA16"}
     IN  Put(BytesOf(IF cb \in {"cbTC8", "cbTC16"} THEN SubSeq(p, 1, 3) ELSE p,
                     IF wide THEN 16 ELSE 8))
  /\ x' = x + 1
  /\ UNCHANGED <<picture, file, pc, y, a, c, prev, header, unpacking>>

\* The row goes to zlib, and the rows are swapped.
RowWritten(bytes) ==
  /\ file' = Append(file, [pass |-> 0, line |-> y, bytes |-> bytes])
  /\ row' = prev /\ prev' = bytes
  /\ y' = y + 1
  /\ pc' = IF y + 1 < height THEN "pack" ELSE "header"
  /\ x' = 0 /\ i' = 0 /\ a' = 0 /\ c' = 0
  /\ UNCHANGED <<picture, header, unpacking>>

\* Mutant of PackEnd: the bits in hand are not moved up.
PackEndUnshifted ==
  /\ pc = "pack" /\ x = width
  /\ RowWritten(IF c # 0 THEN [row EXCEPT ![i] = a] ELSE row)

\* What is left of a byte is filled up after the last pixel.
PackEnd ==
  /\ pc = "pack" /\ x = width
  /\ LET missing == (8 \div WriterBits[cb]) - c
     IN  RowWritten(IF c # 0
                    THEN [row EXCEPT ![i] = (a * 2^(missing * WriterBits[cb])) % 256]
                    ELSE row)

-----------------------------------------------------------------------------
(* decode *)

\* The header that is in the file
Header == IF pixels # <<>> THEN Written[cb] ELSE Parsed[cb]

\* Mutant of Scaled: one factor for all depths.
ScaledAlike(f, bytes) ==
  IF f \in {"cbG1", "cbG2", "cbG4"} THEN [bytes EXCEPT ![2] = (@ * 255) % 256]
  ELSE bytes

\* parsetRNS brings the gray sample to the scale of the image, as uint8.
Scaled(f, bytes) ==
  CASE f = "cbG1" -> [bytes EXCEPT ![2] = (@ * 255) % 256]
    [] f = "cbG2" -> [bytes EXCEPT ![2] = (@ * 85) % 256]
    [] f = "cbG4" -> [bytes EXCEPT ![2] = (@ * 17) % 256]
    [] OTHER -> bytes

\* parseIHDR, parsetRNS and the start of decode
ReadHeader ==
  /\ pc = "header"
  /\ dcb' = CHOOSE f \in DOMAIN Parsed : Parsed[f] = Header
  /\ transparent' = IF trns = <<>> THEN <<>> ELSE Scaled(dcb', BytesOf(trns, 16))
  /\ pass' = IF interlaced THEN 1 ELSE 0
  /\ y' = 0
  /\ pc' = "row"
  /\ UNCHANGED <<picture, file, packing, at, cdat, b, out, passImage, image>>

PassWidth == IF interlaced THEN passWidth(width, pass) ELSE width
PassHeight == IF interlaced THEN passHeight(height, pass) ELSE height
RowSize == RowBytes(ReaderBits(dcb, Header[1]), PassWidth)

\* Rows of a pass without pixels are not in the file.
MoreRows == PassWidth # 0 /\ y < PassHeight

ReadRow ==
  /\ pc = "row" /\ MoreRows
  /\ at < Len(file)
  /\ cdat' = file[at + 1].bytes
  /\ at' = at + 1
  /\ pc' = "unpack"
  /\ UNCHANGED <<picture, file, y, packing, header, pass, b, out, passImage, image>>

\* An opaque pixel, unless it is the transparent one; transparent[1], [3] and [5]
\* are the low bytes.
Keyed(color, full) ==
  LET key == IF full = 65535
             THEN [k \in 1..(Len(transparent) \div 2) |->
                     transparent[2 * k - 1] * 256 + transparent[2 * k]]
             ELSE [k \in 1..(Len(transparent) \div 2) |-> transparent[2 * k]]
      opaque == Append(color, full)
      hidden == Append(color, 0)
  IN  CASE transparent = <<>> -> opaque
        [] Len(key) = 1 -> IF color[1] = key[1] THEN hidden ELSE opaque
        [] Len(key) = 3 -> IF color = key THEN hidden ELSE opaque

Level(s) == <<s, s, s>>

\* cbG1, cbG2, cbG4, cbP1, cbP2, cbP4: b is shifted out of a byte.
UnpackBits ==
  /\ pc = "unpack" /\ Len(out) < PassWidth
  /\ dcb \in {"cbG1", "cbG2", "cbG4", "cbP1", "cbP2", "cbP4"}
  /\ LET d    == Header[1]
         per  == 8 \div d
         byte == IF Len(out) % per = 0 THEN cdat[Len(out) \div per] ELSE b
         bits == byte \div 2^(8 - d)
         unit == CASE dcb = "cbG1" -> 255
                   [] dcb = "cbG2" -> 85
                   [] dcb = "cbG4" -> 17
                   [] OTHER        -> 1
     IN  /\ b' = (byte * 2^d) % 256
         /\ out' = Append(out, IF dcb \in {"cbP1", "cbP2", "cbP4"} THEN <<bits>>
                               ELSE Keyed(Level((bits * unit) % 256), 255))
  /\ UNCHANGED <<picture, file, pc, y, packing, header, pass, at, cdat, passImage, image>>

\* The other cbs: pixel n of the row
PixelAt(n) ==
  LET wide(k) == cdat[k] * 256 + cdat[k + 1]
  IN  CASE dcb = "cbP8"   -> <<cdat[n]>>
        [] dcb = "cbG8"   -> Keyed(Level(cdat[n]), 255)
        [] dcb = "cbG16"  -> Keyed(Level(wide(2 * n)), 65535)
        [] dcb = "cbGA8"  -> Append(Level(cdat[2 * n]), cdat[2 * n + 1])
        [] dcb = "cbGA16" -> Append(Level(wide(4 * n)), wide(4 * n + 2))
        [] dcb = "cbTC8"  -> Keyed([k \in 1..3 |-> cdat[3 * n + k - 1]], 255)
        [] dcb = "cbTC16" -> Keyed([k \in 1..3 |-> wide(6 * n + 2 * k - 2)], 65535)
        [] dcb = "cbTCA8" -> [k \in 1..4 |-> cdat[4 * n + k - 1]]
        [] dcb = "cbTCA16" -> [k \in 1..4 |-> wide(8 * n + 2 * k - 2)]

UnpackBytes ==
  /\ pc = "unpack" /\ Len(out) < PassWidth
  /\ dcb \notin {"cbG1", "cbG2", "cbG4", "cbP1", "cbP2", "cbP4"}
  /\ out' = Append(out, PixelAt(Len(out)))
  /\ UNCHANGED <<picture, file, pc, y, packing, header, pass, at, cdat, b, passImage,
                 image>>

UnpackEnd ==
  /\ pc = "unpack" /\ Len(out) = PassWidth
  /\ passImage' = passImage \o out
  /\ out' = <<>> /\ y' = y + 1
  /\ pc' = "row"
  /\ UNCHANGED <<picture, file, packing, header, pass, at, cdat, b, image>>

\* The image that readImagePass returns is the image, ...
ImageRead ==
  /\ pc = "row" /\ ~MoreRows /\ ~interlaced
  /\ image' = [n \in DOMAIN image |-> passImage[n + 1]]
  /\ pc' = "done"
  /\ UNCHANGED <<picture, file, y, packing, header, pass, at, cdat, b, out, passImage>>

\* ... or a pass for mergePassInto.
mergePassInto ==
  /\ pc = "row" /\ ~MoreRows /\ interlaced
  /\ LET from(n) == {k \in DOMAIN passImage :
                       Target(width, pass, (k - 1) % PassWidth, (k - 1) \div PassWidth) = n}
     IN  image' = [n \in DOMAIN image |->
                     IF from(n) = {} THEN image[n]
                     ELSE passImage[CHOOSE k \in from(n) : TRUE]]
  /\ \/ pass < 7 /\ pass' = pass + 1 /\ UNCHANGED pc
     \/ pass = 7 /\ pc' = "done" /\ UNCHANGED pass
  /\ y' = 0 /\ passImage' = <<>>
  /\ UNCHANGED <<picture, file, packing, header, at, cdat, b, out>>

Next ==
  \/ PackIndex \/ PackSamples \/ PackEnd
  \/ ReadHeader \/ ReadRow \/ UnpackBits \/ UnpackBytes \/ UnpackEnd
  \/ ImageRead \/ mergePassInto

Spec == Init /\ [][Next]_vars

-----------------------------------------------------------------------------

\* Every variable has its type, and the writer stays inside its row.
TypeOK ==
  /\ cb \in DOMAIN Parsed
  /\ <<width, height>> \in (IF interlaced THEN Interlaced ELSE Plain)
  /\ pc \in {"pack", "header", "row", "unpack", "done"}
  /\ y \in 0..height /\ x \in 0..width /\ a \in 0..255 /\ c \in 0..7 /\ b \in 0..255
  /\ pc = "pack" => i + (IF c # 0 THEN 1 ELSE 0) <= Cardinality(DOMAIN row)
  /\ dcb \in DOMAIN Parsed \cup {"none"} /\ Len(transparent) \in {0, 2, 6}
  /\ pass \in 0..7 /\ at \in 0..Len(file) /\ Len(out) <= width

\* An encoded row holds its pixels and nothing else, whatever the rows and images
\* before it have left in the buffers: all bytes are written, also the last one of
\* a width that does not fill it (writer.go:441).
RowIsPixels ==
  pixels # <<>> =>
    \A r \in DOMAIN file :
      LET bytes == file[r].bytes
      IN  /\ \A k \in DOMAIN bytes : bytes[k] # Stale
          /\ \A n \in 0..(width - 1) :
               SamplesAt(bytes, cb, n)
                 = SubSeq(pixels[(r - 1) * width + n], 1, Channels(cb))

\* Reader, writer and the standard have their own tables and sizes of passes: the
\* rows that the reader expects are those of the file, or it loses its place in
\* the stream (writer.go:319, reader.go:440, 431).
SizesAgree ==
  /\ pc = "row" =>
       /\ MoreRows => at < Len(file) /\ DOMAIN file[at + 1].bytes = 0..(RowSize - 1)
       /\ MoreRows => file[at + 1].pass = pass
  /\ pc = "done" => at = Len(file)

\* The pixel of the image at a column and a line, by the standard
Shown(column, line) ==
  LET ps  == PassAt(column, line)
      r   == CHOOSE k \in DOMAIN file : file[k].pass = ps /\ file[k].line = line
      n   == Cardinality(ColumnsOf(ps, line, column))
      key == IF Depth(cb) = 16 THEN trns ELSE [k \in DOMAIN trns |-> trns[k] % 256]
  IN  Color(SamplesAt(file[r].bytes, cb, n), cb, key)

\* The decoded image is what the standard says of the file: every loop over bits,
\* every table, every pass, and the transparent color, which parsetRNS scales modulo
\* 256 (reader.go:281) and readImagePass compares with scaled samples.
ShowsFile ==
  pc = "done" =>
    \A column \in 0..(width - 1), line \in 0..(height - 1) :
      image[line * width + column] = Shown(column, line)

\* The passes do not overlap: a pixel of the image is written once.
WrittenOnce == [][\A n \in DOMAIN image : image[n] # Missing => image'[n] = image[n]]_vars

\* An image comes back from Encode and Decode as it was, levels of gray as colors:
\* what its format cannot hold was not there.
RoundTrip ==
  pc = "done" /\ pixels # <<>> =>
    \A n \in DOMAIN image :
      image[n] = IF cb \in {"cbG8", "cbG16"} THEN Append(Level(pixels[n][1]), Full(cb))
                 ELSE pixels[n]
=============================================================================
