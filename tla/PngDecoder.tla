----------------------------- MODULE PngDecoder -----------------------------
(***************************************************************************)
(* Decode and DecodeConfig of internal/png/reader.go: the chunks of a file *)
(* in any order and with any fault, and the decoder as the io.Reader that  *)
(* zlib reads the pixels from.                                             *)
(*                                                                         *)
(* What is in the file shows only when it is read: the parameters of the   *)
(* actions.  Compressed data is a sequence of units, each of which makes   *)
(* zlib return a row, say, or fail.                                        *)
(***************************************************************************)
EXTENDS Integers, Sequences, SequencesExt, ColorTypes

CONSTANTS
  Headers,      \* contents of IHDR chunks
  PLTELengths,
  tRNSLengths,
  IDATLengths,  \* in units
  Indices,      \* palette indices in a row: the largest one
  MaxChunks,    \* bound on the chunks of a file
  BufferSize    \* of the bufio.Reader in zlib, in units

\* What parseIHDR looks at; known: of compression and filter, the one method each
\* that there is.
HeaderFields ==
  [known : BOOLEAN, interlace : Nat, rows : Int, depth : Nat, ct : Nat]

itNone == 0
itAdam7 == 1

ASSUME DecoderAssumption ==
  /\ Headers \subseteq HeaderFields
  /\ PLTELengths \subseteq Nat /\ tRNSLengths \subseteq Nat /\ IDATLengths \subseteq Nat
  /\ Indices \subseteq 0..255
  /\ MaxChunks \in Nat /\ BufferSize \in Nat

\* The combinations of depth and color type that have a cb.
Supported ==
  ({1, 2, 4, 8} \X {ctGrayscale, ctPaletted}) \cup
  ({8, 16} \X {ctGrayscale, ctTrueColor, ctGrayscaleAlpha, ctTrueColorAlpha})

cbInvalid == <<0, 0>>
Depth(cb) == cb[1]
cbPaletted(cb) == cb # cbInvalid /\ cb[2] = ctPaletted

\* The stages dsStart, dsSeenIHDR, ... are the ranks of the chunks seen.
Types == <<"IHDR", "PLTE", "tRNS", "IDAT", "IEND">>
dsStart == 0
dsSeenIHDR == 1
dsSeenPLTE == 2
dsSeentRNS == 3
dsSeenIDAT == 4
dsSeenIEND == 5
Rank(t) == CHOOSE s \in 1..5 : Types[s] = t
Type == ToSet(Types) \cup {"other"}

Unit == {"head", "row", "bad filter", "corrupt", "end", "bad end"}

Errors == {"order", "FormatError", "UnsupportedError", "zlib error",
           "ErrUnexpectedEOF", "read error"}

VARIABLES
  pc,                  \* what is read or done next
  stage, type, length, \* of the decoder and of the chunk it is in
  cb, interlaced, rows,
  palette, alphas,     \* entries of d.palette, and how many of them are NRGBA
  useTransparent,
  idatLength,
  buf,                 \* units that zlib has read ahead
  row,                 \* rows decoded; -1 before zlib's header
  model,               \* of the decoded image
  shown,               \* length of its palette
  result,              \* "none", "nil", "panic" or one of Errors
  seen,                \* history: the chunks read to their end,
  damaged, failed,     \* whether something was wrong with them, or with reading
  largest,             \* the largest palette index in the image
  config               \* and what DecodeConfig has returned

header == <<cb, interlaced, rows>>
colors == <<palette, alphas, useTransparent>>
pixels == <<idatLength, buf, row, model, shown, largest>>
chunks == <<stage, type, length, seen, config>>
faults == <<damaged, failed>>
vars == <<pc, result, header, colors, pixels, chunks, faults>>

\* The color models, by the names of the image types.
Models == {"Gray", "Gray16", "RGBA", "RGBA64", "NRGBA", "NRGBA64", "Palette"}
NoConfig == [model |-> "none", palette |-> 0, rows |-> 0]

Init ==
  /\ pc = "signature" /\ result = "none"
  /\ stage = dsStart /\ type = "other" /\ length = 0
  /\ cb = cbInvalid /\ interlaced = FALSE /\ rows = 0
  /\ palette = 0 /\ alphas = 0 /\ useTransparent = FALSE
  /\ idatLength = 0 /\ buf = <<>> /\ row = -1
  /\ model = "none" /\ shown = 0 /\ largest = -1
  /\ seen = <<>> /\ damaged = FALSE /\ failed = FALSE /\ config = NoConfig

Goto(p) == pc' = p /\ UNCHANGED result
Return(e) == pc' = "done" /\ result' = e

\* A step that finds something wrong with the file.
Reject(e) ==
  /\ Return(e)
  /\ damaged' = TRUE
  /\ UNCHANGED <<header, colors, pixels, chunks, failed>>

\* checkHeader
CheckHeader(good) ==
  /\ pc = "signature"
  /\ \/ ~good /\ Reject("FormatError")
     \/ good /\ Goto("chunk") /\ UNCHANGED <<header, colors, pixels, chunks, faults>>

\* Mutant of OrderOK: tRNS after PLTE as often as one likes.
OrderOKAgain(t) ==
  CASE t = "IHDR"  -> stage = dsStart
    [] t = "PLTE"  -> stage = dsSeenIHDR
    [] t = "tRNS"  -> IF cbPaletted(cb) THEN stage \in dsSeenPLTE..dsSeentRNS
                      ELSE stage = dsSeenIHDR
    [] t = "IDAT"  -> /\ stage \in dsSeenIHDR..dsSeenIDAT
                      /\ ~(stage = dsSeenIHDR /\ cbPaletted(cb))
    [] t = "IEND"  -> stage = dsSeenIDAT
    [] t = "other" -> TRUE

\* Whether parseChunk accepts a chunk now.
OrderOK(t) ==
  CASE t = "IHDR"  -> stage = dsStart
    [] t = "PLTE"  -> stage = dsSeenIHDR
    [] t = "tRNS"  -> stage = (IF cbPaletted(cb) THEN dsSeenPLTE ELSE dsSeenIHDR)
    [] t = "IDAT"  -> /\ stage \in dsSeenIHDR..dsSeenIDAT
                      /\ ~(stage = dsSeenIHDR /\ cbPaletted(cb))
    [] t = "IEND"  -> stage = dsSeenIDAT
    [] t = "other" -> TRUE

\* The other chunks, and IDAT chunks after the image, are skipped.
Skipped(t) == t = "other" \/ (t = "IDAT" /\ stage = dsSeenIDAT)

\* The first 8 bytes of parseChunk
ReadChunkHeader(t, len) ==
  /\ pc = "chunk"
  /\ type' = t /\ length' = len
  /\ \/ /\ ~OrderOK(t)
        /\ Return("order")
        /\ UNCHANGED <<stage, idatLength>>
     \/ /\ OrderOK(t) /\ Skipped(t)
        /\ Goto("checksum")
        /\ UNCHANGED <<stage, idatLength>>
     \/ /\ OrderOK(t) /\ ~Skipped(t)
        /\ stage' = Rank(t)
        /\ Goto(IF t = "IDAT" THEN "zlib" ELSE t)
        /\ idatLength' = IF t = "IDAT" THEN len ELSE idatLength
  /\ UNCHANGED <<header, colors, buf, row, model, shown, largest, seen, config, faults>>

parseIHDR(h) ==
  /\ pc = "IHDR"
  /\ \/ length # 13 /\ Reject("FormatError")
     \/ /\ length = 13
        /\ LET bad == h.interlace \notin {itNone, itAdam7} \/ h.rows <= 0
           IN  \/ ~h.known /\ Reject("UnsupportedError")
               \/ h.known /\ bad /\ Reject("FormatError")
               \/ /\ h.known /\ ~bad
                  /\ <<h.depth, h.ct>> \notin Supported
                  /\ Reject("UnsupportedError")
               \/ /\ h.known /\ ~bad
                  /\ <<h.depth, h.ct>> \in Supported
                  /\ cb' = <<h.depth, h.ct>>
                  /\ interlaced' = (h.interlace = itAdam7) /\ rows' = h.rows
                  /\ Goto("checksum")
                  /\ UNCHANGED <<colors, pixels, chunks, faults>>

parsePLTE ==
  /\ pc = "PLTE"
  /\ LET np == length \div 3
         bad == length % 3 # 0 \/ np <= 0 \/ np > 256 \/ np > 2^Depth(cb)
     IN  \/ bad /\ Reject("FormatError")
         \/ /\ ~bad /\ cb[2] \in {ctGrayscale, ctGrayscaleAlpha}
            /\ Reject("FormatError")
         \/ /\ ~bad /\ cb[2] \notin {ctGrayscale, ctGrayscaleAlpha}
            /\ palette' = IF cbPaletted(cb) THEN np ELSE palette
            /\ Goto("checksum")
            /\ UNCHANGED <<header, alphas, useTransparent, pixels, chunks, faults>>

\* The assertion palette[i].(color.RGBA) panics on an entry that has an alpha
\* already, and palette[:n] on one that parsePLTE has not made.
parsetRNS ==
  /\ pc = "tRNS"
  /\ LET bad == CASE cb[2] = ctGrayscale -> length # 2
                  [] cb[2] = ctTrueColor -> length # 6
                  [] cb[2] = ctPaletted  -> length > 256
                  [] OTHER               -> TRUE
     IN  \/ bad /\ Reject("FormatError")
         \/ /\ ~bad /\ ~cbPaletted(cb)
            /\ useTransparent' = TRUE
            /\ Goto("checksum")
            /\ UNCHANGED <<header, palette, alphas, pixels, chunks, faults>>
         \/ /\ ~bad /\ cbPaletted(cb)
            /\ IF length > 0 /\ (palette = 0 \/ alphas > 0)
               THEN Return("panic") /\ UNCHANGED <<palette, alphas>>
               ELSE /\ palette' = IF palette < length THEN length ELSE palette
                    /\ alphas' = length
                    /\ Goto("checksum")
            /\ UNCHANGED <<header, useTransparent, pixels, chunks, faults>>

parseIEND ==
  /\ pc = "IEND"
  /\ \/ length # 0 /\ Reject("FormatError")
     \/ /\ length = 0
        /\ Goto("checksum")
        /\ UNCHANGED <<header, colors, pixels, chunks, faults>>

\* The color model that DecodeConfig returns, ...
ConfigModel ==
  CASE cb \in {1, 2, 4, 8} \X {ctGrayscale} -> "Gray"
    [] cb = <<8, ctGrayscaleAlpha>>         -> "NRGBA"
    [] cb = <<8, ctTrueColor>>              -> "RGBA"
    [] cbPaletted(cb)                       -> "Palette"
    [] cb = <<8, ctTrueColorAlpha>>         -> "NRGBA"
    [] cb = <<16, ctGrayscale>>             -> "Gray16"
    [] cb = <<16, ctGrayscaleAlpha>>        -> "NRGBA64"
    [] cb = <<16, ctTrueColor>>             -> "RGBA64"
    [] cb = <<16, ctTrueColorAlpha>>        -> "NRGBA64"

\* Mutant of ImageModel: images with a transparent color have 8 bits.
ImageModelNarrow == IF useTransparent THEN "NRGBA" ELSE ConfigModel

\* ... and that of the image that readImagePass makes, by a table of its own.
ImageModel ==
  CASE cb \in {1, 2, 4, 8} \X {ctGrayscale} -> IF useTransparent THEN "NRGBA" ELSE "Gray"
    [] cb = <<8, ctTrueColor>>   -> IF useTransparent THEN "NRGBA" ELSE "RGBA"
    [] cb = <<16, ctGrayscale>>  -> IF useTransparent THEN "NRGBA64" ELSE "Gray16"
    [] cb = <<16, ctTrueColor>>  -> IF useTransparent THEN "NRGBA64" ELSE "RGBA64"
    [] cb \in {8} \X {ctGrayscaleAlpha, ctTrueColorAlpha}  -> "NRGBA"
    [] cb \in {16} \X {ctGrayscaleAlpha, ctTrueColorAlpha} -> "NRGBA64"
    [] cbPaletted(cb)            -> "Palette"

\* DecodeConfig's loop ends when the header is complete.
ConfigDone ==
  \/ stage = dsSeenIHDR /\ ~cbPaletted(cb)
  \/ stage = dsSeenPLTE /\ cbPaletted(cb)

\* verifyChecksum at the end of a chunk, and the loop of Decode
verifyChecksum(good) ==
  /\ pc = "checksum"
  /\ \/ ~good /\ Reject("FormatError")
     \/ /\ good
        /\ seen' = Append(seen, type)
        /\ config' = IF config = NoConfig /\ ConfigDone
                     THEN [model |-> ConfigModel, palette |-> palette, rows |-> rows]
                     ELSE config
        /\ \/ stage = dsSeenIEND /\ Return("nil")
           \/ stage # dsSeenIEND /\ Goto("chunk")
        /\ UNCHANGED <<stage, type, length, header, colors, pixels, faults>>

-----------------------------------------------------------------------------
(* decode, below which zlib calls Read when it needs more. *)

\* One call of d.r.Read: up to BufferSize units.
Read(units) ==
  /\ pc = "zlib" /\ buf = <<>> /\ idatLength > 0
  /\ Len(units) \in 1..idatLength
  /\ buf' = units
  /\ idatLength' = idatLength - Len(units)
  /\ UNCHANGED <<pc, result, row, model, shown, largest, header, colors, chunks, faults>>

\* Mutant of ReadChecksum: it is read and not compared.
ReadChecksumUnchecked(good) ==
  /\ pc = "zlib" /\ buf = <<>> /\ idatLength = 0
  /\ damaged' = (damaged \/ ~good)
  /\ seen' = Append(seen, type)
  /\ Goto("next")
  /\ UNCHANGED <<stage, type, length, config, header, colors, pixels, failed>>

\* An IDAT chunk is exhausted: its checksum, ...
ReadChecksum(good) ==
  /\ pc = "zlib" /\ buf = <<>> /\ idatLength = 0
  /\ \/ ~good /\ Reject("FormatError")
     \/ /\ good
        /\ seen' = Append(seen, type)
        /\ Goto("next")
        /\ UNCHANGED <<stage, type, length, config, header, colors, pixels, faults>>

\* ... and the header of the next one.
ReadNext(t, len) ==
  /\ pc = "next"
  /\ \/ t # "IDAT" /\ Reject("FormatError")
     \/ /\ t = "IDAT"
        /\ idatLength' = len
        /\ Goto("zlib")
        /\ UNCHANGED <<buf, row, model, shown, largest, header, colors, chunks, faults>>

\* Mutant of Extended: off by one.
ExtendedShort(idx) ==
  IF interlaced \/ (Depth(cb) = 8 /\ shown = 255) THEN shown
  ELSE IF shown < idx THEN idx + 1 ELSE shown

\* The pixels of a row of a paletted image extend the image's palette, if the
\* image is not a pass of an interlaced one.
Extended(idx) ==
  IF interlaced \/ (Depth(cb) = 8 /\ shown = 255) THEN shown
  ELSE IF shown <= idx THEN idx + 1 ELSE shown

\* What is wrong with zlib's next unit: in NewReader, in readImagePass or in the
\* check for EOF.
InflateError(u) ==
  CASE row = -1 /\ u # "head"                               -> "zlib error"
    [] row \in 0..(rows - 1) /\ u \in {"bad filter", "end"} -> "FormatError"
    [] row \in 0..(rows - 1) /\ u \notin {"bad filter", "end", "row"}
                                                            -> "zlib error"
    [] row = rows /\ (u # "end" \/ idatLength # 0)          -> "FormatError"
    [] OTHER                                                -> "none"

Inflate(idx) ==
  /\ pc = "zlib" /\ buf # <<>>
  /\ idx < 2^Depth(cb)
  /\ LET u == Head(buf)
         e == InflateError(u)
     IN  \/ e # "none" /\ Reject(e)
         \/ /\ e = "none"
            /\ Goto(IF u = "end" THEN "checksum" ELSE "zlib")
            /\ buf' = IF u = "end" THEN <<>> ELSE Tail(buf)
            /\ row' = IF u = "end" THEN row ELSE row + 1
            /\ model' = IF u = "head" THEN ImageModel ELSE model
            /\ shown' = CASE u = "head" -> palette
                          [] u = "row" /\ cbPaletted(cb) -> Extended(idx)
                          [] OTHER -> shown
            /\ largest' = IF u = "row" /\ cbPaletted(cb) /\ largest < idx THEN idx
                          ELSE largest
            /\ UNCHANGED <<idatLength, header, colors, chunks, faults>>

-----------------------------------------------------------------------------

\* Mutant of Truncated: Decode does not turn io.EOF into io.ErrUnexpectedEOF.
TruncatedEOF(e) ==
  LET eof == e \in {"EOF", "ErrUnexpectedEOF"}
      zlib == pc \in {"zlib", "next"}
  IN  /\ pc # "done"
      /\ pc = "zlib" => buf = <<>>
      /\ Return(IF zlib /\ (row = rows \/ (row >= 0 /\ eof)) THEN "FormatError"
                ELSE e)
      /\ damaged' = (damaged \/ eof)
      /\ failed' = ~eof
      /\ UNCHANGED <<header, colors, pixels, chunks>>

\* A read ends early, because the file does or with an error of its own.
Truncated(e) ==
  LET eof == e \in {"EOF", "ErrUnexpectedEOF"}
      zlib == pc \in {"zlib", "next"}
  IN  /\ pc # "done"
      /\ pc = "zlib" => buf = <<>>
      /\ Return(IF zlib /\ (row = rows \/ (row >= 0 /\ eof)) THEN "FormatError"
                ELSE IF e = "EOF" THEN "ErrUnexpectedEOF" ELSE e)
      /\ damaged' = (damaged \/ eof)
      /\ failed' = ~eof
      /\ UNCHANGED <<header, colors, pixels, chunks>>

Lengths(t) ==
  CASE t = "IHDR"  -> {12, 13}
    [] t = "PLTE"  -> PLTELengths
    [] t = "tRNS"  -> tRNSLengths
    [] t = "IDAT"  -> IDATLengths
    [] t = "IEND"  -> {0, 1}
    [] t = "other" -> {0}

Next ==
  \/ \E good \in BOOLEAN :
       CheckHeader(good) \/ verifyChecksum(good) \/ ReadChecksum(good)
  \/ /\ Len(seen) < MaxChunks
     /\ \E t \in Type : \E len \in Lengths(t) :
          ReadChunkHeader(t, len) \/ ReadNext(t, len)
  \/ \E h \in Headers : parseIHDR(h)
  \/ parsePLTE \/ parsetRNS \/ parseIEND
  \/ \E n \in 1..BufferSize : \E units \in [1..n -> Unit] : Read(units)
  \/ \E idx \in Indices : Inflate(idx)
  \/ \E e \in {"EOF", "ErrUnexpectedEOF", "read error"} : Truncated(e)

Spec == Init /\ [][Next]_vars

-----------------------------------------------------------------------------

\* Every variable has its type; an io.EOF never leaves Decode.
TypeOK ==
  /\ pc \in {"signature", "chunk", "IHDR", "PLTE", "tRNS", "IEND", "zlib", "next",
             "checksum", "done"}
  /\ result \in {"none", "nil", "panic"} \cup Errors
  /\ (pc = "done") = (result # "none")
  /\ stage \in dsStart..dsSeenIEND /\ type \in Type /\ length \in Nat
  /\ cb \in Supported \cup {cbInvalid} /\ interlaced \in BOOLEAN /\ rows \in Nat
  /\ palette \in 0..256 /\ alphas \in 0..palette /\ useTransparent \in BOOLEAN
  /\ idatLength \in Nat /\ buf \in Seq(Unit) /\ row \in -1..rows
  /\ model \in Models \cup {"none"} /\ shown \in 0..256 /\ largest \in Int
  /\ seen \in Seq(Type) /\ damaged \in BOOLEAN /\ failed \in BOOLEAN
  /\ config \in [model : Models, palette : 0..256, rows : Nat] \cup {NoConfig}

\* "IHDR, PLTE (if present), tRNS (if present), IDAT and IEND chunks must appear
\* in that order. There may be multiple IDAT chunks" (reader.go:91).
InOrder(types) ==
  \A i, j \in DOMAIN types :
    i < j /\ "other" \notin {types[i], types[j]} =>
      Rank(types[i]) < Rank(types[j]) \/ (types[i] = "IDAT" /\ types[j] = "IDAT")

\* What Decode returns an image for is complete: every chunk in its place, all
\* rows, all checksums, a palette where the color type needs one; whatever chunks
\* parseChunk skips and however the IDAT chunks and zlib's buffer cut the data.
AcceptedIsComplete ==
  result = "nil" =>
    /\ ~damaged /\ ~failed
    /\ InOrder(seen) /\ {"IHDR", "IDAT", "IEND"} \subseteq ToSet(seen)
    /\ Last(seen) = "IEND"
    /\ cbPaletted(cb) => "PLTE" \in ToSet(seen)
    /\ "tRNS" \in ToSet(seen) => cb[2] \in {ctGrayscale, ctTrueColor, ctPaletted}
    /\ row = rows /\ idatLength = 0

\* The order of the chunks keeps parsetRNS from its type assertion on palette
\* entries that already have an alpha and from slicing a palette that is not
\* there (reader.go:315, 318).
NoPanic == result # "panic"

\* The model that holds the colors of a model and a transparent one.
Transparent ==
  [Gray |-> "NRGBA", RGBA |-> "NRGBA", Gray16 |-> "NRGBA64", RGBA64 |-> "NRGBA64",
   Palette |-> "Palette"]

\* DecodeConfig stops at the header or the palette and has a table of its own
\* (reader.go:997, 1005), and yet its answer is that of Decode (reader.go:440), but
\* for what comes later in the file: transparency, and palette entries for it or
\* for the pixels (reader.go:299, 712).
ConfigIsImages ==
  result = "nil" =>
    /\ config.rows = row
    /\ model = IF "tRNS" \in ToSet(seen) THEN Transparent[config.model] ELSE config.model
    /\ config.model = "Palette" =>
         /\ config.palette <= shown
         /\ shown \in {config.palette, alphas} \cup 0..(largest + 1)

\* "We fall back to opaque black" for indices that the palette has no entry for
\* (reader.go:254): the returned image's palette has an entry for every pixel.
PaletteCovers == result = "nil" /\ cbPaletted(cb) => largest < shown

\* The same for the images where the code keeps to it: not interlaced, which is
\* merged from passes with palettes of their own, and, at 8 bits, with a palette
\* that did not have, nor was extended to, exactly 255 entries.
PlainPaletteCovers ==
  result = "nil" /\ cbPaletted(cb) /\ ~interlaced /\ (Depth(cb) = 8 => shown # 255)
    => largest < shown
=============================================================================
