----------------------------- MODULE PngEncoder -----------------------------
(***************************************************************************)
(* Encoder.Encode of internal/png/writer.go, over a writer that may fail   *)
(* in any of its calls and work again in the next: the error in e.err, the *)
(* other one in the bufio.Writer, and the buffers of zlib and bufio        *)
(* between the rows and the IDAT chunks.  PngRows has the rows.            *)
(***************************************************************************)
EXTENDS Integers, Sequences, SequencesExt, ColorTypes

CONSTANTS
  Images,      \* palette: its length, -1 without; alphas: 1 + its last entry
               \* that is not opaque; model, opaque; rows
  WriterBuffer   \* units that bw holds

ASSUME EncoderAssumption ==
  /\ Images \subseteq [palette : Nat \cup {-1}, alphas : Nat, model : STRING,
                        opaque : BOOLEAN, rows : Nat]
  /\ \A m \in Images : m.alphas <= IF m.palette = -1 THEN 0 ELSE m.palette
  /\ WriterBuffer \in Nat \ {0}

VARIABLES
  img, file, encoded,  \* see PngFile
  step,                \* the call that comes next
  err,                 \* e.err
  zbuf, bw,            \* units in zlib and in the bufio.Writer, by their numbers
  bwErr,               \* its error
  y,                   \* rows that zlib has got
  broken               \* history: a call of the writer has failed

outside == <<img, file, encoded>>
buffers == <<zbuf, bw, bwErr, y>>
encoderVars == <<outside, step, err, buffers, broken>>

Chunk(type, length, units) ==
  [type |-> type, length |-> length, units |-> units, parts |-> 3]

EncoderInit ==
  /\ img \in Images /\ file = <<>> /\ encoded = "none"
  /\ step = "Encode" /\ err = "nil"
  /\ zbuf = <<>> /\ bw = <<>> /\ bwErr = "nil" /\ y = 0
  /\ broken = FALSE

\* The depth and the color type that Encode chooses and writeIHDR writes.
Format(m) ==
  CASE m.palette \in 0..2    -> <<1, ctPaletted>>
    [] m.palette \in 3..4    -> <<2, ctPaletted>>
    [] m.palette \in 5..16   -> <<4, ctPaletted>>
    [] m.palette > 16        -> <<8, ctPaletted>>
    [] m.palette = -1 /\ m.model = "Gray"   -> <<8, ctGrayscale>>
    [] m.palette = -1 /\ m.model = "Gray16" -> <<16, ctGrayscale>>
    [] m.palette = -1 /\ m.model \notin {"Gray", "Gray16"} ->
         <<IF m.model \in {"RGBA", "NRGBA", "Alpha"} THEN 8 ELSE 16,
           IF m.opaque THEN ctTrueColor ELSE ctTrueColorAlpha>>

\* Encode up to io.WriteString, which sets e.err whatever it was.
Encode ==
  /\ step = "Encode"
  /\ \/ /\ img.rows = 0
        /\ encoded' = "FormatError" /\ step' = "done"
        /\ UNCHANGED <<file, err, broken>>
     \/ /\ img.rows > 0
        /\ \/ /\ file' = <<Chunk("signature", 8, <<>>)>>
              /\ err' = "nil" /\ UNCHANGED broken
           \/ /\ err' = "write error" /\ broken' = TRUE
              /\ UNCHANGED file
        /\ step' = "IHDR"
        /\ UNCHANGED encoded
  /\ UNCHANGED <<img, buffers>>

\* Mutant of writeChunk: it does not look at e.err.
writeChunkAlways(c) ==
  \E n \in 0..3 :
    /\ file' = IF n = 0 THEN file ELSE Append(file, [c EXCEPT !.parts = n])
    /\ err' = IF n < 3 THEN "write error" ELSE "nil"
    /\ broken' = (broken \/ n < 3)

\* writeChunk: the first n of its three writes succeed.
writeChunk(c) ==
  IF err # "nil" THEN UNCHANGED <<file, err, broken>>
  ELSE \E n \in 0..3 :
         /\ file' = IF n = 0 THEN file ELSE Append(file, [c EXCEPT !.parts = n])
         /\ err' = IF n < 3 THEN "write error" ELSE "nil"
         /\ broken' = (broken \/ n < 3)

writeIHDR ==
  /\ step = "IHDR"
  /\ writeChunk(Chunk("IHDR", 13, <<>>))
  /\ step' = IF img.palette = -1 THEN "IDATs" ELSE "PLTE"
  /\ UNCHANGED <<img, encoded, buffers>>

\* writePLTEAndTRNS ...
writePLTE ==
  /\ step = "PLTE"
  /\ \/ /\ img.palette \notin 1..256
        /\ err' = "FormatError"
        /\ step' = "IDATs"
        /\ UNCHANGED <<file, broken>>
     \/ /\ img.palette \in 1..256
        /\ writeChunk(Chunk("PLTE", 3 * img.palette, <<>>))
        /\ step' = IF img.alphas = 0 THEN "IDATs" ELSE "tRNS"
  /\ UNCHANGED <<img, encoded, buffers>>

\* Mutant of writeTRNS: the last transparency is left out.
writeTRNSShort ==
  /\ step = "tRNS"
  /\ writeChunk(Chunk("tRNS", img.alphas - 1, <<>>))
  /\ step' = "IDATs"
  /\ UNCHANGED <<img, encoded, buffers>>

\* ... and its end
writeTRNS ==
  /\ step = "tRNS"
  /\ writeChunk(Chunk("tRNS", img.alphas, <<>>))
  /\ step' = "IDATs"
  /\ UNCHANGED <<img, encoded, buffers>>

-----------------------------------------------------------------------------

\* writeIDATs up to the loop of writeImage
writeIDATs ==
  /\ step = "IDATs"
  /\ \/ err # "nil" /\ step' = "IEND" /\ UNCHANGED zbuf
     \/ err = "nil" /\ step' = "row" /\ zbuf' = <<0>>
  /\ UNCHANGED <<outside, err, bw, bwErr, y, broken>>

\* A turn of the loop hands zlib a row; after the last one the deferred Close has
\* it write what it holds and its end.
writeRow ==
  /\ step = "row"
  /\ zbuf' = Append(zbuf, y + 1)
  /\ \/ y < img.rows /\ y' = y + 1 /\ step' = "Write"
     \/ y = img.rows /\ UNCHANGED y /\ step' = "Close"
  /\ UNCHANGED <<outside, err, bw, bwErr, broken>>

\* bw.Write of a unit; bw keeps an error that encoder.Write has returned.
Buffer(u) ==
  IF Len(bw) < WriterBuffer
  THEN bw' = Append(bw, u) /\ UNCHANGED <<file, err, broken, bwErr>>
  ELSE /\ writeChunk(Chunk("IDAT", Len(bw), bw))
       /\ bwErr' = err'
       /\ bw' = <<u>>

\* zlib passes on some of what it has compressed; an error ends writeImage, whose
\* Close then does nothing.
Deflate ==
  /\ step = "Write"
  /\ zbuf # <<>>
  /\ Buffer(Head(zbuf))
  /\ zbuf' = Tail(zbuf)
  /\ step' = IF bwErr' = "nil" THEN "Write" ELSE "IEND"
  /\ UNCHANGED <<img, encoded, y>>

Written ==
  /\ step = "Write"
  /\ step' = "row"
  /\ UNCHANGED <<outside, err, buffers, broken>>

\* What Close returns is dropped, and writeImage's nil overwrites e.err.
Close ==
  /\ step = "Close"
  /\ \/ /\ zbuf # <<>> /\ bwErr = "nil"
        /\ Buffer(Head(zbuf))
        /\ zbuf' = Tail(zbuf)
        /\ UNCHANGED step
     \/ /\ zbuf = <<>> \/ bwErr # "nil"
        /\ err' = "nil"
        /\ step' = "Flush"
        /\ UNCHANGED <<file, zbuf, bw, bwErr, broken>>
  /\ UNCHANGED <<img, encoded, y>>

\* Mutant of Flush: the buffer does not remember that a write has failed.
FlushForgetful ==
  /\ step = "Flush"
  /\ writeChunk(Chunk("IDAT", Len(bw), bw))
  /\ step' = "IEND"
  /\ UNCHANGED <<img, encoded, buffers>>

Flush ==
  /\ step = "Flush"
  /\ IF bwErr # "nil" THEN err' = bwErr /\ UNCHANGED <<file, broken>>
     ELSE writeChunk(Chunk("IDAT", Len(bw), bw))
  /\ step' = "IEND"
  /\ UNCHANGED <<img, encoded, buffers>>

writeIEND ==
  /\ step = "IEND"
  /\ writeChunk(Chunk("IEND", 0, <<>>))
  /\ step' = "return"
  /\ UNCHANGED <<img, encoded, buffers>>

EncodeReturns ==
  /\ step = "return"
  /\ encoded' = err
  /\ step' = "done"
  /\ UNCHANGED <<img, file, err, buffers, broken>>

EncoderNext ==
  \/ Encode \/ writeIHDR \/ writePLTE \/ writeTRNS
  \/ writeIDATs \/ writeRow \/ Deflate \/ Written \/ Close \/ Flush
  \/ writeIEND \/ EncodeReturns

EncoderSpec == EncoderInit /\ [][EncoderNext]_encoderVars

-----------------------------------------------------------------------------

\* Every variable has its type.
EncoderTypeOK ==
  /\ img \in Images /\ encoded \in {"none", "nil", "FormatError", "write error"}
  /\ file \in Seq([type : {"signature", "IHDR", "PLTE", "tRNS", "IDAT", "IEND"},
                   length : Nat, units : Seq(Nat), parts : 1..3])
  /\ step \in {"Encode", "IHDR", "PLTE", "tRNS", "IDATs", "row", "Write", "Close", "Flush",
               "IEND", "return", "done"}
  /\ err \in {"nil", "FormatError", "write error"}
  /\ bwErr \in {"nil", "write error"}
  /\ zbuf \in Seq(Nat) /\ bw \in Seq(Nat) /\ Len(bw) <= WriterBuffer
  /\ y \in 0..img.rows /\ broken \in BOOLEAN

\* After a call of the writer has failed there is no other, although the error of
\* zlib's Close is dropped and e.err overwritten (writer.go:315, 537): a writer
\* that works again must not get the rest of the file behind a gap.
NothingAfterFailure == [][broken => UNCHANGED file]_encoderVars

\* A failed write is returned, whichever call of Encode it happens in.
FailureIsReturned == broken => encoded # "nil"

File == INSTANCE PngFile

\* Encode keeps what PngFile promises.
FileSpec == File!Spec
=============================================================================
