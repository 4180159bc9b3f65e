---------------------------- MODULE PngTransfer -----------------------------
(***************************************************************************)
(* PngEncoder and PngDecoder on one file: Encode writes it, over a writer  *)
(* that may fail, and Decode reads what is there.  Or Decode reads a file  *)
(* that comes from elsewhere, with anything in it.                         *)
(***************************************************************************)
EXTENDS PngDecoder, PngEncoder

VARIABLES
  foreign,   \* the file comes from elsewhere
  at, part   \* the decoder has read so many parts of the chunk file[at]

position == <<at, part>>
transferVars == <<vars, encoderVars, foreign, position>>

TransferInit ==
  /\ Init /\ EncoderInit /\ at = 1 /\ part = 0
  /\ foreign \in BOOLEAN
  /\ foreign => img = CHOOSE m \in Images : TRUE   \* not encoded

Encoder == ~foreign /\ EncoderNext /\ UNCHANGED <<vars, foreign, position>>

\* What the decoder is to read is there.
Available(n) ==
  /\ encoded # "none"
  /\ at <= Len(file)
  /\ part = n
  /\ file[at].parts > n

\* Chunks without data have no second part.
Past(n) ==
  IF n = 3 THEN at' = at + 1 /\ part' = 0
  ELSE part' = n /\ UNCHANGED at

IHDR ==
  LET c == Format(img)
  IN  [known |-> TRUE, interlace |-> itNone, rows |-> img.rows, depth |-> c[1],
       ct |-> c[2]]

ReadSignature == Available(0) /\ CheckHeader(TRUE) /\ Past(3)

ReadHeader ==
  /\ Available(0)
  /\ LET c == file[at]
     IN  ReadChunkHeader(c.type, c.length) \/ ReadNext(c.type, c.length)
  /\ Past(IF file[at].length = 0 THEN 2 ELSE 1)

ReadData ==
  /\ Available(1)
  /\ parseIHDR(IHDR) \/ parsePLTE \/ parsetRNS
  /\ Past(2)

\* What zlib makes of the encoder's units.
Inflated(unit) ==
  IF unit = 0 THEN "head" ELSE IF unit <= img.rows THEN "row" ELSE "end"

ReadPixels ==
  /\ Available(1)
  /\ LET units == file[at].units
         from == Len(units) - idatLength
     IN  \E n \in 1..BufferSize :
           /\ from + n <= Len(units)
           /\ Read([k \in 1..n |-> Inflated(units[from + k])])
  /\ Past(IF idatLength' = 0 THEN 2 ELSE 1)

ReadCRC ==
  /\ Available(2)
  /\ verifyChecksum(TRUE) \/ ReadChecksum(TRUE)
  /\ Past(3)

\* parseIEND has nothing to read; zlib's units are in memory.  An image's pixels
\* are in its palette.
Compute ==
  /\ encoded # "none"
  /\ \/ parseIEND
     \/ \E idx \in Indices : (img.palette # -1 => idx < img.palette) /\ Inflate(idx)
  /\ UNCHANGED position

\* Mutant of EndOfFile: it is only looked for between chunks.
EndBetweenChunks ==
  /\ encoded # "none"
  /\ at > Len(file)
  /\ \E e \in {"EOF", "ErrUnexpectedEOF"} : Truncated(e)
  /\ UNCHANGED position

\* The file ends here, or in the part that is to be read.
EndOfFile ==
  /\ encoded # "none"
  /\ at > Len(file) \/ (part > 0 /\ file[at].parts <= part)
  /\ \E e \in {"EOF", "ErrUnexpectedEOF"} : Truncated(e)
  /\ UNCHANGED position

Decoder ==
  /\ ReadSignature \/ ReadHeader \/ ReadData \/ ReadPixels \/ ReadCRC \/ Compute
     \/ EndOfFile
  /\ UNCHANGED <<encoderVars, foreign>>

\* The decoder on a file from elsewhere, whose reader may fail as well
Elsewhere == foreign /\ Next /\ UNCHANGED <<encoderVars, foreign, position>>

TransferNext == Encoder \/ Decoder \/ Elsewhere

TransferSpec ==
  /\ TransferInit /\ [][TransferNext]_transferVars
  /\ WF_transferVars(TransferNext)

-----------------------------------------------------------------------------

\* Every variable of the two has its type.
TransferTypeOK == TypeOK /\ EncoderTypeOK

\* A file whose writer has failed somewhere never decodes, whatever chunk, buffer
\* or error the failure hit; and one that Encode has returned nil for always does.
DecodesIffEncoded ==
  ~foreign /\ result # "none" => (result = "nil") = (encoded = "nil")

\* The decoded image has the rows, the palette and the transparency of the encoded
\* one: tRNS ends after the last color that is not opaque (writer.go:179).  Without
\* a palette it has a model that Encode would choose the same format for.
SameImage ==
  ~foreign /\ result = "nil" =>
    /\ row = img.rows
    /\ img.palette # -1 => shown = img.palette /\ alphas = img.alphas
    /\ img.palette = -1 =>
         ~useTransparent /\ Format([img EXCEPT !.model = model]) = Format(img)

\* Decode returns, for a file that Encode has left in any state and for any other
\* one: no chunk, no empty IDAT chunk and no end of the file keeps it waiting.
Decoded == <>(result # "none")
=============================================================================
