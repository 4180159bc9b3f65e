------------------------------ MODULE PngRows -------------------------------
(***************************************************************************)
(* The rows of an image on their way through internal/png: writeImage of   *)
(* writer.go filters each row against the one before, and readImagePass of *)
(* reader.go undoes that in place, byte by byte.  Between them zlib, which *)
(* loses nothing, and the chunks (PngEncoder, PngDecoder).                 *)
(***************************************************************************)
EXTENDS PngFilter, Sequences

CONSTANTS
  Height,
  Images   \* what is encoded in an instance

Lines == 0..(Height - 1)

ASSUME ImageAssumption ==
  /\ Height \in Nat
  /\ Images \subseteq [Lines -> Row]

VARIABLES
  image,         \* the bytes of the image that is encoded
  filters,       \* FALSE for palettes and without compression
  y, pr,         \* the encoder's row and the one before
  stream,        \* filtered rows, compressed and not yet decompressed
  pc,            \* the decoder: at "read", in a loop over the "bytes" of a row,
                 \* or in filterPaeth
  dy, ft,        \* its row and the filter of that
  cdat, pdat,    \* current and previous row
  i, j, a, c,    \* the loops' variables
  img            \* the decoded rows

encoderVars == <<image, filters, y, pr>>
loopVars == <<i, j, a, c>>
decoderVars == <<pc, dy, ft, cdat, pdat, loopVars, img>>
vars == <<encoderVars, stream, decoderVars>>

Init ==
  /\ image \in Images /\ filters \in BOOLEAN
  /\ y = 0 /\ pr = Zeros
  /\ stream = <<>>
  /\ pc = "read" /\ dy = 0 /\ ft = ftNone
  /\ cdat = Zeros /\ pdat = Zeros
  /\ i = 0 /\ j = 0 /\ a = 0 /\ c = 0
  /\ img = [r \in Lines |-> Zeros]

\* One turn of writeImage's loop: filter, write to zlib, swap the rows.
EncodeRow ==
  /\ y < Height
  /\ LET cur == image[y]
         t   == Chosen(cur, pr)
     IN  /\ stream' = Append(stream,
                        IF filters THEN [type |-> t.filter, bytes |-> t.row]
                        ELSE [type |-> ftNone, bytes |-> cur])
         /\ pr' = cur
  /\ y' = y + 1
  /\ UNCHANGED <<image, filters, decoderVars>>

\* Where the loop for a filter starts: some bytes are left as they are.
Start(f) == CASE f = ftNone -> N
              [] f = ftSub  -> Bpp
              [] f \in {ftUp, ftAverage, ftPaeth} -> 0

\* io.ReadFull of a row and its filter type
ReadRow ==
  /\ pc = "read"
  /\ stream # <<>>
  /\ stream' = Tail(stream)
  /\ ft' = Head(stream).type
  /\ cdat' = Head(stream).bytes
  /\ pc' = IF ft' = ftPaeth THEN "paeth" ELSE "bytes"
  /\ i' = 0 /\ a' = 0 /\ c' = 0
  /\ j' = Start(ft')
  /\ UNCHANGED <<encoderVars, dy, pdat, img>>

\* cdat[j] += ..., for all filters but Paeth
UnfilterByte ==
  /\ pc = "bytes"
  /\ j < N
  /\ cdat' = [cdat EXCEPT ![j] = (@ + Predict(ft, cdat, pdat, j)) % 256]
  /\ j' = j + 1
  /\ UNCHANGED <<encoderVars, stream, pc, dy, ft, pdat, i, a, c, img>>

\* Mutant of PaethByte: c is not carried on.
ForgetUpLeft ==
  /\ pc = "paeth"
  /\ j < N
  /\ a' = (cdat[j] + Paeth(a, pdat[j], c)) % 256
  /\ cdat' = [cdat EXCEPT ![j] = a']
  /\ j' = j + Bpp
  /\ UNCHANGED <<encoderVars, stream, pc, dy, ft, pdat, i, c, img>>

\* filterPaeth, channel by channel: the inner loop, ...
PaethByte ==
  /\ pc = "paeth"
  /\ j < N
  /\ a' = (cdat[j] + Paeth(a, pdat[j], c)) % 256
  /\ cdat' = [cdat EXCEPT ![j] = a']
  /\ c' = pdat[j]
  /\ j' = j + Bpp
  /\ UNCHANGED <<encoderVars, stream, pc, dy, ft, pdat, i, img>>

\* ... and the outer one.
PaethNext ==
  /\ pc = "paeth"
  /\ j >= N
  /\ i + 1 < Bpp
  /\ i' = i + 1
  /\ j' = i + 1
  /\ a' = 0 /\ c' = 0
  /\ UNCHANGED <<encoderVars, stream, pc, dy, ft, cdat, pdat, img>>

\* The row is converted to pixels, and the rows are swapped.
EndRow ==
  /\ \/ pc = "bytes" /\ j >= N
     \/ pc = "paeth" /\ j >= N /\ i + 1 >= Bpp
  /\ img' = [img EXCEPT ![dy] = cdat]
  /\ cdat' = pdat /\ pdat' = cdat
  /\ dy' = dy + 1
  /\ pc' = "read"
  /\ UNCHANGED <<encoderVars, stream, ft, loopVars>>

\* Another image of the same size, with the buffers of the first (BufferPool)
\* and a new decoder.
Reuse ==
  /\ y = Height /\ dy = Height
  /\ image' \in Images /\ filters' \in BOOLEAN
  /\ y' = 0 /\ pr' = Zeros
  /\ dy' = 0
  /\ cdat' = Zeros /\ pdat' = Zeros
  /\ img' = [r \in Lines |-> Zeros]
  /\ UNCHANGED <<stream, pc, ft, loopVars>>

Decode ==
  \/ ReadRow
  \/ UnfilterByte
  \/ PaethByte
  \/ PaethNext
  \/ EndRow

Next == EncodeRow \/ Decode \/ Reuse

Spec == Init /\ [][Next]_vars

-----------------------------------------------------------------------------

\* Every variable has its type.
TypeOK ==
  /\ image \in [Lines -> Row] /\ filters \in BOOLEAN
  /\ y \in 0..Height /\ pr \in Row
  /\ stream \in Seq([type : FilterType, bytes : Row])
  /\ pc \in {"read", "bytes", "paeth"}
  /\ dy \in 0..Height /\ ft \in FilterType
  /\ cdat \in Row /\ pdat \in Row
  /\ i \in Nat /\ j \in Nat /\ a \in Byte /\ c \in Byte
  /\ img \in [Lines -> Row]

\* A decoded row is the row that was encoded: filter's early exits (writer.go:
\* 237, 250, 268, 286), the two forms of the Paeth predictor and the reused
\* buffers cancel out.
RoundTrip == \A r \in 0..(dy - 1) : img[r] = image[r]

\* "pick the one that minimizes the sum of absolute differences" (writer.go:
\* 207): although filter stops summing early, no filter would have had a smaller
\* sum than the chosen one.
PicksMinimum ==
  y < Height =>
    LET sum(f) == Sums(Filtered(f, image[y], pr))[N]
    IN  \A f \in FilterType : sum(Chosen(image[y], pr).filter) <= sum(f)
=============================================================================
