------------------------- MODULE PngTransferProofs -------------------------
(***************************************************************************)
(* Encode and Decode, for every file.                                      *)
(*                                                                         *)
(* First Encode, for every image, every size of the buffers and every      *)
(* failure of the writer: no byte after a failure, no failure lost, and a  *)
(* file of PngFile's at every moment.  Of the units that are on their way  *)
(* from zlib to the file, Contiguous says that they follow each other, so  *)
(* that the IDAT chunks do.                                                *)
(*                                                                         *)
(* Then what Decode returns an image for, whatever the file, by an         *)
(* invariant of every step of the decoder with any chunk, header, unit or  *)
(* error; and last, what becomes of a file of Encode's.  There the decoder *)
(* meets no chunk, unit or checksum that it rejects, because it is always  *)
(* where the file is: TransferInv says which chunk and which units are     *)
(* next, and which of the image's fields it has.  So only the end of the   *)
(* file can stop it, and a complete file ends with the image.              *)
(***************************************************************************)
EXTENDS PngTransfer, SequenceTheorems, FiniteSetTheorems, TLAPS

-----------------------------------------------------------------------------
(* The encoder: an invariant that says at each step what is in the file,   *)
(* in the buffers and in the errors, and that its steps are PngFile's.     *)

\* n units from one on
Run(from, n) == [k \in 1..n |-> from + k - 1]

\* The first unit that is not in the file.
NextUnit == IF Last(file).type = "IDAT" THEN Last(Last(file).units) + 1 ELSE 0

\* The units in the file, in the bufio.Writer and in zlib follow each other.
Contiguous(end) ==
  /\ bw = Run(NextUnit, Len(bw))
  /\ zbuf = Run(NextUnit + Len(bw), Len(zbuf))
  /\ NextUnit + Len(bw) + Len(zbuf) = end
  /\ NextUnit # 0 => bw # <<>>

\* Where a failure is remembered: in e.err, but from the deferred Close to Flush
\* only in the bufio.Writer.
ErrorInv ==
  /\ broken => err # "nil" \/ step \in {"Close", "Flush"}
  /\ broken /\ step \in {"Close", "Flush"} => bwErr # "nil"
  /\ ~broken => bwErr = "nil"
  /\ step \in {"Encode", "row", "Write"} => ~broken
  /\ step \in {"row", "Write", "Close", "Flush"} /\ ~broken => err = "nil"
  /\ encoded = "none" <=> step # "done"
  /\ step = "done" /\ img.rows > 0 => encoded = err
  /\ step = "done" /\ img.rows = 0 => encoded = "FormatError" /\ file = <<>>

\* What the file ends with, as long as nothing has gone wrong.
LastChunkInv ==
  LET t == Last(file).type
  IN  /\ file # <<>> /\ Last(file).parts = 3
      /\ t = "IDAT" => Last(Last(file).units) \in 0..(img.rows + 1)
      /\ err = "nil" =>
           /\ step = "IHDR" => t = "signature"
           /\ step = "PLTE" => t = "IHDR"
           /\ step = "tRNS" => t = "PLTE"
           /\ step \in {"IDATs", "row", "Write", "Close", "Flush"} =>
                \/ t = "IHDR" /\ img.palette = -1
                \/ t = "PLTE" /\ img.alphas = 0
                \/ t = "tRNS"
                \/ t = "IDAT" /\ step # "IDATs"
           /\ step = "IEND" => t = "IDAT" /\ NextUnit = img.rows + 2
           /\ step = "return" => t = "IEND"

\* The units between zlib and the file.
BufferInv ==
  /\ step \in {"IHDR", "PLTE", "tRNS", "IDATs"} => bw = <<>> /\ y = 0
  /\ step \in {"row", "Write"} => Contiguous(y + 1)
  /\ step \in {"Close", "Flush"} /\ ~broken => Contiguous(img.rows + 2)
  /\ step = "Flush" /\ ~broken => zbuf = <<>>

FileInv ==
  /\ step = "Encode" => file = <<>> /\ bw = <<>> /\ y = 0
  /\ step \notin {"Encode", "done"} => img.rows > 0
  /\ File!Complete => step \in {"return", "done"} /\ err = "nil" /\ ~broken
  /\ step \in {"PLTE", "tRNS"} => img.palette # -1
  /\ step = "tRNS" => img.alphas # 0
  /\ step \notin {"Encode", "done"} /\ ~broken => LastChunkInv
  /\ step = "done" /\ encoded = "nil" => File!Complete
  /\ BufferInv

EncoderInv == EncoderTypeOK /\ ErrorInv /\ FileInv

ChunkTypes == {"signature", "IHDR", "PLTE", "tRNS", "IDAT", "IEND"}
ChunkType == [type : ChunkTypes, length : Nat, units : Seq(Nat), parts : 1..3]

LEMMA ImageFields ==
  ASSUME NEW m \in Images
  PROVE  /\ m.palette \in Nat \cup {-1} /\ m.alphas \in Nat /\ m.rows \in Nat
         /\ m.alphas <= IF m.palette = -1 THEN 0 ELSE m.palette
BY EncoderAssumption

LEMMA RunIsSeq ==
  ASSUME NEW f \in Nat, NEW n \in Nat
  PROVE  /\ Run(f, n) \in Seq(Nat) /\ Len(Run(f, n)) = n
         /\ DOMAIN Run(f, n) = 1..n
         /\ \A k \in 1..n : Run(f, n)[k] = f + k - 1
BY DEF Run

\* A sequence with the numbers is the run.
LEMMA RunUnique ==
  ASSUME NEW f \in Nat, NEW n \in Nat, NEW s \in Seq(Nat), Len(s) = n,
         \A k \in 1..n : s[k] = f + k - 1
  PROVE  s = Run(f, n)
<1>1. DOMAIN s = 1..n /\ s = [k \in DOMAIN s |-> s[k]]
  BY LenProperties
<1> QED
  BY <1>1 DEF Run

LEMMA RunLemma ==
  ASSUME NEW f \in Nat, NEW n \in Nat
  PROVE  /\ Run(f, n) \in Seq(Nat) /\ Len(Run(f, n)) = n
         /\ n > 0 => /\ Run(f, n) # <<>>
                     /\ Head(Run(f, n)) = f /\ Tail(Run(f, n)) = Run(f + 1, n - 1)
                     /\ Last(Run(f, n)) = f + n - 1
         /\ Append(Run(f, n), f + n) = Run(f, n + 1)
         /\ <<f>> = Run(f, 1) /\ <<>> = Run(f, 0)
<1>0. PICK s \in Seq(Nat) : s = Run(f, n)
  BY RunIsSeq
<1>1. Len(s) = n /\ \A k \in 1..n : s[k] = f + k - 1
  BY <1>0, RunIsSeq
<1>2. n > 0 => s # <<>> /\ Head(s) = f /\ Last(s) = f + n - 1
  BY <1>1 DEF Last
<1>3. n > 0 => Tail(s) = Run(f + 1, n - 1)
  <2> SUFFICES ASSUME n > 0 PROVE Tail(s) = Run(f + 1, n - 1)
    OBVIOUS
  <2>1. PICK t : t = Tail(s)
    OBVIOUS
  <2>2. t \in Seq(Nat) /\ Len(t) = n - 1 /\ \A i \in 1..(n - 1) : t[i] = s[i + 1]
    BY <1>1, <1>2, <2>1, HeadTailProperties
  <2>3. \A i \in 1..(n - 1) : t[i] = (f + 1) + i - 1
    BY <1>1, <2>2
  <2>4. n - 1 \in Nat /\ f + 1 \in Nat
    OBVIOUS
  <2> QED
    BY <2>1, <2>2, <2>3, <2>4, RunUnique
<1>4. Append(s, f + n) = Run(f, n + 1)
  <2>1. PICK t : t = Append(s, f + n)
    OBVIOUS
  <2>2. f + n \in Nat /\ n + 1 \in Nat
    OBVIOUS
  <2>3. /\ t \in Seq(Nat) /\ Len(t) = n + 1
        /\ \A i \in 1..n : t[i] = s[i]
        /\ t[n + 1] = f + n
    BY <1>1, <2>1, <2>2, AppendProperties
  <2>4. \A i \in 1..(n + 1) : t[i] = f + i - 1
    BY <1>1, <2>3
  <2> QED
    BY <2>1, <2>2, <2>3, <2>4, RunUnique
<1>5. <<f>> = Run(f, 1)
  <2>1. <<f>> \in Seq(Nat) /\ Len(<<f>>) = 1 /\ \A k \in 1..1 : <<f>>[k] = f + k - 1
    OBVIOUS
  <2> QED
    BY <2>1, RunUnique
<1>6. <<>> = Run(f, 0)
  <2>1. <<>> \in Seq(Nat)
    OBVIOUS
  <2>1b. PICK t \in Seq(Nat) : t = <<>>
    BY <2>1
  <2>2. Len(t) = 0 /\ 0 \in Nat /\ \A k \in 1..0 : t[k] = f + k - 1
    BY <2>1b
  <2> QED
    BY <2>1b, <2>2, RunUnique
<1> QED
  BY <1>0, <1>1, <1>2, <1>3, <1>4, <1>5, <1>6

LEMMA AppendLast ==
  ASSUME NEW S, NEW s \in Seq(S), NEW e \in S
  PROVE  Append(s, e) \in Seq(S) /\ Append(s, e) # <<>> /\ Last(Append(s, e)) = e
BY AppendProperties DEF Last

LEMMA ChunkParts ==
  ASSUME NEW c \in ChunkType, NEW n \in 1..3
  PROVE  /\ [c EXCEPT !.parts = n] \in ChunkType
         /\ [c EXCEPT !.parts = n].type = c.type
         /\ [c EXCEPT !.parts = n].parts = n
         /\ c.parts = n => [c EXCEPT !.parts = n] = c
BY DEF ChunkType

LEMMA ChunkFields ==
  ASSUME NEW t \in ChunkTypes, NEW n \in Nat, NEW u \in Seq(Nat)
  PROVE  /\ Chunk(t, n, u) \in ChunkType /\ Chunk(t, n, u).type = t
         /\ Chunk(t, n, u).units = u /\ Chunk(t, n, u).parts = 3
BY DEF Chunk, ChunkType

\* A chunk without pixels.
LEMMA PlainChunk ==
  ASSUME NEW t \in ChunkTypes, NEW n \in Nat
  PROVE  /\ Chunk(t, n, <<>>) \in ChunkType /\ Chunk(t, n, <<>>).type = t
         /\ Chunk(t, n, <<>>).parts = 3
<1> DEFINE none == <<>>
<1>1. none \in Seq(Nat)
  OBVIOUS
<1> HIDE DEF none
<1>2. /\ Chunk(t, n, none) \in ChunkType /\ Chunk(t, n, none).type = t
      /\ Chunk(t, n, none).parts = 3
  BY <1>1, ChunkFields
<1> QED
  BY <1>2 DEF none

LEMMA WholeChunk ==
  ASSUME NEW c \in ChunkType, c.parts = 3
  PROVE  3 \in 1..3 /\ [c EXCEPT !.parts = 3] = c
<1>1. 3 \in 1..3
  OBVIOUS
<1> QED
  BY <1>1, ChunkParts

\* What becomes of a chunk: nothing, all of it, or a part and an error.
LEMMA ChunkOutcome ==
  ASSUME EncoderTypeOK, NEW c \in ChunkType, c.parts = 3, writeChunk(c)
  PROVE  /\ file' \in Seq(ChunkType) /\ broken' \in BOOLEAN
         /\ err' \in {"nil", "FormatError", "write error"}
         /\ \/ err # "nil" /\ UNCHANGED <<file, err, broken>>
            \/ /\ err = "nil" /\ err' = "nil" /\ broken' = broken
               /\ file' = Append(file, c) /\ file' # <<>> /\ Last(file') = c
            \/ /\ err = "nil" /\ err' = "write error" /\ broken'
               /\ \/ file' = file
                  \/ \E n \in 1..2 :
                       /\ file' = Append(file, [c EXCEPT !.parts = n])
                       /\ file' # <<>> /\ Last(file').type = c.type
                       /\ Last(file').parts = n
<1>1. file \in Seq(ChunkType)
  BY DEF EncoderTypeOK, ChunkType, ChunkTypes
<1>2. CASE err # "nil"
  BY <1>1, <1>2 DEF writeChunk, EncoderTypeOK
<1>3. CASE err = "nil"
  <2>1. PICK n \in 0..3 :
          /\ file' = IF n = 0 THEN file ELSE Append(file, [c EXCEPT !.parts = n])
          /\ err' = IF n < 3 THEN "write error" ELSE "nil"
          /\ broken' = (broken \/ n < 3)
    BY <1>3 DEF writeChunk
  <2>2. /\ n = 0 => file' = file
        /\ n # 0 => file' = Append(file, [c EXCEPT !.parts = n])
        /\ n < 3 => err' = "write error"
        /\ ~(n < 3) => err' = "nil"
    BY <2>1
  <2>3. broken \in BOOLEAN /\ (n < 3 => broken' = TRUE) /\ (~(n < 3) => broken' = broken)
    <3>1. broken \in BOOLEAN /\ broken' = (broken \/ n < 3)
      BY <2>1 DEF EncoderTypeOK
    <3>2. CASE n < 3
      BY <3>1, <3>2, Zenon
    <3>3. CASE ~(n < 3)
      BY <3>1, <3>3, Zenon
    <3> QED
      BY <3>1, <3>2, <3>3, Zenon
  <2>4. n = 0 \/ n \in 1..2 \/ n = 3
    OBVIOUS
  <2>5. CASE n = 0
    <3>0. n < 3
      BY <2>5
    <3>1. file' = file /\ err' = "write error" /\ broken' = TRUE
      BY <2>2, <2>3, <2>5, <3>0, Zenon
    <3> QED
      BY <1>1, <1>3, <3>1
  <2>6. CASE n = 3
    <3>0. n \in 1..3 /\ c.parts = n /\ n # 0 /\ ~(n < 3)
      BY <2>6
    <3>1. [c EXCEPT !.parts = n] = c
      BY <3>0, ChunkParts
    <3>2. file' = Append(file, c) /\ err' = "nil" /\ broken' = broken
      BY <2>2, <2>3, <3>0, <3>1, Zenon
    <3>3. file' \in Seq(ChunkType) /\ file' # <<>> /\ Last(file') = c
      BY <1>1, <3>2, AppendProperties DEF Last
    <3> QED
      BY <1>3, <2>3, <3>2, <3>3
  <2>7. CASE n \in 1..2
    <3>0. n \in 1..3 /\ n # 0 /\ n < 3
      BY <2>7
    <3>. DEFINE d == [c EXCEPT !.parts = n]
    <3>2. d \in ChunkType /\ d.type = c.type /\ d.parts = n
      BY <3>0, ChunkParts
    <3>3. file' = Append(file, d) /\ err' = "write error" /\ broken' = TRUE
      BY <2>2, <2>3, <3>0, Zenon
    <3>4. file' \in Seq(ChunkType) /\ file' # <<>> /\ Last(file') = d
      <4>. HIDE DEF d
      <4>1. Append(file, d) \in Seq(ChunkType) /\ Append(file, d) # <<>> /\ Last(Append(file, d)) = d
        BY <1>1, <3>2, AppendLast
      <4> QED
        BY <3>3, <4>1
    <3>5. \E k \in 1..2 :
            /\ file' = Append(file, [c EXCEPT !.parts = k])
            /\ file' # <<>> /\ Last(file').type = c.type
            /\ Last(file').parts = k
      BY <2>7, <3>2, <3>3, <3>4 DEF d
    <3> QED
      BY <1>3, <3>3, <3>4, <3>5
  <2> QED
    BY <2>4, <2>5, <2>6, <2>7
<1> QED
  BY <1>2, <1>3

\* A chunk that may follow makes a step of PngFile.
LEMMA ChunkRefines ==
  ASSUME EncoderTypeOK, NEW c \in ChunkType, c.parts = 3, writeChunk(c),
         err = "nil" => c \in File!Following,
         err = "nil" => encoded = "none" /\ ~File!Torn /\ ~File!Complete,
         UNCHANGED <<img, encoded>>
  PROVE  [File!Next]_<<img, file, encoded>>
<1>1. CASE err # "nil"
  BY <1>1 DEF writeChunk
<1>2. CASE err = "nil"
  <2>1. PICK n \in 0..3 :
          file' = IF n = 0 THEN file ELSE Append(file, [c EXCEPT !.parts = n])
    BY <1>2 DEF writeChunk
  <2>2. CASE n = 0
    BY <2>1, <2>2
  <2>3. CASE n \in 1..3
    BY <1>2, <2>1, <2>3 DEF File!Next, File!Write
  <2> QED
    BY <2>2, <2>3
<1> QED
  BY <1>1, <1>2

LEMMA EncoderInitInv == EncoderInit => EncoderInv
<1> SUFFICES ASSUME EncoderInit PROVE EncoderInv
  OBVIOUS
<1>1. img \in Images /\ img.rows \in Nat
  BY ImageFields DEF EncoderInit
<1>2. EncoderTypeOK
  <2>1. <<>> \in Seq(Nat) /\ Len(<<>>) = 0 /\ 0 \in 0..img.rows /\ 0 <= WriterBuffer
        /\ <<>> \in Seq(ChunkType)
    BY <1>1, EncoderAssumption
  <2> QED
    BY <1>1, <2>1 DEF EncoderInit, EncoderTypeOK, ChunkType, ChunkTypes
<1>3. ErrorInv
  BY DEF EncoderInit, ErrorInv
<1>4. FileInv
  BY DEF EncoderInit, FileInv, BufferInv, File!Complete
<1> QED
  BY <1>2, <1>3, <1>4 DEF EncoderInv

-----------------------------------------------------------------------------

\* PngFile's definitions in the encoder's terms.
LEMMA FileTerms ==
  /\ File!Torn <=> file # <<>> /\ Last(file).parts < 3
  /\ File!Complete <=> file # <<>> /\ Last(file).type = "IEND" /\ ~File!Torn
  /\ File!Torn' <=> file' # <<>> /\ Last(file').parts < 3
  /\ File!Complete' <=> file' # <<>> /\ Last(file').type = "IEND" /\ ~File!Torn'
BY DEF File!Torn, File!Complete, File!Last, Last

LEMMA Cleared ==
  ASSUME EncoderInv, step \notin {"return", "done"}
  PROVE  ~File!Complete /\ encoded = "none"
BY DEF EncoderInv, ErrorInv, FileInv

LEMMA NotTorn ==
  ASSUME EncoderInv, step \notin {"Encode", "done"}, err = "nil",
         step \notin {"Close", "Flush"}
  PROVE  ~broken /\ ~File!Torn /\ LastChunkInv /\ file # <<>>
<1>1. ~broken /\ LastChunkInv
  BY DEF EncoderInv, ErrorInv, FileInv
<1> QED
  BY <1>1, FileTerms DEF LastChunkInv

LEMMA FollowingOf ==
  ASSUME file # <<>>
  PROVE  LET last == Last(file) IN
         /\ last.type = "signature" => File!Following = {Chunk("IHDR", 13, <<>>)}
         /\ last.type = "IHDR" /\ img.palette \in 1..256 =>
              File!Following = {Chunk("PLTE", 3 * img.palette, <<>>)}
         /\ last.type = "IHDR" /\ img.palette # -1 =>
              File!Following = {Chunk("PLTE", 3 * n, <<>>) : n \in {img.palette} \cap 1..256}
         /\ last.type = "PLTE" /\ img.alphas # 0 =>
              File!Following = {Chunk("tRNS", img.alphas, <<>>)}
         /\ last.type = "IHDR" /\ img.palette = -1 => File!Following = File!IDATs(0)
         /\ last.type = "PLTE" /\ img.alphas = 0 => File!Following = File!IDATs(0)
         /\ last.type = "tRNS" => File!Following = File!IDATs(0)
         /\ last.type = "IDAT" /\ Last(last.units) = img.rows + 1 =>
              File!Following = {Chunk("IEND", 0, <<>>)}
         /\ last.type = "IDAT" /\ Last(last.units) # img.rows + 1 =>
              File!Following = File!IDATs(Last(last.units) + 1)
<1>1. \A p \in 1..256 :
        p # -1 /\ {Chunk("PLTE", 3 * n, <<>>) : n \in {p} \cap 1..256}
                   = {Chunk("PLTE", 3 * p, <<>>)}
  <2>1. \A p \in 1..256 : p # -1 /\ {p} \cap 1..256 = {p}
    <3>1. ASSUME NEW p \in 1..256 PROVE {p} \cap 1..256 = {p}
      BY Zenon
    <3>2. \A p \in 1..256 : p # -1
      OBVIOUS
    <3> QED
      BY <3>1, <3>2
  <2>2. \A p : {Chunk("PLTE", 3 * n, <<>>) : n \in {p}} = {Chunk("PLTE", 3 * p, <<>>)}
    BY Zenon
  <2> QED
    BY <2>1, <2>2, Zenon
<1>2. \A l : File!Last(l) = Last(l)
  BY DEF File!Last, Last
<1> QED
  BY <1>1, <1>2 DEF File!Following, File!LastUnit, File!Chunk, Chunk

\* A step that writes a chunk other than IDAT.
LEMMA ChunkStep ==
  ASSUME EncoderInv, NEW c \in ChunkType, c.parts = 3, writeChunk(c),
         err = "nil" => c \in File!Following,
         step \in {"IHDR", "PLTE", "tRNS", "IEND"},
         step' \in {"PLTE", "tRNS", "IDATs", "return"},
         step' = "return" <=> step = "IEND",
         c.type = "IEND" <=> step = "IEND",
         UNCHANGED <<img, encoded, buffers>>
  PROVE  /\ [File!Next]_<<img, file, encoded>>
         /\ EncoderTypeOK' /\ ErrorInv'
         /\ File!Complete' => step' = "return" /\ err' = "nil" /\ ~broken'
         /\ ~broken' => /\ file' # <<>> /\ Last(file').parts = 3
                        /\ err' = "nil" => Last(file') = c
                        /\ err' # "nil" => LastChunkInv'
<1>1. EncoderTypeOK /\ ErrorInv /\ FileInv
  BY DEF EncoderInv
<1>2. encoded = "none" /\ ~File!Complete
  BY Cleared
<1>3. err = "nil" => ~File!Torn /\ ~broken
  BY NotTorn
<1>4. [File!Next]_<<img, file, encoded>>
  BY <1>1, <1>2, <1>3, ChunkRefines
<1>5. /\ file' \in Seq(ChunkType) /\ broken' \in BOOLEAN
      /\ err' \in {"nil", "FormatError", "write error"}
  BY <1>1, ChunkOutcome
<1>6. EncoderTypeOK'
  BY <1>1, <1>5 DEF EncoderTypeOK, buffers, ChunkType, ChunkTypes
<1>7. ~broken => LastChunkInv
  BY <1>1 DEF FileInv
<1>8. bwErr' = bwErr /\ y' = y /\ img' = img /\ encoded' = encoded
  BY DEF buffers
<1>. SUFFICES /\ ErrorInv'
              /\ File!Complete' => step' = "return" /\ err' = "nil" /\ ~broken'
              /\ ~broken' => /\ file' # <<>> /\ Last(file').parts = 3
                             /\ err' = "nil" => Last(file') = c
                             /\ err' # "nil" => LastChunkInv'
  BY <1>4, <1>6
<1>9. CASE err # "nil" /\ UNCHANGED <<file, err, broken>>
  <2>1. ErrorInv'
    BY <1>1, <1>2, <1>8, <1>9 DEF ErrorInv
  <2>2. ~File!Complete'
    BY <1>2, <1>9, FileTerms
  <2>3. ~broken' => LastChunkInv'
    BY <1>7, <1>8, <1>9 DEF LastChunkInv, NextUnit
  <2> QED
    BY <1>9, <2>1, <2>2, <2>3 DEF LastChunkInv
<1>10. CASE /\ err = "nil" /\ err' = "nil" /\ broken' = broken
            /\ file' = Append(file, c) /\ file' # <<>> /\ Last(file') = c
  <2>1. ErrorInv'
    BY <1>1, <1>2, <1>3, <1>8, <1>10 DEF ErrorInv
  <2>2. File!Complete' => step' = "return"
    BY <1>10, FileTerms
  <2> QED
    BY <1>3, <1>10, <2>1, <2>2
<1>11. CASE /\ err = "nil" /\ err' = "write error" /\ broken'
            /\ \/ file' = file
               \/ \E n \in 1..2 :
                    /\ file' = Append(file, [c EXCEPT !.parts = n])
                    /\ file' # <<>> /\ Last(file').type = c.type
                    /\ Last(file').parts = n
  <2>1. ErrorInv'
    BY <1>1, <1>2, <1>8, <1>11 DEF ErrorInv
  <2>2. ~File!Complete'
    <3>1. CASE file' = file
      BY <1>2, <3>1, FileTerms
    <3>2. CASE file' # <<>> /\ Last(file').parts \in 1..2
      BY <3>2, FileTerms
    <3> QED
      BY <1>11, <3>1, <3>2
  <2> QED
    BY <1>11, <2>1, <2>2
<1> QED
  BY <1>1, <1>9, <1>10, <1>11, ChunkOutcome

LEMMA EncodeStep ==
  ASSUME EncoderInv, Encode
  PROVE  EncoderInv' /\ [File!Next]_<<img, file, encoded>>
<1>1. EncoderTypeOK /\ ErrorInv /\ FileInv
  BY DEF EncoderInv
<1>2. /\ step = "Encode" /\ file = <<>> /\ encoded = "none" /\ bw = <<>> /\ y = 0
      /\ broken = FALSE /\ bwErr = "nil" /\ img.rows \in Nat
      /\ UNCHANGED <<img, zbuf, bw, bwErr, y>>
  BY <1>1, ImageFields, Zenon DEF Encode, ErrorInv, FileInv, EncoderTypeOK, buffers
<1>3. CASE img.rows = 0
  <2>1. encoded' = "FormatError" /\ step' = "done" /\ UNCHANGED <<file, err, broken>>
    BY <1>3 DEF Encode
  <2>2. ~File!Complete /\ ~File!Complete'
    BY <1>2, <2>1, FileTerms
  <2>3. EncoderTypeOK'
    BY <1>1, <1>2, <2>1 DEF EncoderTypeOK
  <2>4. ErrorInv'
    BY <1>1, <1>2, <1>3, <2>1 DEF ErrorInv
  <2>5. FileInv'
    BY <1>1, <1>2, <1>3, <2>1, <2>2 DEF FileInv, BufferInv
  <2>6. File!Return
    BY <1>2, <2>1, <2>2 DEF File!Return
  <2> QED
    BY <2>3, <2>4, <2>5, <2>6 DEF EncoderInv, File!Next
<1>4. CASE img.rows > 0
  <2>. DEFINE c == Chunk("signature", 8, <<>>)
  <2>. DEFINE Good == file' = <<c>> /\ err' = "nil" /\ UNCHANGED broken
              Bad == err' = "write error" /\ broken' = TRUE /\ UNCHANGED file
  <2>0. step' = "IHDR" /\ encoded' = encoded /\ (Good \/ Bad)
    <3>1. img.rows # 0
      BY <1>4
    <3> QED
      BY <3>1, Zenon DEF Encode
  <2>1. CASE Good
    <3>1. c \in ChunkType /\ c.type = "signature" /\ c.parts = 3
      <4>1. "signature" \in ChunkTypes /\ 8 \in Nat
        BY DEF ChunkTypes
      <4> QED
        BY <4>1, PlainChunk
    <3>2. file' \in Seq(ChunkType) /\ file' # <<>> /\ Last(file') = c /\ file' = Append(file, c)
      BY <1>2, <2>1, <3>1 DEF Last
    <3>3. ~File!Complete'
      BY <3>1, <3>2, FileTerms
    <3>4. EncoderTypeOK'
      BY <1>1, <1>2, <2>0, <2>1, <3>2 DEF EncoderTypeOK, ChunkType, ChunkTypes
    <3>5. ErrorInv'
      BY <1>1, <1>2, <2>0, <2>1 DEF ErrorInv
    <3>6. LastChunkInv'
      BY <2>0, <3>1, <3>2 DEF LastChunkInv
    <3>7. FileInv'
      BY <1>1, <1>2, <1>4, <2>0, <3>3, <3>6 DEF FileInv, BufferInv
    <3>8. File!Write
      <4>1. ~File!Torn /\ ~File!Complete
        BY <1>2, FileTerms
      <4>2. c \in File!Following
        <5>1. File!Following = {File!Chunk("signature", 8, <<>>)}
          BY <1>2 DEF File!Following
        <5> QED
          BY <5>1 DEF File!Chunk, Chunk
      <4>3. 3 \in 1..3 /\ [c EXCEPT !.parts = 3] = c
        BY <3>1, WholeChunk
      <4> QED
        BY <1>2, <2>0, <3>2, <4>1, <4>2, <4>3 DEF File!Write
    <3> QED
      BY <3>4, <3>5, <3>7, <3>8 DEF EncoderInv, File!Next
  <2>2. CASE Bad
    <3>1. ~File!Complete'
      BY <1>2, <2>2, FileTerms
    <3>2. EncoderTypeOK'
      BY <1>1, <1>2, <2>0, <2>2 DEF EncoderTypeOK
    <3>3. ErrorInv'
      BY <1>1, <1>2, <2>0, <2>2 DEF ErrorInv
    <3>4. FileInv'
      BY <1>1, <1>2, <1>4, <2>0, <2>2, <3>1 DEF FileInv, BufferInv
    <3> QED
      BY <1>2, <2>0, <2>2, <3>2, <3>3, <3>4 DEF EncoderInv
  <2> QED
    BY <2>0, <2>1, <2>2
<1> QED
  BY <1>2, <1>3, <1>4

LEMMA writeIHDRStep ==
  ASSUME EncoderInv, writeIHDR
  PROVE  EncoderInv' /\ [File!Next]_<<img, file, encoded>>
<1>. DEFINE c == Chunk("IHDR", 13, <<>>)
<1>1. EncoderTypeOK /\ ErrorInv /\ FileInv
  BY DEF EncoderInv
<1>2. /\ step = "IHDR" /\ writeChunk(c) /\ UNCHANGED <<img, encoded, buffers>>
      /\ step' = IF img.palette = -1 THEN "IDATs" ELSE "PLTE"
  BY DEF writeIHDR
<1>3. c \in ChunkType /\ c.type = "IHDR" /\ c.parts = 3
  <2>1. "IHDR" \in ChunkTypes /\ 13 \in Nat
    BY DEF ChunkTypes
  <2> QED
    BY <2>1, PlainChunk
<1>4. err = "nil" => c \in File!Following
  BY <1>1, <1>2, NotTorn, FollowingOf DEF LastChunkInv, FileInv, NextUnit
<1>5. /\ [File!Next]_<<img, file, encoded>> /\ EncoderTypeOK' /\ ErrorInv'
      /\ File!Complete' => step' = "return" /\ err' = "nil" /\ ~broken'
      /\ ~broken' => /\ file' # <<>> /\ Last(file').parts = 3
                     /\ err' = "nil" => Last(file') = c
                     /\ err' # "nil" => LastChunkInv'
  BY <1>2, <1>3, <1>4, ChunkStep
<1>6. ~broken' => LastChunkInv'
  BY <1>2, <1>3, <1>5 DEF LastChunkInv
<1>7. FileInv'
  BY <1>1, <1>2, <1>5, <1>6 DEF FileInv, BufferInv, buffers
<1> QED
  BY <1>5, <1>7 DEF EncoderInv

LEMMA writePLTEChunk ==
  ASSUME EncoderInv, writePLTE, img.palette \in 1..256
  PROVE  EncoderInv' /\ [File!Next]_<<img, file, encoded>>
<1>. DEFINE c == Chunk("PLTE", 3 * img.palette, <<>>)
<1>1. EncoderTypeOK /\ ErrorInv /\ FileInv
  BY DEF EncoderInv
<1>2. /\ step = "PLTE" /\ writeChunk(c) /\ UNCHANGED <<img, encoded, buffers>>
      /\ step' = IF img.alphas = 0 THEN "IDATs" ELSE "tRNS"
  BY DEF writePLTE
<1>2a. img.palette \in Int /\ img.alphas \in Nat
  <2>1. img \in Images
    BY <1>1 DEF EncoderTypeOK
  <2> QED
    BY <2>1, ImageFields
<1>3. c \in ChunkType /\ c.type = "PLTE" /\ c.parts = 3
  <2>1. "PLTE" \in ChunkTypes /\ 3 * img.palette \in Nat
    BY <1>2a, img.palette \in 1..256 DEF ChunkTypes
  <2> QED
    BY <2>1, PlainChunk
<1>4. err = "nil" => c \in File!Following
  BY <1>1, <1>2, NotTorn, FollowingOf DEF LastChunkInv, FileInv, NextUnit
<1>5. /\ [File!Next]_<<img, file, encoded>> /\ EncoderTypeOK' /\ ErrorInv'
      /\ File!Complete' => step' = "return" /\ err' = "nil" /\ ~broken'
      /\ ~broken' => /\ file' # <<>> /\ Last(file').parts = 3
                     /\ err' = "nil" => Last(file') = c
                     /\ err' # "nil" => LastChunkInv'
  BY <1>2, <1>3, <1>4, ChunkStep
<1>6. ~broken' => LastChunkInv'
  BY <1>2, <1>3, <1>5 DEF LastChunkInv
<1>7. FileInv'
  BY <1>1, <1>2, <1>5, <1>6 DEF FileInv, BufferInv, buffers
<1> QED
  BY <1>5, <1>7 DEF EncoderInv

LEMMA writePLTEStep ==
  ASSUME EncoderInv, writePLTE
  PROVE  EncoderInv' /\ [File!Next]_<<img, file, encoded>>
<1>1. CASE img.palette \in 1..256
  BY <1>1, writePLTEChunk
<1>2. CASE img.palette \notin 1..256
  <2>1. EncoderTypeOK /\ ErrorInv /\ FileInv
    BY DEF EncoderInv
  <2>2. /\ step = "PLTE" /\ step' = "IDATs" /\ err' = "FormatError"
        /\ UNCHANGED <<img, file, encoded, broken, zbuf, bw, bwErr, y>>
    BY <1>2 DEF writePLTE, buffers
  <2>3. EncoderTypeOK'
    BY <2>1, <2>2 DEF EncoderTypeOK
  <2>4. ErrorInv'
    BY <2>1, <2>2 DEF ErrorInv
  <2>5. ~File!Complete'
    BY <2>1, <2>2, FileTerms DEF FileInv
  <2>6. ~broken' => LastChunkInv'
    BY <2>1, <2>2 DEF FileInv, LastChunkInv, NextUnit
  <2>7. FileInv'
    BY <2>1, <2>2, <2>5, <2>6 DEF FileInv, BufferInv
  <2> QED
    BY <2>2, <2>3, <2>4, <2>7 DEF EncoderInv
<1> QED
  BY <1>1, <1>2

LEMMA writeTRNSStep ==
  ASSUME EncoderInv, writeTRNS
  PROVE  EncoderInv' /\ [File!Next]_<<img, file, encoded>>
<1>. DEFINE c == Chunk("tRNS", img.alphas, <<>>)
<1>1. EncoderTypeOK /\ ErrorInv /\ FileInv
  BY DEF EncoderInv
<1>2. /\ step = "tRNS" /\ writeChunk(c) /\ UNCHANGED <<img, encoded, buffers>>
      /\ step' = "IDATs"
  BY DEF writeTRNS
<1>2a. img.palette \in Int /\ img.alphas \in Nat
  <2>1. img \in Images
    BY <1>1 DEF EncoderTypeOK
  <2> QED
    BY <2>1, ImageFields
<1>3. c \in ChunkType /\ c.type = "tRNS" /\ c.parts = 3
  <2>1. "tRNS" \in ChunkTypes /\ img.alphas \in Nat
    BY <1>2a DEF ChunkTypes
  <2> QED
    BY <2>1, PlainChunk
<1>4. err = "nil" => c \in File!Following
  BY <1>1, <1>2, NotTorn, FollowingOf DEF LastChunkInv, FileInv, NextUnit
<1>5. /\ [File!Next]_<<img, file, encoded>> /\ EncoderTypeOK' /\ ErrorInv'
      /\ File!Complete' => step' = "return" /\ err' = "nil" /\ ~broken'
      /\ ~broken' => /\ file' # <<>> /\ Last(file').parts = 3
                     /\ err' = "nil" => Last(file') = c
                     /\ err' # "nil" => LastChunkInv'
  BY <1>2, <1>3, <1>4, ChunkStep
<1>6. ~broken' => LastChunkInv'
  BY <1>2, <1>3, <1>5 DEF LastChunkInv
<1>7. FileInv'
  BY <1>1, <1>2, <1>5, <1>6 DEF FileInv, BufferInv, buffers
<1> QED
  BY <1>5, <1>7 DEF EncoderInv

LEMMA writeIENDStep ==
  ASSUME EncoderInv, writeIEND
  PROVE  EncoderInv' /\ [File!Next]_<<img, file, encoded>>
<1>. DEFINE c == Chunk("IEND", 0, <<>>)
<1>1. EncoderTypeOK /\ ErrorInv /\ FileInv
  BY DEF EncoderInv
<1>2. /\ step = "IEND" /\ writeChunk(c) /\ UNCHANGED <<img, encoded, buffers>>
      /\ step' = "return"
  BY DEF writeIEND
<1>3. c \in ChunkType /\ c.type = "IEND" /\ c.parts = 3
  <2>1. "IEND" \in ChunkTypes /\ 0 \in Nat
    BY DEF ChunkTypes
  <2> QED
    BY <2>1, PlainChunk
<1>4. err = "nil" => c \in File!Following
  <2>. SUFFICES ASSUME err = "nil" PROVE c \in File!Following
    OBVIOUS
  <2>1. LastChunkInv /\ file # <<>> /\ img \in Images
    BY <1>1, <1>2, NotTorn DEF EncoderTypeOK
  <2>2. Last(file).type = "IDAT" /\ Last(Last(file).units) = img.rows + 1
    BY <1>2, <2>1, ImageFields DEF LastChunkInv, NextUnit
  <2> QED
    BY <2>1, <2>2, FollowingOf
<1>5. /\ [File!Next]_<<img, file, encoded>> /\ EncoderTypeOK' /\ ErrorInv'
      /\ File!Complete' => step' = "return" /\ err' = "nil" /\ ~broken'
      /\ ~broken' => /\ file' # <<>> /\ Last(file').parts = 3
                     /\ err' = "nil" => Last(file') = c
                     /\ err' # "nil" => LastChunkInv'
  BY <1>2, <1>3, <1>4, ChunkStep
<1>6. ~broken' => LastChunkInv'
  BY <1>2, <1>3, <1>5 DEF LastChunkInv
<1>7. FileInv'
  BY <1>1, <1>2, <1>5, <1>6 DEF FileInv, BufferInv, buffers
<1> QED
  BY <1>5, <1>7 DEF EncoderInv

LEMMA writeIDATsStep ==
  ASSUME EncoderInv, writeIDATs
  PROVE  EncoderInv' /\ [File!Next]_<<img, file, encoded>>
<1>1. EncoderTypeOK /\ ErrorInv /\ FileInv
  BY DEF EncoderInv
<1>2. step = "IDATs" /\ UNCHANGED <<img, file, encoded, err, bw, bwErr, y, broken>>
  BY DEF writeIDATs, outside
<1>3. ~File!Complete'
  BY <1>1, <1>2, FileTerms DEF FileInv
<1>4. CASE err # "nil" /\ step' = "IEND" /\ UNCHANGED zbuf
  <2>1. EncoderTypeOK'
    BY <1>1, <1>2, <1>4 DEF EncoderTypeOK
  <2>2. ErrorInv'
    BY <1>1, <1>2, <1>4 DEF ErrorInv
  <2>3. ~broken' => LastChunkInv'
    BY <1>1, <1>2, <1>4 DEF FileInv, LastChunkInv
  <2>4. FileInv'
    BY <1>1, <1>2, <1>3, <1>4, <2>3 DEF FileInv, BufferInv
  <2> QED
    BY <1>2, <2>1, <2>2, <2>4 DEF EncoderInv
<1>5. CASE err = "nil" /\ step' = "row" /\ zbuf' = <<0>>
  <2>1. <<0>> \in Seq(Nat) /\ Len(<<0>>) = 1
    OBVIOUS
  <2>2. EncoderTypeOK'
    BY <1>1, <1>2, <1>5, <2>1 DEF EncoderTypeOK
  <2>3. LastChunkInv /\ ~broken
    BY <1>2, <1>5, NotTorn
  <2>4. ErrorInv'
    BY <1>1, <1>2, <1>5, <2>3 DEF ErrorInv
  <2>5. LastChunkInv' /\ Last(file).type # "IDAT"
    BY <1>2, <1>5, <2>3 DEF LastChunkInv
  <2>6. NextUnit' = 0 /\ bw' = <<>> /\ y' = 0
    BY <1>1, <1>2, <2>5 DEF NextUnit, FileInv, BufferInv
  <2>7. Contiguous(1)'
    <3>1. <<0>> = Run(0, 1) /\ <<>> = Run(0, 0) /\ 0 \in Nat
      <4>1. 0 \in Nat
        OBVIOUS
      <4> QED
        BY <4>1, RunLemma
    <3>2. Len(<<>>) = 0 /\ 0 + 0 = 0 /\ 0 + 0 + 1 = 1
      OBVIOUS
    <3> QED
      BY <1>5, <2>1, <2>6, <3>1, <3>2 DEF Contiguous
  <2>8. y' + 1 = 1
    BY <2>6
  <2>9. Contiguous(y + 1)'
    BY <2>7, <2>8 DEF Contiguous
  <2>10. FileInv'
    BY <1>1, <1>2, <1>3, <1>5, <2>5, <2>9 DEF FileInv, BufferInv
  <2> QED
    BY <1>2, <2>2, <2>4, <2>10 DEF EncoderInv
<1> QED
  BY <1>4, <1>5 DEF writeIDATs

LEMMA writeRowStep ==
  ASSUME EncoderInv, writeRow
  PROVE  EncoderInv' /\ [File!Next]_<<img, file, encoded>>
<1>1. EncoderTypeOK /\ ErrorInv /\ FileInv
  BY DEF EncoderInv
<1>2. /\ step = "row" /\ zbuf' = Append(zbuf, y + 1)
      /\ UNCHANGED <<img, file, encoded, err, bw, bwErr, broken>>
  BY DEF writeRow, outside
<1>3. ~broken /\ LastChunkInv
  BY <1>1, <1>2 DEF ErrorInv, FileInv
<1>4. img.rows \in Nat
  <2>1. img \in Images
    BY <1>1 DEF EncoderTypeOK
  <2> QED
    BY <2>1, ImageFields
<1>5. /\ y \in 0..img.rows /\ zbuf \in Seq(Nat) /\ bw \in Seq(Nat)
  BY <1>1 DEF EncoderTypeOK
<1>6. /\ y + 1 \in Nat /\ Len(bw) \in Nat /\ Len(zbuf) \in Nat
  BY <1>4, <1>5
<1>7. zbuf' \in Seq(Nat) /\ Len(zbuf') = Len(zbuf) + 1
  BY <1>2, <1>5, <1>6, AppendProperties
<1>8. NextUnit \in Nat /\ NextUnit' = NextUnit
  BY <1>2, <1>3, <1>4 DEF LastChunkInv, NextUnit
<1>9. Contiguous(y + 1)
  BY <1>1, <1>2 DEF FileInv, BufferInv
<1>10. PICK e : e = y + 2
  OBVIOUS
<1>11. Contiguous(e)'
  <2>. DEFINE from == NextUnit + Len(bw)
  <2>1. from \in Nat /\ from + Len(zbuf) = y + 1 /\ zbuf = Run(from, Len(zbuf))
    BY <1>6, <1>8, <1>9 DEF Contiguous
  <2>2. zbuf' = Run(from, Len(zbuf'))
    <3>1. Append(Run(from, Len(zbuf)), from + Len(zbuf)) = Run(from, Len(zbuf) + 1)
      BY <1>6, <2>1, RunLemma
    <3> QED
      BY <1>2, <1>7, <2>1, <3>1
  <2>3. from + Len(zbuf') = e
    BY <1>5, <1>6, <1>7, <1>10, <2>1
  <2>4. /\ bw = Run(NextUnit, Len(bw)) /\ (NextUnit # 0 => bw # <<>>)
    BY <1>9 DEF Contiguous
  <2> QED
    BY <1>2, <1>8, <2>2, <2>3, <2>4 DEF Contiguous
<1>12. ~File!Complete'
  BY <1>1, <1>2, FileTerms DEF FileInv
<1>13. CASE y < img.rows /\ y' = y + 1 /\ step' = "Write"
  <2>1. EncoderTypeOK'
    <3>1. y' \in 0..img.rows
      BY <1>4, <1>5, <1>13
    <3> QED
      BY <1>1, <1>2, <1>7, <1>13, <3>1 DEF EncoderTypeOK
  <2>2. ErrorInv'
    BY <1>1, <1>2, <1>3, <1>13 DEF ErrorInv
  <2>3. LastChunkInv'
    BY <1>1, <1>2, <1>3, <1>8, <1>13 DEF LastChunkInv
  <2>4. e = y' + 1
    BY <1>5, <1>10, <1>13
  <2>5. Contiguous(y + 1)'
    BY <1>11, <2>4
  <2>6. FileInv'
    BY <1>1, <1>2, <1>12, <1>13, <2>3, <2>5 DEF FileInv, BufferInv
  <2> QED
    BY <1>2, <2>1, <2>2, <2>6 DEF EncoderInv
<1>14. CASE y = img.rows /\ y' = y /\ step' = "Close"
  <2>1. EncoderTypeOK'
    BY <1>1, <1>2, <1>4, <1>7, <1>14 DEF EncoderTypeOK
  <2>2. ErrorInv'
    BY <1>1, <1>2, <1>3, <1>14 DEF ErrorInv
  <2>3. LastChunkInv'
    BY <1>1, <1>2, <1>3, <1>8, <1>14 DEF LastChunkInv
  <2>4. e = img'.rows + 2
    BY <1>2, <1>5, <1>10, <1>14
  <2>5. Contiguous(img.rows + 2)'
    BY <1>11, <2>4
  <2>6. FileInv'
    BY <1>1, <1>2, <1>12, <1>14, <2>3, <2>5 DEF FileInv, BufferInv
  <2> QED
    BY <1>2, <2>1, <2>2, <2>6 DEF EncoderInv
<1> QED
  BY <1>2, <1>13, <1>14 DEF writeRow

LEMMA WrittenStep ==
  ASSUME EncoderInv, Written
  PROVE  EncoderInv' /\ [File!Next]_<<img, file, encoded>>
<1>1. EncoderTypeOK /\ ErrorInv /\ FileInv
  BY DEF EncoderInv
<1>2. /\ step = "Write" /\ step' = "row"
      /\ UNCHANGED <<img, file, encoded, err, zbuf, bw, bwErr, y, broken>>
  BY DEF Written, outside, buffers
<1>3. ~broken /\ LastChunkInv
  BY <1>1, <1>2 DEF ErrorInv, FileInv
<1>4. ~File!Complete'
  BY <1>1, <1>2, FileTerms DEF FileInv
<1>5. EncoderTypeOK'
  BY <1>1, <1>2 DEF EncoderTypeOK
<1>6. ErrorInv'
  BY <1>1, <1>2, <1>3 DEF ErrorInv
<1>7. LastChunkInv'
  BY <1>1, <1>2, <1>3 DEF LastChunkInv
<1>8. Contiguous(y + 1)'
  BY <1>1, <1>2 DEF FileInv, BufferInv, Contiguous, NextUnit
<1>9. FileInv'
  BY <1>1, <1>2, <1>4, <1>7, <1>8 DEF FileInv, BufferInv
<1> QED
  BY <1>2, <1>5, <1>6, <1>9 DEF EncoderInv

LEMMA EncodeReturnsStep ==
  ASSUME EncoderInv, EncodeReturns
  PROVE  EncoderInv' /\ [File!Next]_<<img, file, encoded>>
<1>1. EncoderTypeOK /\ ErrorInv /\ FileInv
  BY DEF EncoderInv
<1>2. /\ step = "return" /\ encoded' = err /\ step' = "done" /\ encoded = "none"
      /\ UNCHANGED <<img, file, err, zbuf, bw, bwErr, y, broken>>
  BY <1>1 DEF EncodeReturns, ErrorInv, buffers
<1>3. img.rows > 0 /\ img.rows # 0
  <2>1. img \in Images /\ img.rows > 0
    BY <1>1, <1>2 DEF EncoderTypeOK, FileInv
  <2> QED
    BY <2>1, ImageFields
<1>4. File!Complete <=> err = "nil"
  <2>1. ASSUME err = "nil" PROVE File!Complete
    <3>1. LastChunkInv /\ ~File!Torn
      BY <1>2, <2>1, NotTorn
    <3> QED
      BY <1>2, <2>1, <3>1, FileTerms DEF LastChunkInv
  <2> QED
    BY <1>1, <2>1 DEF FileInv
<1>5. File!Complete' <=> File!Complete
  BY <1>2, FileTerms
<1>6. EncoderTypeOK'
  BY <1>1, <1>2 DEF EncoderTypeOK
<1>7. ErrorInv'
  <2>1. err # "none"
    BY <1>1 DEF EncoderTypeOK
  <2> QED
    BY <1>1, <1>2, <1>3, <2>1 DEF ErrorInv
<1>8. FileInv'
  BY <1>1, <1>2, <1>4, <1>5 DEF FileInv, BufferInv
<1>9. File!Return
  <2>1. encoded' \in {"nil", "FormatError", "write error"}
    BY <1>1, <1>2 DEF EncoderTypeOK
  <2> QED
    BY <1>2, <1>4, <2>1 DEF File!Return
<1> QED
  BY <1>6, <1>7, <1>8, <1>9 DEF EncoderInv, File!Next

\* bw goes to the file as a chunk.
LEMMA BufferWritten ==
  ASSUME EncoderInv, step \in {"Write", "Close", "Flush"}, ~broken,
         NEW e \in Nat, e <= img.rows + 2, Contiguous(e), bw # <<>>,
         writeChunk(Chunk("IDAT", Len(bw), bw)), UNCHANGED <<img, encoded>>
  PROVE  /\ [File!Next]_<<img, file, encoded>>
         /\ file' \in Seq(ChunkType) /\ broken' \in BOOLEAN /\ ~File!Complete'
         /\ \/ /\ err' = "nil" /\ ~broken' /\ file' # <<>> /\ Last(file').parts = 3
               /\ Last(file').type = "IDAT"
               /\ Last(Last(file').units) = NextUnit + Len(bw) - 1
               /\ Last(Last(file').units) \in 0..(img.rows + 1)
            \/ err' = "write error" /\ broken'
<1>. DEFINE c == Chunk("IDAT", Len(bw), bw)
<1>1. EncoderTypeOK /\ ErrorInv /\ FileInv
  BY DEF EncoderInv
<1>2. /\ err = "nil" /\ LastChunkInv /\ encoded = "none" /\ ~File!Complete
      /\ file # <<>> /\ ~File!Torn
  <2>1. err = "nil" /\ LastChunkInv /\ encoded = "none" /\ ~File!Complete
    BY <1>1 DEF ErrorInv, FileInv
  <2> QED
    BY <2>1, FileTerms DEF LastChunkInv
<1>3. img \in Images /\ img.rows \in Nat
  <2>1. img \in Images
    BY <1>1 DEF EncoderTypeOK
  <2> QED
    BY <2>1, ImageFields
<1>4. bw \in Seq(Nat) /\ Len(bw) \in Nat /\ Len(bw) > 0 /\ zbuf \in Seq(Nat) /\ Len(zbuf) \in Nat
  <2>1. bw \in Seq(Nat) /\ zbuf \in Seq(Nat)
    BY <1>1 DEF EncoderTypeOK
  <2> QED
    BY <2>1
<1>5. NextUnit \in Nat
  BY <1>2, <1>3 DEF LastChunkInv, NextUnit
<1>6. c \in ChunkType /\ c.type = "IDAT" /\ c.units = bw /\ c.parts = 3
  <2>1. "IDAT" \in ChunkTypes
    BY DEF ChunkTypes
  <2> QED
    BY <1>4, <2>1, ChunkFields
<1>7. bw = Run(NextUnit, Len(bw)) /\ Last(bw) = NextUnit + Len(bw) - 1
  <2>1. bw = Run(NextUnit, Len(bw))
    BY DEF Contiguous
  <2>2. Last(Run(NextUnit, Len(bw))) = NextUnit + Len(bw) - 1
    BY <1>4, <1>5, RunLemma
  <2> QED
    BY <2>1, <2>2, Zenon
<1>8. NextUnit + Len(bw) <= img.rows + 2 /\ Len(bw) \in 1..(img.rows + 2 - NextUnit)
  BY <1>3, <1>4, <1>5 DEF Contiguous
<1>9. c \in File!Following
  <2>1. File!Following = File!IDATs(NextUnit)
    <3>1. CASE Last(file).type # "IDAT"
      <4>1. NextUnit = 0
        BY <3>1 DEF NextUnit
      <4>2. \/ Last(file).type = "IHDR" /\ img.palette = -1
            \/ Last(file).type = "PLTE" /\ img.alphas = 0
            \/ Last(file).type = "tRNS"
        BY <1>2, <3>1 DEF LastChunkInv
      <4> QED
        BY <1>2, <4>1, <4>2, FollowingOf
    <3>2. CASE Last(file).type = "IDAT"
      <4>1. NextUnit = Last(Last(file).units) + 1 /\ Last(Last(file).units) # img.rows + 1
        BY <1>2, <1>3, <1>4, <1>8, <3>2 DEF NextUnit, LastChunkInv
      <4> QED
        BY <1>2, <3>2, <4>1, FollowingOf
    <3> QED
      BY <3>1, <3>2
  <2>2. c = File!Chunk("IDAT", Len(bw), [k \in 1..Len(bw) |-> NextUnit + k - 1])
    BY <1>7 DEF File!Chunk, Chunk, Run
  <2>3. File!LastUnit + 1 - NextUnit = img.rows + 2 - NextUnit
    BY <1>3, <1>5 DEF File!LastUnit
  <2> QED
    BY <1>8, <2>1, <2>2, <2>3 DEF File!IDATs
<1>10. [File!Next]_<<img, file, encoded>>
  BY <1>1, <1>2, <1>6, <1>9, ChunkRefines
<1>11. file' \in Seq(ChunkType) /\ broken' \in BOOLEAN
  BY <1>1, <1>6, ChunkOutcome
<1>12. \/ err' = "nil" /\ broken' = broken /\ file' # <<>> /\ Last(file') = c
       \/ /\ err' = "write error" /\ broken'
          /\ file' = file \/ (file' # <<>> /\ Last(file').parts \in 1..2)
  BY <1>1, <1>2, <1>6, ChunkOutcome
<1>13. ~File!Complete'
  <2>1. CASE file' = file
    BY <1>2, <2>1, FileTerms
  <2>2. CASE file' # <<>> /\ Last(file').parts \in 1..2
    BY <2>2, FileTerms
  <2>3. CASE file' # <<>> /\ Last(file') = c
    BY <1>6, <2>3, FileTerms
  <2> QED
    BY <1>12, <2>1, <2>2, <2>3
<1>14. Last(bw) \in 0..(img.rows + 1)
  BY <1>3, <1>4, <1>5, <1>7, <1>8
<1>15. CASE err' = "nil" /\ broken' = broken /\ file' # <<>> /\ Last(file') = c
  BY <1>6, <1>7, <1>10, <1>11, <1>13, <1>14, <1>15
<1>16. CASE err' = "write error" /\ broken'
  BY <1>10, <1>11, <1>13, <1>16
<1> QED
  BY <1>12, <1>15, <1>16

\* bw takes zlib's next unit.
LEMMA BufferStep ==
  ASSUME EncoderInv, step \in {"Write", "Close"}, ~broken,
         NEW e \in Nat, e <= img.rows + 2, Contiguous(e), zbuf # <<>>,
         Buffer(Head(zbuf)), zbuf' = Tail(zbuf), UNCHANGED <<img, encoded, y>>,
         bwErr' = "nil" => step' = step
  PROVE  /\ [File!Next]_<<img, file, encoded>>
         /\ file' \in Seq(ChunkType) /\ ~File!Complete'
         /\ zbuf' \in Seq(Nat) /\ bw' \in Seq(Nat) /\ Len(bw') <= WriterBuffer
         /\ \/ /\ err' = "nil" /\ bwErr' = "nil" /\ broken' = FALSE /\ Contiguous(e)'
               /\ LastChunkInv'
            \/ err' = "write error" /\ bwErr' = "write error" /\ broken' = TRUE
<1>1. EncoderTypeOK /\ ErrorInv /\ FileInv
  BY DEF EncoderInv
<1>2. img.rows \in Nat /\ bwErr = "nil" /\ err = "nil" /\ ~File!Complete /\ LastChunkInv
      /\ broken = FALSE
  <2>1. img \in Images /\ bwErr = "nil" /\ err = "nil" /\ ~File!Complete /\ LastChunkInv
    BY <1>1 DEF EncoderTypeOK, ErrorInv, FileInv
  <2>2. broken = FALSE
    BY <1>1, Zenon DEF EncoderTypeOK
  <2> QED
    BY <2>1, <2>2, ImageFields
<1>3. /\ bw \in Seq(Nat) /\ Len(bw) \in Nat /\ zbuf \in Seq(Nat) /\ Len(zbuf) \in Nat
      /\ Len(zbuf) > 0 /\ WriterBuffer \in Nat \ {0} /\ Len(bw) <= WriterBuffer
  <2>1. bw \in Seq(Nat) /\ zbuf \in Seq(Nat) /\ Len(bw) <= WriterBuffer
    BY <1>1 DEF EncoderTypeOK
  <2> QED
    BY <2>1, EncoderAssumption
<1>4. NextUnit \in Nat
  BY <1>2 DEF LastChunkInv, NextUnit
<1>. DEFINE u == NextUnit + Len(bw)
<1>5. u \in Nat /\ u + Len(zbuf) = e /\ bw = Run(NextUnit, Len(bw)) /\ zbuf = Run(u, Len(zbuf))
  BY <1>3, <1>4 DEF Contiguous
<1>6. Head(zbuf) = u /\ Tail(zbuf) = Run(u + 1, Len(zbuf) - 1)
  <2>1. Head(Run(u, Len(zbuf))) = u /\ Tail(Run(u, Len(zbuf))) = Run(u + 1, Len(zbuf) - 1)
    BY <1>3, <1>5, RunLemma
  <2> QED
    BY <1>5, <2>1, Zenon
<1>7. zbuf' \in Seq(Nat) /\ Len(zbuf') = Len(zbuf) - 1 /\ zbuf' = Run(u + 1, Len(zbuf'))
  BY <1>3, <1>6, HeadTailProperties
<1>8. CASE Len(bw) < WriterBuffer
  <2>1. bw' = Append(bw, u) /\ UNCHANGED <<file, err, broken, bwErr>>
    BY <1>6, <1>8 DEF Buffer
  <2>2. bw' \in Seq(Nat) /\ Len(bw') = Len(bw) + 1 /\ bw' # <<>>
    BY <1>3, <1>5, <2>1, AppendProperties
  <2>3. bw' = Run(NextUnit, Len(bw'))
    <3>1. Append(Run(NextUnit, Len(bw)), NextUnit + Len(bw)) = Run(NextUnit, Len(bw) + 1)
      BY <1>3, <1>4, RunLemma
    <3> QED
      BY <1>5, <2>1, <2>2, <3>1
  <2>4. NextUnit' = NextUnit
    BY <2>1 DEF NextUnit
  <2>5. NextUnit + Len(bw') = u + 1 /\ NextUnit + Len(bw') + Len(zbuf') = e
    <3>1. u + Len(zbuf) = e /\ Len(zbuf') = Len(zbuf) - 1 /\ Len(bw') = Len(bw) + 1
      BY <1>5, <1>7, <2>2
    <3>2. \A p, q, r \in Nat : (p + q) + r = e =>
            p + (q + 1) = (p + q) + 1 /\ (p + (q + 1)) + (r - 1) = e
      OBVIOUS
    <3>3. /\ NextUnit + (Len(bw) + 1) = (NextUnit + Len(bw)) + 1
          /\ (NextUnit + (Len(bw) + 1)) + (Len(zbuf) - 1) = e
      BY <1>3, <1>4, <3>1, <3>2, Zenon
    <3> QED
      BY <3>1, <3>3, Zenon
  <2>6. Contiguous(e)'
    BY <1>7, <2>2, <2>3, <2>4, <2>5 DEF Contiguous
  <2>7. LastChunkInv'
    BY <1>2, <2>1, <2>4 DEF LastChunkInv
  <2>8. ~File!Complete' /\ file' \in Seq(ChunkType)
    BY <1>1, <1>2, <2>1, FileTerms DEF EncoderTypeOK, ChunkType, ChunkTypes
  <2>9. Len(bw') <= WriterBuffer
    BY <1>3, <1>8, <2>2
  <2> QED
    BY <1>2, <1>7, <2>1, <2>2, <2>6, <2>7, <2>8, <2>9
<1>9. CASE ~(Len(bw) < WriterBuffer)
  <2>1. /\ writeChunk(Chunk("IDAT", Len(bw), bw)) /\ bwErr' = err' /\ bw' = <<u>>
    BY <1>6, <1>9 DEF Buffer
  <2>2. bw # <<>>
    BY <1>3, <1>9
  <2>3. /\ [File!Next]_<<img, file, encoded>>
        /\ file' \in Seq(ChunkType) /\ broken' \in BOOLEAN /\ ~File!Complete'
        /\ \/ /\ err' = "nil" /\ ~broken' /\ file' # <<>> /\ Last(file').parts = 3
              /\ Last(file').type = "IDAT"
              /\ Last(Last(file').units) = NextUnit + Len(bw) - 1
              /\ Last(Last(file').units) \in 0..(img.rows + 1)
           \/ err' = "write error" /\ broken'
    BY <2>1, <2>2, BufferWritten
  <2>4. bw' \in Seq(Nat) /\ Len(bw') = 1 /\ bw' # <<>> /\ bw' = Run(u, 1)
    BY <1>5, <2>1, RunLemma
  <2>5. Len(bw') <= WriterBuffer
    BY <1>3, <2>4
  <2>6. CASE /\ err' = "nil" /\ ~broken' /\ file' # <<>> /\ Last(file').parts = 3
             /\ Last(file').type = "IDAT"
             /\ Last(Last(file').units) = NextUnit + Len(bw) - 1
             /\ Last(Last(file').units) \in 0..(img.rows + 1)
    <3>1. NextUnit' = u
      BY <1>3, <1>4, <2>6 DEF NextUnit
    <3>2. u + Len(bw') = u + 1 /\ u + Len(bw') + Len(zbuf') = e
      BY <1>3, <1>5, <1>7, <2>4
    <3>3. Contiguous(e)'
      BY <1>7, <2>4, <3>1, <3>2 DEF Contiguous
    <3>4. step' \in {"Write", "Close"}
      BY <2>1, <2>6
    <3>5. LastChunkInv'
      BY <2>6, <3>4 DEF LastChunkInv
    <3>6. broken' = FALSE
      BY <2>3, <2>6, Zenon
    <3> QED
      BY <1>7, <2>1, <2>3, <2>4, <2>5, <2>6, <3>3, <3>5, <3>6
  <2>7. CASE err' = "write error" /\ broken'
    <3>1. broken' = TRUE
      BY <2>3, <2>7, Zenon
    <3> QED
      BY <1>7, <2>1, <2>3, <2>4, <2>5, <2>7, <3>1
  <2> QED
    BY <2>3, <2>6, <2>7
<1> QED
  BY <1>8, <1>9

LEMMA DeflateStep ==
  ASSUME EncoderInv, Deflate
  PROVE  EncoderInv' /\ [File!Next]_<<img, file, encoded>>
<1>1. EncoderTypeOK /\ ErrorInv /\ FileInv
  BY DEF EncoderInv
<1>2. /\ step = "Write" /\ zbuf # <<>> /\ Buffer(Head(zbuf)) /\ zbuf' = Tail(zbuf)
      /\ step' = (IF bwErr' = "nil" THEN "Write" ELSE "IEND")
      /\ UNCHANGED <<img, encoded, y>>
  BY DEF Deflate
<1>3. ~broken /\ encoded = "none"
  BY <1>1, <1>2 DEF ErrorInv
<1>4. y + 1 \in Nat /\ y + 1 <= img.rows + 2
  <2>1. img \in Images /\ y \in 0..img.rows
    BY <1>1 DEF EncoderTypeOK
  <2> QED
    BY <2>1, ImageFields
<1>5. PICK e \in Nat : e = y + 1
  BY <1>4
<1>6. Contiguous(e)
  BY <1>1, <1>2, <1>5 DEF FileInv, BufferInv
<1>7. /\ [File!Next]_<<img, file, encoded>>
      /\ file' \in Seq(ChunkType) /\ ~File!Complete'
      /\ zbuf' \in Seq(Nat) /\ bw' \in Seq(Nat) /\ Len(bw') <= WriterBuffer
      /\ \/ /\ err' = "nil" /\ bwErr' = "nil" /\ broken' = FALSE /\ Contiguous(e)'
            /\ LastChunkInv'
         \/ err' = "write error" /\ bwErr' = "write error" /\ broken' = TRUE
  <2>1. bwErr' = "nil" => step' = step
    BY <1>2
  <2> QED
    BY <1>2, <1>3, <1>4, <1>5, <1>6, <2>1, BufferStep
<1>8. CASE /\ err' = "nil" /\ bwErr' = "nil" /\ broken' = FALSE /\ Contiguous(e)'
           /\ LastChunkInv'
  <2>1. EncoderTypeOK'
    BY <1>1, <1>2, <1>7, <1>8 DEF EncoderTypeOK, ChunkType, ChunkTypes
  <2>2. ErrorInv'
    BY <1>1, <1>2, <1>3, <1>8 DEF ErrorInv
  <2>3. Contiguous(y + 1)'
    BY <1>2, <1>5, <1>8 DEF Contiguous
  <2>4. FileInv'
    BY <1>1, <1>2, <1>3, <1>7, <1>8, <2>3 DEF FileInv, BufferInv
  <2> QED
    BY <1>7, <2>1, <2>2, <2>4 DEF EncoderInv
<1>9. CASE err' = "write error" /\ bwErr' = "write error" /\ broken' = TRUE
  <2>1. EncoderTypeOK'
    BY <1>1, <1>2, <1>7, <1>9 DEF EncoderTypeOK, ChunkType, ChunkTypes
  <2>2. ErrorInv'
    BY <1>1, <1>2, <1>3, <1>9 DEF ErrorInv
  <2>3. FileInv'
    BY <1>1, <1>2, <1>3, <1>7, <1>9 DEF FileInv, BufferInv
  <2> QED
    BY <1>7, <2>1, <2>2, <2>3 DEF EncoderInv
<1> QED
  BY <1>7, <1>8, <1>9

LEMMA CloseStep ==
  ASSUME EncoderInv, Close
  PROVE  EncoderInv' /\ [File!Next]_<<img, file, encoded>>
<1>1. EncoderTypeOK /\ ErrorInv /\ FileInv
  BY DEF EncoderInv
<1>2. step = "Close" /\ UNCHANGED <<img, encoded, y>> /\ encoded = "none"
  BY <1>1 DEF Close, ErrorInv
<1>3. CASE /\ zbuf # <<>> /\ bwErr = "nil" /\ Buffer(Head(zbuf)) /\ zbuf' = Tail(zbuf)
           /\ UNCHANGED step
  <2>1. ~broken
    BY <1>1, <1>2, <1>3 DEF ErrorInv
  <2>2. img.rows + 2 \in Nat
    <3>1. img \in Images
      BY <1>1 DEF EncoderTypeOK
    <3> QED
      BY <3>1, ImageFields
  <2>3. PICK e \in Nat : e = img.rows + 2
    BY <2>2
  <2>4. Contiguous(e) /\ e <= img.rows + 2
    BY <1>1, <1>2, <2>1, <2>2, <2>3 DEF FileInv, BufferInv
  <2>5. /\ [File!Next]_<<img, file, encoded>>
        /\ file' \in Seq(ChunkType) /\ ~File!Complete'
        /\ zbuf' \in Seq(Nat) /\ bw' \in Seq(Nat) /\ Len(bw') <= WriterBuffer
        /\ \/ /\ err' = "nil" /\ bwErr' = "nil" /\ broken' = FALSE /\ Contiguous(e)'
              /\ LastChunkInv'
           \/ err' = "write error" /\ bwErr' = "write error" /\ broken' = TRUE
    BY <1>2, <1>3, <2>1, <2>4, BufferStep
  <2>6. CASE /\ err' = "nil" /\ bwErr' = "nil" /\ broken' = FALSE /\ Contiguous(e)'
             /\ LastChunkInv'
    <3>1. EncoderTypeOK'
      BY <1>1, <1>2, <1>3, <2>5, <2>6 DEF EncoderTypeOK, ChunkType, ChunkTypes
    <3>2. ErrorInv'
      BY <1>1, <1>2, <1>3, <2>1, <2>6 DEF ErrorInv
    <3>3. Contiguous(img.rows + 2)'
      BY <1>2, <2>3, <2>6 DEF Contiguous
    <3>4. FileInv'
      BY <1>1, <1>2, <1>3, <2>5, <2>6, <3>3 DEF FileInv, BufferInv
    <3> QED
      BY <2>5, <3>1, <3>2, <3>4 DEF EncoderInv
  <2>7. CASE err' = "write error" /\ bwErr' = "write error" /\ broken' = TRUE
    <3>1. EncoderTypeOK'
      BY <1>1, <1>2, <1>3, <2>5, <2>7 DEF EncoderTypeOK, ChunkType, ChunkTypes
    <3>2. ErrorInv'
      BY <1>1, <1>2, <1>3, <2>1, <2>7 DEF ErrorInv
    <3>3. FileInv'
      BY <1>1, <1>2, <1>3, <2>5, <2>7 DEF FileInv, BufferInv
    <3> QED
      BY <2>5, <3>1, <3>2, <3>3 DEF EncoderInv
  <2> QED
    BY <2>5, <2>6, <2>7
<1>4. CASE /\ zbuf = <<>> \/ bwErr # "nil"
           /\ err' = "nil" /\ step' = "Flush"
           /\ UNCHANGED <<file, zbuf, bw, bwErr, broken>>
  <2>1. EncoderTypeOK'
    BY <1>1, <1>2, <1>4 DEF EncoderTypeOK
  <2>2. ErrorInv'
    BY <1>1, <1>2, <1>4 DEF ErrorInv
  <2>3. ~File!Complete'
    BY <1>1, <1>2, <1>4, FileTerms DEF FileInv
  <2>4. ~broken' => err = "nil" /\ bwErr = "nil" /\ LastChunkInv
    BY <1>1, <1>2, <1>4 DEF ErrorInv, FileInv
  <2>5. ~broken' => LastChunkInv'
    BY <1>2, <1>4, <2>4 DEF LastChunkInv
  <2>6. ~broken' => Contiguous(img.rows + 2)' /\ zbuf' = <<>>
    BY <1>1, <1>2, <1>4, <2>4 DEF FileInv, BufferInv, Contiguous, NextUnit
  <2>7. FileInv'
    BY <1>1, <1>2, <1>4, <2>3, <2>5, <2>6 DEF FileInv, BufferInv
  <2> QED
    BY <1>2, <1>4, <2>1, <2>2, <2>7 DEF EncoderInv
<1> QED
  BY <1>3, <1>4 DEF Close

LEMMA FlushStep ==
  ASSUME EncoderInv, Flush
  PROVE  EncoderInv' /\ [File!Next]_<<img, file, encoded>>
<1>1. EncoderTypeOK /\ ErrorInv /\ FileInv
  BY DEF EncoderInv
<1>2. /\ step = "Flush" /\ step' = "IEND" /\ encoded = "none"
      /\ UNCHANGED <<img, encoded, zbuf, bw, bwErr, y>>
  BY <1>1 DEF Flush, ErrorInv, buffers
<1>3. CASE bwErr # "nil"
  <2>1. err' = bwErr /\ UNCHANGED <<file, broken>> /\ broken /\ bwErr = "write error"
    BY <1>1, <1>3 DEF Flush, ErrorInv, EncoderTypeOK
  <2>2. EncoderTypeOK'
    BY <1>1, <1>2, <2>1 DEF EncoderTypeOK
  <2>3. ErrorInv'
    BY <1>1, <1>2, <1>3, <2>1 DEF ErrorInv
  <2>4. ~File!Complete'
    BY <1>1, <1>2, <2>1, FileTerms DEF FileInv
  <2>5. FileInv'
    BY <1>1, <1>2, <2>1, <2>4 DEF FileInv, BufferInv
  <2> QED
    BY <1>2, <2>1, <2>2, <2>3, <2>5 DEF EncoderInv
<1>4. CASE bwErr = "nil"
  <2>1. writeChunk(Chunk("IDAT", Len(bw), bw)) /\ ~broken
    BY <1>1, <1>2, <1>4 DEF Flush, ErrorInv
  <2>2. img \in Images /\ img.rows \in Nat /\ bw \in Seq(Nat) /\ Len(bw) \in Nat
    <3>1. img \in Images /\ bw \in Seq(Nat)
      BY <1>1 DEF EncoderTypeOK
    <3> QED
      BY <3>1, ImageFields
  <2>3. PICK e \in Nat : e = img.rows + 2
    BY <2>2
  <2>4. Contiguous(e) /\ e <= img.rows + 2 /\ zbuf = <<>> /\ LastChunkInv
    BY <1>1, <1>2, <2>1, <2>2, <2>3 DEF FileInv, BufferInv
  <2>5. NextUnit \in Nat
    BY <2>2, <2>4 DEF LastChunkInv, NextUnit
  <2>6. NextUnit + Len(bw) = img.rows + 2 /\ bw # <<>>
    <3>1. Len(zbuf) = 0
      BY <2>4
    <3>2. NextUnit + Len(bw) = e /\ (NextUnit # 0 => bw # <<>>)
      BY <2>2, <2>4, <2>5, <3>1 DEF Contiguous
    <3>3. NextUnit = 0 => Len(bw) > 0
      BY <2>2, <2>3, <3>2
    <3> QED
      BY <2>3, <3>2, <3>3
  <2>7. /\ [File!Next]_<<img, file, encoded>>
        /\ file' \in Seq(ChunkType) /\ broken' \in BOOLEAN /\ ~File!Complete'
        /\ \/ /\ err' = "nil" /\ ~broken' /\ file' # <<>> /\ Last(file').parts = 3
              /\ Last(file').type = "IDAT"
              /\ Last(Last(file').units) = NextUnit + Len(bw) - 1
              /\ Last(Last(file').units) \in 0..(img.rows + 1)
           \/ err' = "write error" /\ broken'
    BY <1>2, <2>1, <2>4, <2>6, BufferWritten
  <2>8. EncoderTypeOK'
    BY <1>1, <1>2, <2>7 DEF EncoderTypeOK, ChunkType, ChunkTypes
  <2>9. ErrorInv'
    BY <1>1, <1>2, <1>4, <2>7 DEF ErrorInv
  <2>10. ~broken' => LastChunkInv'
    <3>. SUFFICES ASSUME ~broken' PROVE LastChunkInv'
      OBVIOUS
    <3>1. /\ Last(file').type = "IDAT" /\ Last(Last(file').units) = NextUnit + Len(bw) - 1
          /\ Last(Last(file').units) \in 0..(img.rows + 1)
          /\ file' # <<>> /\ Last(file').parts = 3
      BY <2>7
    <3>2. NextUnit' = Last(Last(file').units) + 1
      BY <3>1 DEF NextUnit
    <3>3. NextUnit' = img.rows + 2
      BY <2>2, <2>5, <2>6, <3>1, <3>2
    <3> QED
      BY <1>2, <3>1, <3>3 DEF LastChunkInv
  <2>11. FileInv'
    BY <1>1, <1>2, <2>7, <2>10 DEF FileInv, BufferInv
  <2> QED
    BY <2>7, <2>8, <2>9, <2>11 DEF EncoderInv
<1> QED
  BY <1>3, <1>4

-----------------------------------------------------------------------------

LEMMA EncoderNextInv ==
  ASSUME EncoderInv, [EncoderNext]_encoderVars
  PROVE  EncoderInv' /\ [File!Next]_<<img, file, encoded>>
<1>1. CASE EncoderNext
  BY <1>1, EncodeStep, writeIHDRStep, writePLTEStep, writeTRNSStep, writeIDATsStep,
     writeRowStep, DeflateStep, WrittenStep, CloseStep, FlushStep, writeIENDStep,
     EncodeReturnsStep DEF EncoderNext
<1>2. CASE UNCHANGED encoderVars
  <2>1. /\ UNCHANGED <<img, file, encoded, step, err, zbuf, bw, bwErr, y, broken>>
    BY <1>2 DEF encoderVars, outside, buffers
  <2>2. EncoderTypeOK'
    BY <2>1 DEF EncoderInv, EncoderTypeOK
  <2>3. ErrorInv'
    BY <2>1 DEF EncoderInv, ErrorInv
  <2>4. File!Complete' <=> File!Complete
    BY <2>1, FileTerms
  <2>5. LastChunkInv' <=> LastChunkInv
    BY <2>1 DEF LastChunkInv, NextUnit
  <2>6. BufferInv'
    BY <2>1 DEF EncoderInv, FileInv, BufferInv, Contiguous, NextUnit
  <2>7. FileInv'
    BY <2>1, <2>4, <2>5, <2>6 DEF EncoderInv, FileInv
  <2> QED
    BY <2>1, <2>2, <2>3, <2>7 DEF EncoderInv
<1> QED
  BY <1>1, <1>2

\* The buffers, the errors and the end of the file always fit together.
LEMMA EncoderInvariant == EncoderSpec => []EncoderInv
<1>1. EncoderInit => EncoderInv
  BY EncoderInitInv
<1>2. EncoderInv /\ [EncoderNext]_encoderVars => EncoderInv'
  BY EncoderNextInv
<1> QED
  BY <1>1, <1>2, PTL DEF EncoderSpec

\* Every variable of the encoder has its type, for all images and buffers.
THEOREM EncoderTypeCorrect == EncoderSpec => []EncoderTypeOK
<1>1. EncoderInv => EncoderTypeOK
  BY DEF EncoderInv
<1> QED
  BY <1>1, EncoderInvariant, PTL

\* A failed write is returned, whichever call of Encode it happens in
\* (writer.go:619).
THEOREM EncoderReturnsFailure == EncoderSpec => []FailureIsReturned
<1>1. EncoderInv => FailureIsReturned
  BY DEF EncoderInv, ErrorInv, FileInv, FailureIsReturned
<1> QED
  BY <1>1, EncoderInvariant, PTL

\* After a failed write there is no other one.
THEOREM EncoderWritesNoMore == EncoderSpec => NothingAfterFailure
<1>1. ASSUME EncoderInv, [EncoderNext]_encoderVars
      PROVE  [broken => UNCHANGED file]_encoderVars
  <2>. SUFFICES ASSUME EncoderNext, broken PROVE file' = file
    BY <1>1
  <2>1. ErrorInv
    BY <1>1 DEF EncoderInv
  <2>2. ASSUME err # "nil", NEW c, writeChunk(c) PROVE file' = file
    BY <2>2 DEF writeChunk
  <2>3. step \notin {"Encode", "row", "Write"}
    BY <2>1 DEF ErrorInv
  <2>4. step \notin {"Close", "Flush"} => err # "nil"
    BY <2>1 DEF ErrorInv
  <2>5. step \in {"Close", "Flush"} => bwErr # "nil"
    BY <2>1 DEF ErrorInv
  <2>6. CASE writeIHDR \/ writePLTE \/ writeTRNS \/ writeIEND
    BY <2>2, <2>4, <2>6 DEF writeIHDR, writePLTE, writeTRNS, writeIEND
  <2>7. CASE writeIDATs \/ EncodeReturns
    BY <2>7 DEF writeIDATs, EncodeReturns, outside
  <2>8. CASE Close \/ Flush
    BY <2>5, <2>8 DEF Close, Flush
  <2>9. CASE Encode \/ writeRow \/ Deflate \/ Written
    BY <2>3, <2>9 DEF Encode, writeRow, Deflate, Written
  <2> QED
    BY <2>6, <2>7, <2>8, <2>9 DEF EncoderNext
<1> QED
  BY <1>1, EncoderInvariant, PTL DEF EncoderSpec, NothingAfterFailure

\* What Encode writes is PngFile's: a PNG of the image, cut off if and only if
\* Encode returns an error.
THEOREM EncoderImplementsFile == EncoderSpec => FileSpec
<1>1. EncoderInit => File!Init
  BY DEF EncoderInit, File!Init
<1>2. EncoderInv /\ [EncoderNext]_encoderVars => [File!Next]_<<img, file, encoded>>
  BY EncoderNextInv
<1> QED
  BY <1>1, <1>2, EncoderInvariant, PTL DEF EncoderSpec, FileSpec, File!Spec

-----------------------------------------------------------------------------
(* The decoder, whatever the file. *)

\* The parse functions have pc of their chunk's name.
Parsing == {"IHDR", "PLTE", "tRNS", "IEND"}

\* Where in a chunk the decoder is.
StageInv ==
  /\ pc = "signature" => stage = 0 /\ type = "other"
  /\ pc \in Parsing => type = pc /\ stage = Rank(pc)
  /\ pc \in {"zlib", "next"} => type = "IDAT" /\ stage = 4
  /\ pc = "checksum" => type = "other" \/ stage = Rank(type)
  /\ stage = 5 => type = "IEND" /\ pc \in {"IEND", "checksum"}

\* The chunk that the decoder is in is the first of its type.
Fresh == pc \in Parsing \/ (pc = "checksum" /\ type \notin {"other", "IDAT"})

\* The chunks read, with the one the decoder is in.
Met == ToSet(seen) \cup {type}

\* What the stage says about the chunks before it.
SeenInv ==
  /\ InOrder(seen)
  /\ \A t \in ToSet(seen) :
       t # "other" => Rank(t) <= stage /\ (Fresh => Rank(t) < stage)
  /\ pc = "chunk" => type \in ToSet(seen) \cup {"other"}
  /\ stage >= 1 => "IHDR" \in Met
  /\ stage >= 2 /\ cbPaletted(cb) => "PLTE" \in Met
  /\ stage >= 4 => "IDAT" \in Met
  /\ useTransparent => "tRNS" \in Met
  /\ "tRNS" \in Met /\ pc # "tRNS"
       => /\ cb[2] \in {ctGrayscale, ctTrueColor, ctPaletted}
          /\ ~cbPaletted(cb) => useTransparent

\* A palette that tRNS may come for has colors, none of which has an alpha.
ColorInv ==
  /\ stage < 3 => alphas = 0
  /\ stage >= 2 /\ cbPaletted(cb) /\ pc # "PLTE" => palette # 0
  /\ pc = "tRNS" => alphas = 0

\* The pixels begin with the first IDAT chunk and are complete when zlib returns.
PixelInv ==
  /\ stage < 4 => row = -1 /\ buf = <<>> /\ idatLength = 0
  /\ stage >= 4 /\ pc \notin {"zlib", "next"}
       => row = rows /\ buf = <<>> /\ idatLength = 0
  /\ pc = "next" => buf = <<>> /\ idatLength = 0
  /\ stage >= 1 /\ pc # "IHDR" => cb \in Supported /\ rows > 0
  /\ row = -1 => largest = -1
  /\ row >= 0 /\ cbPaletted(cb) /\ ~interlaced /\ (Depth(cb) = 8 => shown # 255)
       => largest < shown

\* The image is made when all that it is made from is known; only pixels add to
\* its palette.
ImageInv ==
  row >= 0 => /\ model = ImageModel
              /\ cbPaletted(cb) => palette <= shown
              /\ cbPaletted(cb) => shown = palette \/ shown <= largest + 1

\* DecodeConfig returns with the header or the palette, to which only tRNS adds,
\* and what it says remains true.
ConfigInv ==
  /\ stage = 0 \/ pc = "IHDR" => config = NoConfig
  /\ cbPaletted(cb) /\ (stage = 1 \/ pc = "PLTE") => config = NoConfig
  /\ config # NoConfig => config.model = ConfigModel /\ config.rows = rows
  /\ config # NoConfig /\ cbPaletted(cb)
       => config.palette <= palette /\ palette \in {config.palette, alphas}
  /\ stage >= 1 /\ ~cbPaletted(cb) /\ ~(type = "IHDR" /\ pc \in {"IHDR", "checksum"})
       => config # NoConfig
  /\ stage >= 2 /\ cbPaletted(cb) /\ ~(type = "PLTE" /\ pc \in {"PLTE", "checksum"})
       => config # NoConfig

\* As long as Decode runs
RunInv ==
  /\ StageInv /\ SeenInv /\ ColorInv /\ PixelInv /\ ImageInv /\ ConfigInv
  /\ ~damaged /\ ~failed

DecoderInv ==
  /\ TypeOK
  /\ pc # "done" => RunInv
  /\ NoPanic /\ AcceptedIsComplete /\ ConfigIsImages /\ PlainPaletteCovers

-----------------------------------------------------------------------------

LEMMA Ranks ==
  /\ Rank("IHDR") = 1 /\ Rank("PLTE") = 2 /\ Rank("tRNS") = 3
  /\ Rank("IDAT") = 4 /\ Rank("IEND") = 5
<1>1. /\ Types[1] = "IHDR" /\ Types[2] = "PLTE" /\ Types[3] = "tRNS"
      /\ Types[4] = "IDAT" /\ Types[5] = "IEND"
  BY DEF Types
<1>2. \A k \in 1..5 : k = 1 \/ k = 2 \/ k = 3 \/ k = 4 \/ k = 5
  OBVIOUS
<1>3. \A k \in 1..5 : /\ Types[k] = "IHDR" <=> k = 1
                      /\ Types[k] = "PLTE" <=> k = 2
                      /\ Types[k] = "tRNS" <=> k = 3
                      /\ Types[k] = "IDAT" <=> k = 4
                      /\ Types[k] = "IEND" <=> k = 5
  BY <1>1, <1>2
<1>4. Rank("IHDR") = 1
  BY <1>3 DEF Rank
<1>5. Rank("PLTE") = 2
  BY <1>3 DEF Rank
<1>6. Rank("tRNS") = 3
  BY <1>3 DEF Rank
<1>7. Rank("IDAT") = 4
  BY <1>3 DEF Rank
<1>8. Rank("IEND") = 5
  BY <1>3 DEF Rank
<1> QED
  BY <1>4, <1>5, <1>6, <1>7, <1>8

LEMMA CheckedTypes ==
  Type = {"IHDR", "PLTE", "tRNS", "IDAT", "IEND", "other"}
<1>1. ToSet(Types) = {Types[k] : k \in 1..5}
  BY DEF ToSet, Types
<1> QED
  BY <1>1 DEF Type, Types

\* Stages are the ranks of the chunks, and tell them apart.
LEMMA RankOfType ==
  ASSUME NEW t \in Type, t # "other"
  PROVE  /\ Rank(t) \in 1..5
         /\ Rank(t) = 1 <=> t = "IHDR"
         /\ Rank(t) = 2 <=> t = "PLTE"
         /\ Rank(t) = 3 <=> t = "tRNS"
         /\ Rank(t) = 4 <=> t = "IDAT"
         /\ Rank(t) = 5 <=> t = "IEND"
BY Ranks, CheckedTypes

LEMMA SupportedFormats ==
  ASSUME NEW c \in Supported
  PROVE  /\ c # cbInvalid
         /\ c[2] \in {ctGrayscale, ctTrueColor, ctPaletted, ctGrayscaleAlpha,
                      ctTrueColorAlpha}
         /\ Depth(c) \in Nat
BY DEF Supported, cbInvalid, Depth, ctGrayscale, ctTrueColor, ctPaletted,
       ctGrayscaleAlpha, ctTrueColorAlpha

\* The two tables of reader.go: they say the same of an image without a transparent
\* color, and of one with it the models that have an alpha.
LEMMA Tables ==
  ASSUME cb \in Supported
  PROVE  /\ ConfigModel \in Models /\ ImageModel \in Models
         /\ ConfigModel = "Palette" => cbPaletted(cb)
         /\ cbPaletted(cb) => ConfigModel = "Palette" /\ ImageModel = "Palette"
         /\ ~useTransparent => ImageModel = ConfigModel
         /\ useTransparent /\ cb[2] \in {ctGrayscale, ctTrueColor}
              => ImageModel = Transparent[ConfigModel]
         /\ Transparent["Palette"] = "Palette"
<1> DEFINE Says(c, i) == ConfigModel = c /\ ImageModel = i /\ ~cbPaletted(cb)
<1>1. /\ Transparent["Gray"] = "NRGBA" /\ Transparent["RGBA"] = "NRGBA"
      /\ Transparent["Gray16"] = "NRGBA64" /\ Transparent["RGBA64"] = "NRGBA64"
      /\ Transparent["Palette"] = "Palette"
  BY DEF Transparent
<1>2. ASSUME cb \in {1, 2, 4, 8} \X {ctGrayscale}
      PROVE  Says("Gray", IF useTransparent THEN "NRGBA" ELSE "Gray")
  <2>1. PICK d \in {1, 2, 4, 8} : cb = <<d, ctGrayscale>>
    BY <1>2
  <2> QED
    BY <2>1 DEF ConfigModel, ImageModel, cbPaletted, cbInvalid, ctGrayscale, ctTrueColor,
                ctPaletted, ctGrayscaleAlpha, ctTrueColorAlpha
<1>3. ASSUME cb \in {1, 2, 4, 8} \X {ctPaletted}
      PROVE  ConfigModel = "Palette" /\ ImageModel = "Palette" /\ cbPaletted(cb)
  <2>1. PICK d \in {1, 2, 4, 8} : cb = <<d, ctPaletted>>
    BY <1>3
  <2> QED
    BY <2>1 DEF ConfigModel, ImageModel, cbPaletted, cbInvalid, ctGrayscale, ctTrueColor,
                ctPaletted, ctGrayscaleAlpha, ctTrueColorAlpha
<1>4. cb = <<16, ctGrayscale>>
        => Says("Gray16", IF useTransparent THEN "NRGBA64" ELSE "Gray16")
  BY DEF ConfigModel, ImageModel, cbPaletted, cbInvalid, ctGrayscale, ctTrueColor,
         ctPaletted, ctGrayscaleAlpha, ctTrueColorAlpha
<1>5. cb = <<8, ctTrueColor>> => Says("RGBA", IF useTransparent THEN "NRGBA" ELSE "RGBA")
  BY DEF ConfigModel, ImageModel, cbPaletted, cbInvalid, ctGrayscale, ctTrueColor,
         ctPaletted, ctGrayscaleAlpha, ctTrueColorAlpha
<1>6. cb = <<16, ctTrueColor>>
        => Says("RGBA64", IF useTransparent THEN "NRGBA64" ELSE "RGBA64")
  BY DEF ConfigModel, ImageModel, cbPaletted, cbInvalid, ctGrayscale, ctTrueColor,
         ctPaletted, ctGrayscaleAlpha, ctTrueColorAlpha
<1>7. cb = <<8, ctGrayscaleAlpha>> \/ cb = <<8, ctTrueColorAlpha>> => Says("NRGBA", "NRGBA")
  BY DEF ConfigModel, ImageModel, cbPaletted, cbInvalid, ctGrayscale, ctTrueColor,
         ctPaletted, ctGrayscaleAlpha, ctTrueColorAlpha
<1>8. cb = <<16, ctGrayscaleAlpha>> \/ cb = <<16, ctTrueColorAlpha>>
        => Says("NRGBA64", "NRGBA64")
  BY DEF ConfigModel, ImageModel, cbPaletted, cbInvalid, ctGrayscale, ctTrueColor,
         ctPaletted, ctGrayscaleAlpha, ctTrueColorAlpha
<1>9. \/ cb \in {1, 2, 4, 8} \X {ctGrayscale} \/ cb \in {1, 2, 4, 8} \X {ctPaletted}
      \/ cb = <<16, ctGrayscale>> \/ cb = <<8, ctTrueColor>> \/ cb = <<16, ctTrueColor>>
      \/ cb[2] \in {ctGrayscaleAlpha, ctTrueColorAlpha}
         /\ (\/ cb = <<8, ctGrayscaleAlpha>> \/ cb = <<8, ctTrueColorAlpha>>
             \/ cb = <<16, ctGrayscaleAlpha>> \/ cb = <<16, ctTrueColorAlpha>>)
  BY DEF Supported
<1>10. {ctGrayscale, ctTrueColor} \cap {ctGrayscaleAlpha, ctTrueColorAlpha} = {}
  BY DEF ctGrayscale, ctTrueColor, ctGrayscaleAlpha, ctTrueColorAlpha
<1>11. cb[2] = ctPaletted => cb[2] \notin {ctGrayscale, ctTrueColor}
  BY DEF ctGrayscale, ctTrueColor, ctPaletted
<1>12. CASE cb \in {1, 2, 4, 8} \X {ctGrayscale}
  BY <1>1, <1>2, <1>12 DEF Models
<1>13. CASE cb \in {1, 2, 4, 8} \X {ctPaletted}
  BY <1>1, <1>3, <1>11, <1>13 DEF Models, cbPaletted
<1>14. CASE cb = <<16, ctGrayscale>> \/ cb = <<8, ctTrueColor>> \/ cb = <<16, ctTrueColor>>
  BY <1>1, <1>4, <1>5, <1>6, <1>14 DEF Models
<1>15. CASE /\ cb[2] \in {ctGrayscaleAlpha, ctTrueColorAlpha}
            /\ \/ cb = <<8, ctGrayscaleAlpha>> \/ cb = <<8, ctTrueColorAlpha>>
               \/ cb = <<16, ctGrayscaleAlpha>> \/ cb = <<16, ctTrueColorAlpha>>
  BY <1>1, <1>7, <1>8, <1>10, <1>15 DEF Models
<1> QED
  BY <1>9, <1>12, <1>13, <1>14, <1>15

LEMMA AppendSet ==
  ASSUME NEW s \in Seq(Type), NEW t \in Type
  PROVE  /\ Append(s, t) \in Seq(Type)
         /\ ToSet(Append(s, t)) = ToSet(s) \cup {t}
         /\ Last(Append(s, t)) = t
<1>1. /\ Append(s, t) \in Seq(Type) /\ Len(Append(s, t)) = Len(s) + 1
      /\ \A i \in 1..Len(s) : Append(s, t)[i] = s[i]
      /\ Append(s, t)[Len(s) + 1] = t
  BY AppendProperties
<1>2. DOMAIN Append(s, t) = 1..(Len(s) + 1) /\ DOMAIN s = 1..Len(s) /\ Len(s) \in Nat
  BY <1>1, LenProperties
<1>3. 1..(Len(s) + 1) = 1..Len(s) \cup {Len(s) + 1}
  BY <1>2
<1>4. ToSet(Append(s, t)) = {Append(s, t)[i] : i \in 1..Len(s)} \cup {t}
  BY <1>1, <1>2, <1>3 DEF ToSet
<1>5. {Append(s, t)[i] : i \in 1..Len(s)} = ToSet(s)
  BY <1>1, <1>2 DEF ToSet
<1> QED
  BY <1>1, <1>4, <1>5 DEF Last

\* A chunk may follow those of a lower rank, and IDAT itself.
LEMMA InOrderAppend ==
  ASSUME NEW s \in Seq(Type), NEW t \in Type, InOrder(s),
         \A u \in ToSet(s) : u = "other" \/ t = "other" \/ Rank(u) < Rank(t)
                             \/ (u = "IDAT" /\ t = "IDAT")
  PROVE  InOrder(Append(s, t))
<1>1. /\ Len(Append(s, t)) = Len(s) + 1 /\ Append(s, t) \in Seq(Type)
      /\ \A i \in 1..Len(s) : Append(s, t)[i] = s[i]
      /\ Append(s, t)[Len(s) + 1] = t
  BY AppendProperties
<1>2. DOMAIN Append(s, t) = 1..(Len(s) + 1) /\ DOMAIN s = 1..Len(s) /\ Len(s) \in Nat
  BY <1>1, LenProperties
<1> DEFINE a == Append(s, t)
<1> SUFFICES ASSUME NEW i \in DOMAIN a, NEW j \in DOMAIN a, i < j,
                    "other" \notin {a[i], a[j]}
             PROVE  Rank(a[i]) < Rank(a[j]) \/ (a[i] = "IDAT" /\ a[j] = "IDAT")
  BY DEF InOrder
<1>3. i \in 1..Len(s) /\ a[i] = s[i] /\ s[i] \in ToSet(s)
  BY <1>1, <1>2 DEF ToSet
<1>4. CASE j \in 1..Len(s)
  BY <1>1, <1>2, <1>3, <1>4 DEF InOrder
<1>5. CASE j = Len(s) + 1
  BY <1>1, <1>3, <1>5
<1> QED
  BY <1>2, <1>4, <1>5

-----------------------------------------------------------------------------

\* When Decode returns an error nothing is asked of what it has read.
LEMMA Rejected ==
  ASSUME DecoderInv, NEW e \in Errors, Return(e),
         UNCHANGED <<header, colors, pixels, chunks>>,
         damaged' \in BOOLEAN, failed' \in BOOLEAN
  PROVE  DecoderInv'
<1>1. e # "none" /\ e # "nil" /\ e # "panic"
  BY DEF Errors
<1>2. TypeOK'
  BY <1>1 DEF DecoderInv, TypeOK, Return, header, colors, pixels, chunks
<1> QED
  BY <1>1, <1>2 DEF DecoderInv, Return, NoPanic, AcceptedIsComplete, ConfigIsImages,
                    PlainPaletteCovers

LEMMA Calm ==
  ASSUME DecoderInv, NEW e \in Errors, Reject(e)
  PROVE  DecoderInv'
BY Rejected DEF Reject, DecoderInv, TypeOK

\* When Decode goes on only the type and the invariant of the run matter.
LEMMA Onward ==
  ASSUME DecoderInv, pc # "done", UNCHANGED result, TypeOK', RunInv'
  PROVE  DecoderInv'
BY DEF DecoderInv, TypeOK, NoPanic, AcceptedIsComplete, ConfigIsImages,
       PlainPaletteCovers

LEMMA ErrorNames ==
  /\ "order" \in Errors /\ "FormatError" \in Errors /\ "UnsupportedError" \in Errors
  /\ "zlib error" \in Errors /\ "ErrUnexpectedEOF" \in Errors /\ "read error" \in Errors
BY DEF Errors

LEMMA DecoderInitInv == Init => DecoderInv
<1> SUFFICES ASSUME Init PROVE DecoderInv
  OBVIOUS
<1>1. seen = <<>> /\ ToSet(seen) = {} /\ DOMAIN seen = {}
  BY DEF Init, ToSet
<1>2. "other" \in Type /\ <<>> \in Seq(Type) /\ <<>> \in Seq(Unit)
  BY CheckedTypes
<1>3. TypeOK
  <2>1. stage \in dsStart..dsSeenIEND /\ row \in -1..rows /\ alphas \in 0..palette
        /\ palette \in 0..256 /\ shown \in 0..256
    BY DEF Init, dsStart, dsSeenIEND
  <2>2. (pc = "done") = (result # "none")
    BY DEF Init
  <2>3. /\ interlaced \in BOOLEAN /\ useTransparent \in BOOLEAN
        /\ damaged \in BOOLEAN /\ failed \in BOOLEAN
    BY DEF Init
  <2>4. seen \in Seq(Type) /\ buf \in Seq(Unit) /\ type \in Type
    BY <1>2 DEF Init
  <2>5. /\ length \in Nat /\ rows \in Nat /\ idatLength \in Nat /\ largest \in Int
        /\ cb \in Supported \cup {cbInvalid}
    BY DEF Init
  <2>6. /\ pc = "signature" /\ result = "none" /\ config = NoConfig /\ model = "none"
    BY DEF Init
  <2> QED
    BY <2>1, <2>2, <2>3, <2>4, <2>5, <2>6 DEF TypeOK
<1>4. StageInv /\ ColorInv /\ PixelInv /\ ImageInv /\ ConfigInv
  BY DEF Init, StageInv, Parsing, ColorInv, PixelInv, ImageInv, ConfigInv, dsStart
<1>5. SeenInv
  BY <1>1 DEF Init, SeenInv, InOrder, Met, dsStart, cbInvalid, ctGrayscale
<1> QED
  BY <1>3, <1>4, <1>5 DEF Init, DecoderInv, RunInv, NoPanic, AcceptedIsComplete,
     ConfigIsImages, PlainPaletteCovers

LEMMA CheckHeaderStep ==
  ASSUME DecoderInv, NEW good \in BOOLEAN, CheckHeader(good)
  PROVE  DecoderInv'
<1>1. CASE Reject("FormatError")
  BY <1>1, Calm, ErrorNames
<1>2. CASE Goto("chunk") /\ UNCHANGED <<header, colors, pixels, chunks, faults>>
  <2> USE DEF header, colors, pixels, chunks, faults
  <2>1. pc = "signature" /\ RunInv
    BY DEF CheckHeader, DecoderInv
  <2>2. TypeOK'
    BY <1>2, <2>1 DEF DecoderInv, TypeOK, Goto
  <2>3. StageInv' /\ ColorInv' /\ PixelInv' /\ ImageInv' /\ ~damaged' /\ ~failed'
    BY <1>2, <2>1 DEF RunInv, StageInv, ColorInv, PixelInv, ImageInv, Goto, Parsing
  <2>5. ConfigInv'
    BY <1>2, <2>1 DEF RunInv, StageInv, ConfigInv, Goto
  <2>4. SeenInv'
    BY <1>2, <2>1 DEF RunInv, StageInv, SeenInv, Goto, Fresh, Met, Parsing
  <2> QED
    BY <1>2, <2>1, <2>2, <2>3, <2>4, <2>5, Onward DEF Goto, RunInv
<1> QED
  BY <1>1, <1>2 DEF CheckHeader

\* A new chunk: it fits the stage, or Decode returns.
LEMMA ReadChunkHeaderStep ==
  ASSUME DecoderInv, NEW t \in Type, NEW len \in Nat, ReadChunkHeader(t, len)
  PROVE  DecoderInv'
<1>1. /\ pc = "chunk" /\ RunInv /\ type' = t /\ length' = len
      /\ UNCHANGED <<cb, interlaced, rows, palette, alphas, useTransparent, buf, row,
                     model, shown, largest, seen, config, damaged, failed>>
  BY DEF ReadChunkHeader, DecoderInv, header, colors, faults
<1>2. CASE ~OrderOK(t)
  <2>1. Return("order") /\ UNCHANGED <<stage, idatLength>>
    BY <1>2 DEF ReadChunkHeader
  <2>3. pc' = "done" /\ result' = "order" /\ result' \in Errors
    BY <2>1 DEF Return, Errors
  <2>4. TypeOK
    BY DEF DecoderInv
  <2>2. TypeOK'
    BY <1>1, <2>1, <2>3, <2>4 DEF TypeOK
  <2> QED
    BY <2>2, <2>3 DEF DecoderInv, NoPanic, AcceptedIsComplete, ConfigIsImages,
                      PlainPaletteCovers
<1>3. stage \in 0..4 /\ stage # 5
  BY <1>1 DEF DecoderInv, TypeOK, RunInv, StageInv, dsStart, dsSeenIEND
<1>4. \A u \in ToSet(seen) : u # "other" => u \in Type /\ Rank(u) <= stage
  BY <1>1 DEF RunInv, SeenInv, DecoderInv, TypeOK, ToSet
<1>7. ImageInv' /\ (cbPaletted(cb)' <=> cbPaletted(cb)) /\ ConfigModel' = ConfigModel
  BY <1>1 DEF RunInv, ImageInv, ImageModel, ConfigModel, cbPaletted
<1>5. CASE OrderOK(t) /\ Skipped(t)
  <2>1. pc' = "checksum" /\ UNCHANGED <<result, stage, idatLength>>
    BY <1>5 DEF ReadChunkHeader, Goto
  <2>2. t = "other" \/ (t = "IDAT" /\ stage = 4)
    BY <1>5 DEF Skipped, dsSeenIDAT
  <2>3. TypeOK'
    BY <1>1, <2>1 DEF DecoderInv, TypeOK
  <2>4. StageInv'
    BY <1>1, <1>3, <2>1, <2>2, Ranks DEF StageInv, Parsing
  <2>5. SeenInv'
    BY <1>1, <2>1, <2>2 DEF RunInv, SeenInv, Fresh, Met, Parsing
  <2>6. ColorInv' /\ PixelInv'
    BY <1>1, <2>1 DEF RunInv, ColorInv, PixelInv
  <2>7. ConfigInv'
    BY <1>1, <1>7, <2>1, <2>2 DEF RunInv, ConfigInv
  <2> QED
    BY <1>1, <1>7, <2>1, <2>3, <2>4, <2>5, <2>6, <2>7, Onward DEF RunInv
<1>6. CASE OrderOK(t) /\ ~Skipped(t)
  <2>1. /\ stage' = Rank(t) /\ pc' = (IF t = "IDAT" THEN "zlib" ELSE t)
        /\ idatLength' = (IF t = "IDAT" THEN len ELSE idatLength)
        /\ UNCHANGED result
    BY <1>6 DEF ReadChunkHeader, Goto
  <2>2. t \in {"IHDR", "PLTE", "tRNS", "IDAT", "IEND"}
    BY <1>6, CheckedTypes DEF Skipped
  <2> USE DEF dsStart, dsSeenIHDR, dsSeenPLTE, dsSeentRNS, dsSeenIDAT
  <2>3. /\ t = "IHDR" => stage = 0
        /\ t = "PLTE" => stage = 1
        /\ t = "tRNS" => stage = (IF cbPaletted(cb) THEN 2 ELSE 1)
        /\ t = "IDAT" => stage \in 1..3 /\ ~(stage = 1 /\ cbPaletted(cb))
        /\ t = "IEND" => stage = 4
    <3>1. t = "IHDR" => stage = 0
      BY <1>6 DEF OrderOK
    <3>2. t = "PLTE" => stage = 1
      BY <1>6 DEF OrderOK
    <3>3. t = "tRNS" => stage = (IF cbPaletted(cb) THEN 2 ELSE 1)
      BY <1>6 DEF OrderOK
    <3>4. t = "IDAT" => stage \in 1..3 /\ ~(stage = 1 /\ cbPaletted(cb))
      BY <1>3, <1>6 DEF OrderOK, Skipped
    <3>5. t = "IEND" => stage = 4
      BY <1>6 DEF OrderOK
    <3> QED
      BY <3>1, <3>2, <3>3, <3>4, <3>5
  <2>4. stage' \in 1..5 /\ stage < stage'
    BY <2>1, <2>2, <2>3, Ranks
  <2>5. TypeOK'
    BY <1>1, <2>1, <2>2, <2>4 DEF DecoderInv, TypeOK, dsSeenIEND
  <2>6. StageInv'
    BY <1>1, <2>1, <2>2, Ranks DEF StageInv, Parsing
  <2>7. \A u \in ToSet(seen) : u # "other" => Rank(u) < stage'
    BY <1>3, <1>4, <2>4, RankOfType
  <2>8. \A u : u \in Met /\ u # "other" => u \in Met'
    BY <1>1 DEF RunInv, SeenInv, Met
  <2>9. "tRNS" \in Met' /\ pc' # "tRNS" => "tRNS" \in Met
    BY <1>1, <2>1, <2>2 DEF Met
  <2>10. SeenInv'
    <3>1. /\ "IHDR" \in Met' /\ (stage' >= 4 => "IDAT" \in Met')
          /\ (stage' >= 2 /\ cbPaletted(cb) => "PLTE" \in Met')
      <4>1. t \in Met'
        BY <1>1 DEF Met
      <4>2. CASE t = "IHDR"
        BY <2>1, <2>2, <2>3, <4>1, <4>2, Ranks
      <4>3. CASE t # "IHDR"
        BY <1>1, <1>3, <2>1, <2>2, <2>3, <2>8, <4>1, <4>3, Ranks DEF RunInv, SeenInv
      <4> QED
        BY <4>2, <4>3
    <3>2. cbPaletted(cb)' <=> cbPaletted(cb)
      BY <1>1 DEF cbPaletted
    <3>3. useTransparent' => "tRNS" \in Met'
      BY <1>1, <2>8 DEF RunInv, SeenInv
    <3>4. "tRNS" \in Met' /\ pc' # "tRNS"
            => /\ cb'[2] \in {ctGrayscale, ctTrueColor, ctPaletted}
               /\ ~cbPaletted(cb) => useTransparent'
      BY <1>1, <2>9 DEF RunInv, SeenInv
    <3>5. pc' # "chunk"
      BY <2>1, <2>2
    <3> QED
      BY <1>1, <2>4, <2>7, <3>1, <3>2, <3>3, <3>4, <3>5, RankOfType, <1>4
         DEF RunInv, SeenInv, DecoderInv, TypeOK
  <2>11. ColorInv'
    BY <1>1, <1>3, <2>1, <2>2, <2>3, Ranks DEF RunInv, ColorInv, cbPaletted
  <2>12. PixelInv'
    BY <1>1, <1>3, <2>1, <2>2, <2>3, Ranks DEF RunInv, PixelInv, cbPaletted
  <2>13. ConfigInv'
    <3>1. (cbPaletted(cb)' <=> cbPaletted(cb)) /\ ConfigModel' = ConfigModel
      BY <1>7
    <3>2. stage >= 1 /\ ~cbPaletted(cb) => config # NoConfig
      BY <1>1 DEF RunInv, ConfigInv
    <3>3. stage >= 2 /\ cbPaletted(cb) => config # NoConfig
      BY <1>1 DEF RunInv, ConfigInv
    <3>4. CASE t = "IHDR"
      BY <1>1, <2>1, <2>3, <3>1, <3>4, Ranks DEF RunInv, ConfigInv
    <3>5. CASE t = "PLTE"
      BY <1>1, <2>1, <2>3, <3>1, <3>2, <3>5, Ranks DEF RunInv, ConfigInv
    <3>6. CASE t = "tRNS"
      BY <1>1, <2>1, <2>3, <3>1, <3>2, <3>3, <3>6, Ranks DEF RunInv, ConfigInv
    <3>7. CASE t \in {"IDAT", "IEND"}
      BY <1>1, <2>1, <2>3, <3>1, <3>2, <3>3, <3>7, Ranks DEF RunInv, ConfigInv
    <3> QED
      BY <2>2, <3>4, <3>5, <3>6, <3>7
  <2> QED
    BY <1>1, <1>7, <2>1, <2>5, <2>6, <2>10, <2>11, <2>12, <2>13, Onward DEF RunInv
<1> QED
  BY <1>2, <1>5, <1>6

\* parseIHDR comes first, so nothing has been said about the image before.
LEMMA parseIHDRStep ==
  ASSUME DecoderInv, NEW h \in HeaderFields, parseIHDR(h)
  PROVE  DecoderInv'
<1>1. pc = "IHDR" /\ RunInv /\ type = "IHDR" /\ stage = 1
  BY Ranks DEF parseIHDR, DecoderInv, RunInv, StageInv, Parsing
<1>2. CASE Reject("FormatError") \/ Reject("UnsupportedError")
  BY <1>2, Calm, ErrorNames
<1>3. CASE /\ ~(h.rows <= 0) /\ <<h.depth, h.ct>> \in Supported
           /\ cb' = <<h.depth, h.ct>>
           /\ interlaced' = (h.interlace = itAdam7) /\ rows' = h.rows
           /\ Goto("checksum")
           /\ UNCHANGED <<colors, pixels, chunks, faults>>
  <2> USE DEF colors, pixels, chunks, faults, Goto
  <2>1. cb' \in Supported /\ interlaced' \in BOOLEAN /\ rows' \in Nat /\ rows' > 0
    BY <1>3 DEF HeaderFields
  <2>2. row = -1 /\ buf = <<>> /\ idatLength = 0 /\ config = NoConfig
    BY <1>1 DEF RunInv, PixelInv, ConfigInv
  <2>3. TypeOK'
    <3>1. row' \in -1..rows'
      BY <1>3, <2>1, <2>2
    <3> QED
      BY <1>1, <1>3, <2>1, <3>1 DEF DecoderInv, TypeOK
  <2>4. StageInv'
    BY <1>1, <1>3, Ranks DEF StageInv, Parsing
  <2>5. "tRNS" \notin Met /\ Fresh
    BY <1>1, Ranks DEF RunInv, SeenInv, Met, Fresh, Parsing
  <2>6. SeenInv'
    BY <1>1, <1>3, <2>5 DEF RunInv, SeenInv, Met, Fresh, Parsing
  <2>7. ColorInv' /\ PixelInv' /\ ImageInv'
    BY <1>1, <1>3, <2>1, <2>2 DEF RunInv, ColorInv, PixelInv, ImageInv
  <2>8. ConfigInv'
    BY <1>1, <1>3, <2>2 DEF ConfigInv
  <2> QED
    BY <1>1, <1>3, <2>3, <2>4, <2>6, <2>7, <2>8, Onward DEF RunInv
<1> QED
  BY <1>2, <1>3 DEF parseIHDR

\* A step that only parses the chunk it is in.
LEMMA ParsedStep ==
  ASSUME DecoderInv, pc \in Parsing, pc # "IHDR", Goto("checksum"),
         UNCHANGED <<header, pixels, chunks, faults>>,
         pc = "IEND" => UNCHANGED colors,
         config # NoConfig /\ cbPaletted(cb)
           => config.palette <= palette' /\ palette' \in {config.palette, alphas'}
  PROVE  /\ RunInv /\ UNCHANGED result
         /\ StageInv' /\ PixelInv' /\ ImageInv' /\ ConfigInv'
         /\ InOrder(seen')
         /\ \A t \in ToSet(seen') :
              t # "other" => Rank(t) <= stage' /\ (Fresh' => Rank(t) < stage')
<1> USE DEF Parsing, Goto, header, pixels, chunks, faults
<1>1. RunInv
  BY DEF DecoderInv
<1>2. StageInv'
  BY <1>1, Ranks DEF RunInv, StageInv
<1>3. PixelInv'
  BY <1>1, Ranks DEF RunInv, StageInv, PixelInv, cbPaletted, Depth
<1>4. ConfigInv'
  BY <1>1, Ranks DEF RunInv, StageInv, ConfigInv, cbPaletted, ConfigModel
<1>5. Fresh
  BY DEF Fresh
<1>6. ImageInv'
  <2>1. CASE pc = "IEND"
    <3>1. UNCHANGED <<cb, useTransparent, palette, row, model, shown, largest>>
      BY <2>1 DEF colors
    <3>2. ImageModel' = ImageModel /\ (cbPaletted(cb)' <=> cbPaletted(cb))
      BY <3>1 DEF ImageModel, cbPaletted
    <3> QED
      BY <1>1, <3>1, <3>2 DEF RunInv, ImageInv
  <2>2. CASE pc # "IEND"
    <3>1. stage < 4 /\ row = -1
      BY <1>1, <2>2, Ranks DEF RunInv, StageInv, PixelInv
    <3> QED
      BY <3>1 DEF ImageInv
  <2> QED
    BY <2>1, <2>2
<1> QED
  BY <1>1, <1>2, <1>3, <1>4, <1>5, <1>6 DEF RunInv, SeenInv

LEMMA parsePLTEStep ==
  ASSUME DecoderInv, parsePLTE
  PROVE  DecoderInv'
<1>1. pc = "PLTE" /\ RunInv /\ type = "PLTE" /\ stage = 2
  BY Ranks DEF parsePLTE, DecoderInv, RunInv, StageInv, Parsing
<1>2. CASE Reject("FormatError")
  BY <1>2, Calm, ErrorNames
<1>3. CASE ~Reject("FormatError")
  <2> DEFINE np == length \div 3
  <2>1. /\ palette' = (IF cbPaletted(cb) THEN np ELSE palette)
        /\ ~(np <= 0) /\ ~(np > 256)
        /\ Goto("checksum")
        /\ UNCHANGED <<header, alphas, useTransparent, pixels, chunks, faults>>
    BY <1>3 DEF parsePLTE
  <2>2. np \in 1..256
    BY <2>1 DEF DecoderInv, TypeOK
  <2>3. alphas = 0
    BY <1>1 DEF RunInv, ColorInv
  <2> HIDE DEF np
  <2>4. TypeOK'
    <3>1. palette' \in 0..256 /\ alphas' \in 0..palette'
      BY <2>1, <2>2, <2>3 DEF DecoderInv, TypeOK
    <3> QED
      BY <1>1, <2>1, <3>1
         DEF DecoderInv, TypeOK, Goto, header, pixels, chunks, faults
  <2>5. pc \in Parsing
    BY <1>1 DEF Parsing
  <2>6. ColorInv'
    BY <1>1, <2>1, <2>2, <2>3
       DEF ColorInv, Goto, header, pixels, chunks, cbPaletted
  <2>8. cbPaletted(cb) => config = NoConfig
    BY <1>1 DEF RunInv, ConfigInv
  <2>7. SeenInv'
    BY <1>1, <2>1, <2>5, <2>8, ParsedStep
       DEF RunInv, SeenInv, Met, Goto, header, pixels, chunks, cbPaletted
  <2> QED
    BY <1>1, <2>1, <2>4, <2>5, <2>6, <2>7, <2>8, ParsedStep, Onward DEF RunInv, faults
<1> QED
  BY <1>2, <1>3

\* The stages leave parsetRNS nothing to panic about.
LEMMA parsetRNSStep ==
  ASSUME DecoderInv, parsetRNS
  PROVE  DecoderInv'
<1>1. pc = "tRNS" /\ RunInv /\ type = "tRNS" /\ stage = 3
  BY Ranks DEF parsetRNS, DecoderInv, RunInv, StageInv, Parsing
<1>2. alphas = 0 /\ (cbPaletted(cb) => palette # 0) /\ cb \in Supported
  BY <1>1 DEF RunInv, ColorInv, PixelInv
<1>3. pc \in Parsing
  BY <1>1 DEF Parsing
<1> DEFINE bad == CASE cb[2] = ctGrayscale -> length # 2
                    [] cb[2] = ctTrueColor -> length # 6
                    [] cb[2] = ctPaletted  -> length > 256
                    [] OTHER               -> TRUE
<1>4. ~bad => /\ cb[2] \in {ctGrayscale, ctTrueColor, ctPaletted}
              /\ cbPaletted(cb) => length \in 0..256
  <2>1. length \in Nat
    BY DEF DecoderInv, TypeOK
  <2>2. CASE cb[2] = ctGrayscale
    BY <2>2 DEF cbPaletted, ctGrayscale, ctPaletted
  <2>3. CASE cb[2] = ctTrueColor
    BY <2>3 DEF cbPaletted, ctTrueColor, ctPaletted
  <2>4. CASE cb[2] = ctPaletted
    BY <2>1, <2>4 DEF ctGrayscale, ctTrueColor, ctPaletted
  <2>5. CASE cb[2] \notin {ctGrayscale, ctTrueColor, ctPaletted}
    BY <2>5
  <2> QED
    BY <2>2, <2>3, <2>4, <2>5
<1>5. \/ bad /\ Reject("FormatError")
      \/ /\ ~bad
         /\ alphas' \in 0..palette' /\ palette' \in 0..256
         /\ cbPaletted(cb) => /\ palette' # 0 /\ palette <= palette'
                              /\ palette' \in {palette, alphas'}
         /\ useTransparent' \in BOOLEAN /\ (~cbPaletted(cb) => useTransparent')
         /\ Goto("checksum")
         /\ UNCHANGED <<header, pixels, chunks, faults>>
  <2>1. palette \in 0..256 /\ useTransparent \in BOOLEAN /\ alphas \in 0..palette
    BY DEF DecoderInv, TypeOK
  <2>2. CASE bad /\ Reject("FormatError")
    BY <2>2
  <2>3. CASE ~bad /\ ~cbPaletted(cb)
    BY <1>1, <2>1, <2>3 DEF parsetRNS
  <2>4. CASE ~bad /\ cbPaletted(cb)
    <3>1. /\ palette' = (IF palette < length THEN length ELSE palette)
          /\ alphas' = length
          /\ Goto("checksum")
          /\ UNCHANGED <<header, useTransparent, pixels, chunks, faults>>
      BY <1>2, <2>4 DEF parsetRNS
    <3>2. length \in 0..256
      BY <1>4, <2>4
    <3>3. /\ alphas' \in 0..palette' /\ palette' \in 0..256 /\ palette <= palette'
          /\ palette' \in {palette, alphas'}
      BY <2>1, <3>1, <3>2
    <3>4. palette' # 0
      BY <1>2, <2>1, <2>4, <3>3
    <3> QED
      BY <2>1, <2>4, <3>1, <3>3, <3>4
  <2>5. \/ bad /\ Reject("FormatError")
        \/ ~bad /\ ~cbPaletted(cb)
        \/ ~bad /\ cbPaletted(cb)
    BY DEF parsetRNS
  <2> QED
    BY <2>2, <2>3, <2>4, <2>5
<1>6. CASE bad /\ Reject("FormatError")
  BY <1>6, Calm, ErrorNames
<1> HIDE DEF bad
<1>7. CASE /\ ~bad
           /\ alphas' \in 0..palette' /\ palette' \in 0..256
           /\ cbPaletted(cb) => /\ palette' # 0 /\ palette <= palette'
                                /\ palette' \in {palette, alphas'}
           /\ useTransparent' \in BOOLEAN /\ (~cbPaletted(cb) => useTransparent')
           /\ Goto("checksum")
           /\ UNCHANGED <<header, pixels, chunks, faults>>
  <2>1. TypeOK'
    BY <1>1, <1>7 DEF DecoderInv, TypeOK, Goto, header, pixels, chunks, faults
  <2>2. ColorInv'
    BY <1>1, <1>7 DEF ColorInv, Goto, header, chunks, cbPaletted
  <2>3. "tRNS" \in Met' /\ cb' = cb /\ Met' = Met
    BY <1>1, <1>7 DEF Met, header, chunks
  <2>5. config # NoConfig /\ cbPaletted(cb)
          => config.palette <= palette' /\ palette' \in {config.palette, alphas'}
    <3> SUFFICES ASSUME config # NoConfig, cbPaletted(cb)
                 PROVE  config.palette <= palette' /\ palette' \in {config.palette, alphas'}
      OBVIOUS
    <3>1. palette \in {config.palette, alphas} /\ palette # 0 /\ alphas = 0
      BY <1>1, <1>2 DEF RunInv, ConfigInv
    <3> QED
      BY <1>7, <3>1
  <2>4. SeenInv'
    BY <1>1, <1>3, <1>4, <1>7, <2>3, <2>5, ParsedStep
       DEF RunInv, SeenInv, Goto, header, chunks, cbPaletted
  <2> QED
    BY <1>1, <1>3, <1>7, <2>1, <2>2, <2>4, <2>5, ParsedStep, Onward DEF RunInv, faults
<1> QED
  BY <1>5, <1>6, <1>7

LEMMA parseIENDStep ==
  ASSUME DecoderInv, parseIEND
  PROVE  DecoderInv'
<1>1. pc = "IEND" /\ pc \in Parsing /\ RunInv
  BY DEF parseIEND, DecoderInv, Parsing
<1>2. CASE Reject("FormatError")
  BY <1>2, Calm, ErrorNames
<1>3. CASE Goto("checksum") /\ UNCHANGED <<header, colors, pixels, chunks, faults>>
  <2>1. TypeOK'
    BY <1>1, <1>3
       DEF DecoderInv, TypeOK, Goto, header, colors, pixels, chunks, faults
  <2>2. ColorInv'
    BY <1>1, <1>3 DEF RunInv, ColorInv, Goto, header, colors, chunks, cbPaletted
  <2>4. config # NoConfig /\ cbPaletted(cb)
          => config.palette <= palette' /\ palette' \in {config.palette, alphas'}
    BY <1>1, <1>3 DEF RunInv, ConfigInv, colors
  <2>3. SeenInv'
    BY <1>1, <1>3, <2>4, ParsedStep
       DEF RunInv, SeenInv, Met, Goto, header, colors, chunks, cbPaletted
  <2> QED
    BY <1>1, <1>3, <2>1, <2>2, <2>3, <2>4, ParsedStep, Onward DEF RunInv, faults
<1> QED
  BY <1>2, <1>3 DEF parseIEND

\* A chunk has been read: the last one makes the image, of which everything that
\* is promised has been collected on the way.
LEMMA verifyChecksumStep ==
  ASSUME DecoderInv, NEW good \in BOOLEAN, verifyChecksum(good)
  PROVE  DecoderInv'
<1>1. CASE Reject("FormatError")
  BY <1>1, Calm, ErrorNames
<1>2. CASE ~Reject("FormatError")
  <2>1. /\ pc = "checksum" /\ RunInv
        /\ seen' = Append(seen, type)
        /\ config' = IF config = NoConfig /\ ConfigDone
                     THEN [model |-> ConfigModel, palette |-> palette, rows |-> rows]
                     ELSE config
        /\ \/ stage = 5 /\ Return("nil")
           \/ stage # 5 /\ Goto("chunk")
        /\ UNCHANGED <<stage, type, length, header, colors, pixels, faults>>
    BY <1>2 DEF verifyChecksum, DecoderInv, dsSeenIEND
  <2>2. type \in Type /\ seen \in Seq(Type) /\ stage \in 0..5 /\ seen' \in Seq(Type)
    BY <2>1, AppendSet DEF DecoderInv, TypeOK, dsStart, dsSeenIEND
  <2>3. type = "other" \/ stage = Rank(type)
    BY <2>1 DEF RunInv, StageInv
  <2>4. \A t \in ToSet(seen) : t \in Type /\
          (t = "other" \/ type = "other" \/ Rank(t) < Rank(type)
           \/ (t = "IDAT" /\ type = "IDAT"))
    <3> SUFFICES ASSUME NEW t \in ToSet(seen), t # "other", type # "other"
                 PROVE  t \in Type /\ (Rank(t) < Rank(type)
                                       \/ (t = "IDAT" /\ type = "IDAT"))
      BY <2>2 DEF ToSet
    <3>1. t \in Type
      BY <2>2 DEF ToSet
    <3>2. Rank(t) <= Rank(type) /\ (type # "IDAT" => Rank(t) < Rank(type))
      BY <2>1, <2>3 DEF RunInv, SeenInv, Fresh
    <3> QED
      BY <2>2, <3>1, <3>2, RankOfType
  <2>5. InOrder(seen') /\ ToSet(seen') = Met /\ Last(seen') = type
    BY <2>1, <2>2, <2>4, InOrderAppend, AppendSet DEF RunInv, SeenInv, Met
  <2>6. UNCHANGED <<cb, interlaced, rows, palette, alphas, useTransparent, idatLength,
                    buf, row, model, shown, largest, damaged, failed>>
    BY <2>1 DEF header, colors, pixels, faults
  <2>7. /\ stage >= 1 => cb \in Supported /\ ConfigModel \in Models
        /\ palette \in 0..256 /\ rows \in Nat
        /\ config \in [model : Models, palette : 0..256, rows : Nat] \cup {NoConfig}
    BY <2>1, Tables DEF RunInv, PixelInv, DecoderInv, TypeOK
  <2>11. /\ stage = 1 /\ ~cbPaletted(cb) => ConfigDone
         /\ stage = 2 /\ cbPaletted(cb) => ConfigDone
         /\ ConfigDone => stage \in 1..2 /\ (stage = 1 => ~cbPaletted(cb))
    BY DEF ConfigDone, dsSeenIHDR, dsSeenPLTE
  <2>12. config' \in [model : Models, palette : 0..256, rows : Nat] \cup {NoConfig}
    BY <2>1, <2>7, <2>11
  <2>13. "none" \notin Models /\ NoConfig.model = "none"
    BY DEF Models, NoConfig
  <2>8. /\ config' # NoConfig => config'.model = ConfigModel /\ config'.rows = rows
        /\ config' # NoConfig /\ cbPaletted(cb)
             => config'.palette <= palette /\ palette \in {config'.palette, alphas}
        /\ stage = 0 => config' = NoConfig
        /\ cbPaletted(cb) /\ stage = 1 => config' = NoConfig
        /\ stage >= 1 /\ ~cbPaletted(cb) => config' # NoConfig
        /\ stage >= 2 /\ cbPaletted(cb) => config' # NoConfig
    <3>2. stage > 1 => type # "IHDR"
      BY <2>3, Ranks
    <3>3. stage > 2 => type # "PLTE"
      BY <2>3, Ranks
    <3>4. CASE config = NoConfig /\ ConfigDone
      <4>1. config' = [model |-> ConfigModel, palette |-> palette, rows |-> rows]
        BY <2>1, <3>4
      <4>2. config'.model = ConfigModel /\ config'.palette = palette /\ config'.rows = rows
        BY <4>1
      <4>3. config' # NoConfig
        BY <2>7, <2>11, <2>13, <3>4, <4>2
      <4> QED
        BY <2>7, <2>11, <3>4, <4>2, <4>3
    <3>5. CASE ~(config = NoConfig /\ ConfigDone)
      <4>1. config' = config
        BY <2>1, <3>5
      <4> QED
        BY <2>1, <2>2, <2>11, <3>2, <3>3, <3>5, <4>1 DEF RunInv, ConfigInv
    <3> QED
      BY <3>4, <3>5
  <2>9. CASE stage = 5 /\ Return("nil")
    <3>1. TypeOK'
      BY <2>1, <2>2, <2>6, <2>9, <2>12 DEF DecoderInv, TypeOK, Return
    <3>2. AcceptedIsComplete'
      BY <2>1, <2>5, <2>6, <2>9
         DEF RunInv, StageInv, SeenInv, PixelInv, AcceptedIsComplete, cbPaletted, Met
    <3>3. ConfigIsImages'
      <4>1. /\ config' # NoConfig /\ config'.model = ConfigModel /\ config'.rows = rows
            /\ cb \in Supported /\ palette \in 0..256 /\ rows \in Nat /\ row = rows
        BY <2>1, <2>7, <2>8, <2>9 DEF RunInv, PixelInv
      <4>2. /\ model = ImageModel
            /\ cbPaletted(cb) => palette <= shown /\ (shown = palette \/ shown <= largest + 1)
        BY <2>1, <4>1 DEF RunInv, ImageInv
      <4>3. model = IF "tRNS" \in Met THEN Transparent[ConfigModel] ELSE ConfigModel
        <5>1. /\ useTransparent => "tRNS" \in Met
              /\ "tRNS" \in Met => /\ cb[2] \in {ctGrayscale, ctTrueColor, ctPaletted}
                                   /\ ~cbPaletted(cb) => useTransparent
          BY <2>1 DEF RunInv, SeenInv
        <5>2. cb[2] = ctPaletted => cbPaletted(cb)
          BY <4>1, SupportedFormats DEF cbPaletted
        <5> QED
          BY <4>1, <4>2, <5>1, <5>2, Tables
      <4>4. ASSUME ConfigModel = "Palette"
            PROVE  /\ config'.palette <= shown
                   /\ shown \in {config'.palette, alphas} \cup 0..(largest + 1)
        <5>1. cbPaletted(cb)
          BY <4>1, <4>4, Tables
        <5>2. config'.palette <= palette /\ palette \in {config'.palette, alphas}
          BY <2>8, <4>1, <5>1
        <5>3. config'.palette \in 0..256 /\ shown \in 0..256 /\ largest \in Int
          BY <2>12, <4>1 DEF DecoderInv, TypeOK
        <5> QED
          BY <4>1, <4>2, <5>1, <5>2, <5>3
      <4> QED
        BY <2>5, <2>6, <4>1, <4>3, <4>4 DEF ConfigIsImages
    <3>4. PlainPaletteCovers'
      <4>1. row >= 0
        BY <2>1, <2>9 DEF RunInv, PixelInv, DecoderInv, TypeOK
      <4> QED
        BY <2>1, <2>6, <4>1 DEF RunInv, PixelInv, PlainPaletteCovers, cbPaletted, Depth
    <3> QED
      BY <2>9, <3>1, <3>2, <3>3, <3>4 DEF DecoderInv, NoPanic, Return
  <2>10. CASE stage # 5 /\ Goto("chunk")
    <3>1. TypeOK'
      BY <2>1, <2>2, <2>6, <2>10, <2>12 DEF DecoderInv, TypeOK, Goto
    <3>2. StageInv' /\ ColorInv'
      BY <2>1, <2>6, <2>10 DEF RunInv, StageInv, ColorInv, Goto, Parsing, cbPaletted
    <3>3. SeenInv'
      <4>1. Met' = Met /\ type' \in ToSet(seen')
        BY <2>1, <2>5 DEF Met
      <4>2. \A t \in Met : t # "other" => Rank(t) <= stage
        BY <2>1, <2>2, <2>3 DEF RunInv, SeenInv, Met, RankOfType
      <4>3. ~Fresh'
        BY <2>10 DEF Fresh, Goto, Parsing
      <4> QED
        BY <2>1, <2>5, <2>6, <4>1, <4>2, <4>3 DEF RunInv, SeenInv, cbPaletted
    <3>4. PixelInv'
      BY <2>1, <2>2, <2>6, <2>10 DEF RunInv, PixelInv, Goto, cbPaletted, Depth
    <3>6. ImageInv'
      BY <2>1, <2>6 DEF RunInv, ImageInv, ImageModel, cbPaletted
    <3>5. ConfigInv'
      BY <2>1, <2>2, <2>6, <2>8, <2>10 DEF ConfigInv, ConfigModel, Goto, cbPaletted
    <3> QED
      BY <2>1, <2>6, <2>10, <3>1, <3>2, <3>3, <3>4, <3>5, <3>6, Onward DEF Goto, RunInv
  <2> QED
    BY <2>1, <2>9, <2>10
<1> QED
  BY <1>1, <1>2

-----------------------------------------------------------------------------
(* Below zlib only the pixels change, and the chunks by IDAT. *)

LEMMA InZlib ==
  ASSUME DecoderInv, pc \in {"zlib", "next"}
  PROVE  /\ RunInv /\ stage = 4 /\ type = "IDAT" /\ type \in Type
         /\ cb \in Supported /\ rows > 0 /\ (cbPaletted(cb) => palette # 0)
         /\ (~cbPaletted(cb) => config # NoConfig)
         /\ (cbPaletted(cb) => config # NoConfig)
BY DEF DecoderInv, TypeOK, RunInv, StageInv, PixelInv, ColorInv, ConfigInv

\* What does not change as long as zlib reads.
LEMMA StillInZlib ==
  ASSUME DecoderInv, pc \in {"zlib", "next"}, pc' \in {"zlib", "next", "checksum"},
         UNCHANGED <<result, stage, type, config, header, colors, faults>>,
         UNCHANGED seen \/ seen' = Append(seen, type)
  PROVE  StageInv' /\ SeenInv' /\ ColorInv' /\ ConfigInv' /\ seen' \in Seq(Type)
<1> USE DEF header, colors, faults
<1>1. RunInv /\ stage = 4 /\ type = "IDAT" /\ type \in Type /\ config # NoConfig
  BY InZlib
<1>2. seen \in Seq(Type)
  BY DEF DecoderInv, TypeOK
<1>3. \A t \in ToSet(seen) : t = "other" \/ type = "other" \/ Rank(t) < Rank(type)
                             \/ (t = "IDAT" /\ type = "IDAT")
  <2> SUFFICES ASSUME NEW t \in ToSet(seen), t # "other"
               PROVE  Rank(t) < Rank(type) \/ t = "IDAT"
    BY <1>1
  <2>1. t \in Type
    BY <1>2 DEF ToSet
  <2>2. Rank(t) <= 4
    BY <1>1 DEF RunInv, SeenInv
  <2> QED
    BY <1>1, <2>1, <2>2, Ranks, RankOfType
<1>11. InOrder(seen)
  BY <1>1 DEF RunInv, SeenInv
<1>4. /\ seen' \in Seq(Type) /\ InOrder(seen') /\ Met' = Met
      /\ ToSet(seen') \subseteq Met
  <2>1. CASE UNCHANGED seen
    BY <1>2, <1>11, <2>1 DEF Met
  <2>2. CASE seen' = Append(seen, type)
    <3>1. ToSet(seen') = ToSet(seen) \cup {type}
      BY <1>1, <1>2, <2>2, AppendSet
    <3>2. seen' \in Seq(Type) /\ InOrder(seen')
      BY <1>1, <1>2, <1>3, <1>11, <2>2, InOrderAppend
    <3> QED
      BY <3>1, <3>2 DEF Met
  <2> QED
    BY <2>1, <2>2
<1>5. StageInv' /\ ColorInv'
  BY <1>1, Ranks DEF RunInv, StageInv, ColorInv, Parsing, cbPaletted
<1>9. ConfigInv'
  <2>1. ConfigModel' = ConfigModel /\ (cbPaletted(cb)' <=> cbPaletted(cb))
    BY DEF ConfigModel, cbPaletted
  <2> QED
    BY <1>1, <2>1 DEF RunInv, ConfigInv
<1>6. ~Fresh'
  BY <1>1 DEF Fresh, Parsing
<1>7. \A t \in ToSet(seen') : t # "other" => Rank(t) <= stage'
  BY <1>1, <1>4, Ranks DEF RunInv, SeenInv, Met
<1>8. SeenInv'
  BY <1>1, <1>4, <1>6, <1>7 DEF RunInv, SeenInv, cbPaletted
<1> QED
  BY <1>4, <1>5, <1>8, <1>9

LEMMA SameImageInv ==
  ASSUME RunInv, UNCHANGED <<row, model, shown, largest, header, colors>>
  PROVE  ImageInv'
<1>1. ImageModel' = ImageModel /\ (cbPaletted(cb)' <=> cbPaletted(cb))
  BY DEF ImageModel, cbPaletted, header, colors
<1> QED
  BY <1>1 DEF RunInv, ImageInv, colors

LEMMA ReadStep ==
  ASSUME DecoderInv, NEW units \in Seq(Unit), Read(units)
  PROVE  DecoderInv'
<1>1. /\ pc = "zlib" /\ idatLength' = idatLength - Len(units) /\ buf' = units
      /\ Len(units) \in 1..idatLength
      /\ UNCHANGED <<pc, result, row, model, shown, largest, header, colors, chunks, faults>>
  BY DEF Read
<1>2. RunInv /\ stage = 4
  BY <1>1, InZlib
<1> USE DEF header, colors, chunks, faults
<1>3. TypeOK'
  BY <1>1 DEF DecoderInv, TypeOK
<1>4. PixelInv'
  BY <1>1, <1>2 DEF RunInv, PixelInv, cbPaletted, Depth
<1>5. ImageInv'
  BY <1>1, <1>2, SameImageInv
<1>6. StageInv' /\ SeenInv' /\ ColorInv' /\ ConfigInv'
  BY <1>1, StillInZlib
<1> QED
  BY <1>1, <1>2, <1>3, <1>4, <1>5, <1>6, Onward DEF RunInv

LEMMA ReadChecksumStep ==
  ASSUME DecoderInv, NEW good \in BOOLEAN, ReadChecksum(good)
  PROVE  DecoderInv'
<1>1. CASE Reject("FormatError")
  BY <1>1, Calm, ErrorNames
<1>2. CASE ~Reject("FormatError")
  <2>1. /\ pc = "zlib" /\ buf = <<>> /\ idatLength = 0
        /\ seen' = Append(seen, type)
        /\ Goto("next")
        /\ UNCHANGED <<stage, type, length, config, header, colors, pixels, faults>>
    BY <1>2 DEF ReadChecksum
  <2> USE DEF header, colors, pixels, faults, Goto
  <2>2. RunInv /\ stage = 4
    BY <2>1, InZlib
  <2>3. TypeOK'
    BY <2>1, StillInZlib DEF DecoderInv, TypeOK
  <2>4. PixelInv'
    BY <2>1, <2>2 DEF RunInv, PixelInv, cbPaletted, Depth
  <2>5. ImageInv'
    BY <2>1, <2>2, SameImageInv
  <2>6. StageInv' /\ SeenInv' /\ ColorInv' /\ ConfigInv'
    BY <2>1, StillInZlib
  <2> QED
    BY <2>1, <2>2, <2>3, <2>4, <2>5, <2>6, Onward DEF RunInv
<1> QED
  BY <1>1, <1>2

LEMMA ReadNextStep ==
  ASSUME DecoderInv, NEW t \in Type, NEW len \in Nat, ReadNext(t, len)
  PROVE  DecoderInv'
<1>1. CASE Reject("FormatError")
  BY <1>1, Calm, ErrorNames
<1>2. CASE ~Reject("FormatError")
  <2>1. /\ pc = "next" /\ idatLength' = len
        /\ Goto("zlib")
        /\ UNCHANGED <<buf, row, model, shown, largest, header, colors, chunks, faults>>
    BY <1>2 DEF ReadNext
  <2> USE DEF header, colors, chunks, faults, Goto
  <2>2. RunInv /\ stage = 4
    BY <2>1, InZlib
  <2>3. TypeOK'
    BY <2>1 DEF DecoderInv, TypeOK
  <2>4. PixelInv'
    BY <2>1, <2>2 DEF RunInv, PixelInv, cbPaletted, Depth
  <2>5. ImageInv'
    BY <2>1, <2>2, SameImageInv
  <2>6. StageInv' /\ SeenInv' /\ ColorInv' /\ ConfigInv'
    BY <2>1, StillInZlib
  <2> QED
    BY <2>1, <2>2, <2>3, <2>4, <2>5, <2>6, Onward DEF RunInv
<1> QED
  BY <1>1, <1>2

\* The unit that fits: the header, a row, and the end when all rows are there.
LEMMA InflateCases ==
  ASSUME rows \in Nat, row \in -1..rows, NEW u, InflateError(u) = "none"
  PROVE  \/ row = -1 /\ u = "head"
         \/ row \in 0..(rows - 1) /\ u = "row"
         \/ row = rows /\ u = "end" /\ idatLength = 0
<1>1. CASE row = -1
  BY <1>1 DEF InflateError
<1>2. CASE row \in 0..(rows - 1)
  BY <1>2 DEF InflateError
<1>3. CASE row = rows
  BY <1>3 DEF InflateError
<1> QED
  BY <1>1, <1>2, <1>3

LEMMA ExtendedCovers ==
  ASSUME shown \in 0..256, NEW idx \in 0..255
  PROVE  /\ Extended(idx) \in 0..256
         /\ ~interlaced /\ (Depth(cb) = 8 => Extended(idx) # 255)
              => /\ Depth(cb) = 8 => shown # 255
                 /\ idx < Extended(idx) /\ shown <= Extended(idx)
BY DEF Extended

LEMMA InflateTypes ==
  ASSUME TypeOK, pc = "zlib", pc' \in {"zlib", "checksum"},
         UNCHANGED <<result, idatLength, header, colors, chunks, faults>>,
         buf' \in Seq(Unit), row' \in -1..rows, model' \in Models \cup {"none"},
         shown' \in 0..256, largest' \in Int
  PROVE  TypeOK'
<1>1. UNCHANGED <<result, idatLength, cb, interlaced, rows, palette, alphas,
                  useTransparent, stage, type, length, seen, config, damaged, failed>>
  BY DEF header, colors, chunks, faults
<1>2. result = "none"
  BY DEF TypeOK
<1> QED
  BY <1>1, <1>2 DEF TypeOK

LEMMA InflateStep ==
  ASSUME DecoderInv, NEW idx \in 0..255, Inflate(idx)
  PROVE  DecoderInv'
<1> DEFINE u == Head(buf)
<1>1. pc = "zlib" /\ buf # <<>>
  BY DEF Inflate
<1>2. /\ RunInv /\ stage = 4 /\ rows > 0 /\ cb \in Supported
      /\ cbPaletted(cb) => palette # 0
  BY <1>1, InZlib
<1>3. InflateError(u) \in Errors \cup {"none"}
  BY ErrorNames DEF InflateError
<1>4. CASE InflateError(u) # "none"
  BY <1>3, <1>4, Calm DEF Inflate
<1>5. CASE InflateError(u) = "none"
  <2>1. /\ Goto(IF u = "end" THEN "checksum" ELSE "zlib")
        /\ buf' = IF u = "end" THEN <<>> ELSE Tail(buf)
        /\ row' = IF u = "end" THEN row ELSE row + 1
        /\ model' = IF u = "head" THEN ImageModel ELSE model
        /\ shown' = CASE u = "head" -> palette
                      [] u = "row" /\ cbPaletted(cb) -> Extended(idx)
                      [] OTHER -> shown
        /\ largest' = IF u = "row" /\ cbPaletted(cb) /\ largest < idx THEN idx
                      ELSE largest
        /\ UNCHANGED <<idatLength, header, colors, chunks, faults>>
    BY <1>5 DEF Inflate
  <2> HIDE DEF u
  <2> USE DEF header, colors, chunks, faults
  <2>2. /\ rows \in Nat /\ row \in -1..rows /\ shown \in 0..256 /\ palette \in 0..256
        /\ largest \in Int /\ buf \in Seq(Unit) /\ model \in Models \cup {"none"}
        /\ ImageModel \in Models
    BY <1>2, Tables DEF DecoderInv, TypeOK
  <2>3. \/ row = -1 /\ u = "head"
        \/ row \in 0..(rows - 1) /\ u = "row"
        \/ row = rows /\ u = "end" /\ idatLength = 0
    BY <1>5, <2>2, InflateCases
  <2>4. buf' \in Seq(Unit)
    BY <1>1, <2>1, <2>2, HeadTailProperties, EmptySeq
  <2>5. /\ pc' = (IF u = "end" THEN "checksum" ELSE "zlib") /\ UNCHANGED result
        /\ UNCHANGED <<stage, rows, cb, interlaced, palette, useTransparent, idatLength>>
        /\ ImageModel' = ImageModel /\ (cbPaletted(cb)' <=> cbPaletted(cb))
    BY <2>1 DEF Goto, ImageModel, cbPaletted
  <2>6. CASE row = -1 /\ u = "head"
    <3>1. row' = 0 /\ shown' = palette /\ largest' = largest /\ pc' = "zlib"
          /\ model' = ImageModel
      BY <2>1, <2>5, <2>6
    <3>2. TypeOK'
      BY <1>1, <1>2, <2>1, <2>2, <2>4, <2>5, <3>1, InflateTypes DEF DecoderInv
    <3>3. largest = -1
      BY <1>2, <2>6 DEF RunInv, PixelInv
    <3>4. PixelInv'
      BY <1>2, <2>2, <2>5, <3>1, <3>3 DEF PixelInv, cbPaletted
    <3>5. ImageInv'
      BY <2>2, <2>5, <3>1 DEF ImageInv
    <3> QED
      BY <1>1, <1>2, <2>1, <2>5, <3>1, <3>2, <3>4, <3>5, StillInZlib, Onward DEF RunInv
  <2>7. CASE row \in 0..(rows - 1) /\ u = "row"
    <3>1. /\ row' = row + 1 /\ pc' = "zlib" /\ model' = model
          /\ shown' = IF cbPaletted(cb) THEN Extended(idx) ELSE shown
          /\ largest' = IF cbPaletted(cb) /\ largest < idx THEN idx ELSE largest
      BY <2>1, <2>5, <2>7
    <3>2. TypeOK'
      <4>1. /\ row' \in -1..rows /\ shown' \in 0..256 /\ largest' \in Int
            /\ model' \in Models \cup {"none"}
        <5>1. Extended(idx) \in 0..256
          BY <2>2, ExtendedCovers
        <5>2. row' \in -1..rows
          BY <2>2, <2>7, <3>1
        <5>3. shown' \in 0..256
          BY <2>2, <3>1, <5>1, Zenon
        <5>4. largest' \in Int
          <6>1. largest \in Int /\ idx \in Int
            BY <2>2
          <6> QED
            BY <3>1, <6>1, Zenon
        <5> QED
          BY <2>2, <3>1, <5>2, <5>3, <5>4, Zenon
      <4> QED
        BY <1>1, <2>1, <2>4, <2>5, <3>1, <4>1, InflateTypes DEF DecoderInv
    <3>3. row' >= 0 /\ cbPaletted(cb) /\ ~interlaced /\ (Depth(cb) = 8 => shown' # 255)
            => largest' < shown'
      <4> SUFFICES ASSUME cbPaletted(cb), ~interlaced, Depth(cb) = 8 => shown' # 255
                   PROVE  largest' < shown'
        BY Zenon
      <4>3. shown' = Extended(idx)
        BY <3>1, Zenon
      <4>4. shown \in 0..256
        BY <2>2
      <4>1. shown' = Extended(idx) /\ idx < shown' /\ shown <= shown' /\ shown' \in 0..256
            /\ (Depth(cb) = 8 => shown # 255)
        <5>1. Depth(cb) = 8 => Extended(idx) # 255
          BY <4>3, Zenon
        <5>2. /\ idx < Extended(idx) /\ shown <= Extended(idx)
              /\ Extended(idx) \in 0..256 /\ (Depth(cb) = 8 => shown # 255)
          BY <4>4, <5>1, ExtendedCovers, Zenon
        <5> QED
          BY <4>3, <5>2, Zenon
      <4>2. largest < shown
        BY <1>2, <2>7, <4>1 DEF RunInv, PixelInv
      <4> QED
        BY <2>2, <3>1, <4>1, <4>2
    <3>4. PixelInv'
      BY <1>2, <2>5, <2>7, <3>1, <3>3 DEF PixelInv, cbPaletted, Depth
    <3>5. ImageInv'
      <4>1. /\ model = ImageModel
            /\ cbPaletted(cb) => palette <= shown
            /\ cbPaletted(cb) => shown = palette \/ shown <= largest + 1
        BY <1>2, <2>2, <2>7 DEF RunInv, ImageInv
      <4>2. ASSUME cbPaletted(cb)
            PROVE  palette <= shown' /\ (shown' = palette \/ shown' <= largest' + 1)
        <5>1. /\ shown' = Extended(idx)
              /\ largest' = IF largest < idx THEN idx ELSE largest
          BY <3>1, <4>2
        <5>2. Extended(idx) \in {shown, idx + 1} /\ shown <= Extended(idx)
          BY <2>2 DEF Extended
        <5> QED
          BY <2>2, <4>1, <4>2, <5>1, <5>2
      <4> QED
        BY <2>5, <3>1, <4>1, <4>2 DEF ImageInv
    <3> QED
      BY <1>1, <1>2, <2>1, <2>5, <3>1, <3>2, <3>4, <3>5, StillInZlib, Onward DEF RunInv
  <2>8. CASE row = rows /\ u = "end" /\ idatLength = 0
    <3>1. row' = row /\ shown' = shown /\ largest' = largest /\ pc' = "checksum"
          /\ buf' = <<>> /\ model' = model
      BY <2>1, <2>5, <2>8
    <3>2. TypeOK'
      BY <1>1, <2>1, <2>2, <2>4, <2>5, <3>1, InflateTypes DEF DecoderInv
    <3>3. PixelInv'
      BY <1>2, <2>2, <2>5, <2>8, <3>1 DEF RunInv, PixelInv, cbPaletted, Depth
    <3>4. ImageInv'
      BY <1>2, <2>5, <3>1 DEF RunInv, ImageInv
    <3> QED
      BY <1>1, <1>2, <2>1, <2>5, <3>1, <3>2, <3>3, <3>4, StillInZlib, Onward DEF RunInv
  <2> QED
    BY <2>3, <2>6, <2>7, <2>8
<1> QED
  BY <1>4, <1>5

LEMMA TruncatedStep ==
  ASSUME DecoderInv, NEW e \in {"EOF", "ErrUnexpectedEOF", "read error"}, Truncated(e)
  PROVE  DecoderInv'
<1>1. PICK r \in Errors : Return(r)
  BY ErrorNames DEF Truncated
<1>2. /\ UNCHANGED <<header, colors, pixels, chunks>>
      /\ damaged' \in BOOLEAN /\ failed' \in BOOLEAN
  BY DEF Truncated
<1> QED
  BY <1>1, <1>2, Rejected

-----------------------------------------------------------------------------

LEMMA DecoderNextInv == DecoderInv /\ [Next]_vars => DecoderInv'
<1> SUFFICES ASSUME DecoderInv, [Next]_vars PROVE DecoderInv'
  OBVIOUS
<1>1. CASE \E good \in BOOLEAN :
             CheckHeader(good) \/ verifyChecksum(good) \/ ReadChecksum(good)
  BY <1>1, CheckHeaderStep, verifyChecksumStep, ReadChecksumStep
<1>2. CASE \E t \in Type : \E len \in Lengths(t) :
             ReadChunkHeader(t, len) \/ ReadNext(t, len)
  <2>1. \A t \in Type : Lengths(t) \subseteq Nat
    BY DecoderAssumption, CheckedTypes DEF Lengths
  <2> QED
    BY <1>2, <2>1, ReadChunkHeaderStep, ReadNextStep
<1>3. CASE \E h \in Headers : parseIHDR(h)
  BY <1>3, DecoderAssumption, parseIHDRStep
<1>4. CASE parsePLTE \/ parsetRNS \/ parseIEND
  BY <1>4, parsePLTEStep, parsetRNSStep, parseIENDStep
<1>5. CASE \E n \in 1..BufferSize : \E units \in [1..n -> Unit] : Read(units)
  <2>1. \A n \in 1..BufferSize : [1..n -> Unit] \subseteq Seq(Unit)
    BY DecoderAssumption
  <2> QED
    BY <1>5, <2>1, ReadStep
<1>6. CASE \E idx \in Indices : Inflate(idx)
  BY <1>6, DecoderAssumption, InflateStep
<1>7. CASE \E e \in {"EOF", "ErrUnexpectedEOF", "read error"} : Truncated(e)
  BY <1>7, TruncatedStep
<1>8. CASE UNCHANGED vars
  <2> USE DEF vars, header, colors, pixels, chunks, faults
  <2>1. TypeOK' /\ NoPanic'
    BY <1>8 DEF DecoderInv, TypeOK, NoPanic
  <2>2. cbPaletted(cb)' = cbPaletted(cb) /\ ConfigModel' = ConfigModel
        /\ ImageModel' = ImageModel
    BY <1>8 DEF cbPaletted, ConfigModel, ImageModel
  <2>3. AcceptedIsComplete' /\ ConfigIsImages' /\ PlainPaletteCovers'
    BY <1>8, <2>2 DEF DecoderInv, AcceptedIsComplete, ConfigIsImages, PlainPaletteCovers
  <2>4. RunInv => StageInv' /\ ColorInv' /\ PixelInv' /\ ImageInv' /\ ConfigInv'
    BY <1>8, <2>2 DEF RunInv, StageInv, ColorInv, PixelInv, ImageInv, ConfigInv
  <2>5. RunInv => SeenInv'
    BY <1>8, <2>2 DEF RunInv, SeenInv, Fresh, Met
  <2> QED
    BY <1>8, <2>1, <2>3, <2>4, <2>5 DEF DecoderInv, RunInv
<1> QED
  BY <1>1, <1>2, <1>3, <1>4, <1>5, <1>6, <1>7, <1>8 DEF Next

LEMMA DecoderInvariant == Spec => []DecoderInv
BY DecoderInitInv, DecoderNextInv, PTL DEF Spec

\* Every variable keeps its type for any file; io.EOF never leaves Decode.
THEOREM DecoderTypeCorrect == Spec => []TypeOK
<1>1. DecoderInv => TypeOK
  BY DEF DecoderInv
<1> QED
  BY <1>1, DecoderInvariant, PTL

\* parsetRNS does not panic, for any file.
THEOREM DecoderDoesNotPanic == Spec => []NoPanic
<1>1. DecoderInv => NoPanic
  BY DEF DecoderInv
<1> QED
  BY <1>1, DecoderInvariant, PTL

\* What Decode returns an image for is a complete file (reader.go:91), whatever
\* its chunks, their lengths and the cuts between the IDAT chunks.
THEOREM AcceptsOnlyComplete == Spec => []AcceptedIsComplete
<1>1. DecoderInv => AcceptedIsComplete
  BY DEF DecoderInv
<1> QED
  BY <1>1, DecoderInvariant, PTL

\* DecodeConfig, which stops at the header or the palette, says what Decode does,
\* but for the transparency and the palette entries that come later: the two tables
\* of color models (reader.go:440, 1005) agree for every file that Decode accepts.
THEOREM ConfigAgrees == Spec => []ConfigIsImages
<1>1. DecoderInv => ConfigIsImages
  BY DEF DecoderInv
<1> QED
  BY <1>1, DecoderInvariant, PTL

\* The palette of the image has an entry for every pixel, where readImagePass
\* keeps to what the comment at reader.go:251 says.
THEOREM PaletteExtended == Spec => []PlainPaletteCovers
<1>1. DecoderInv => PlainPaletteCovers
  BY DEF DecoderInv
<1> QED
  BY <1>1, DecoderInvariant, PTL

-----------------------------------------------------------------------------
(* Powers of two: the backends do not compute them, but know that a set has *)
(* so many subsets. *)

LEMMA PowerDouble ==
  ASSUME NEW n \in Nat
  PROVE  2^n \in Nat /\ 2^(n + 1) = 2^n + 2^n
<1>. DEFINE A == SUBSET (1..n)
            B == {T \cup {n + 1} : T \in A}
            f == [T \in A |-> T \cup {n + 1}]
<1>1. IsFiniteSet(A) /\ Cardinality(A) = 2^n
  <2>1. IsFiniteSet(1..n) /\ Cardinality(1..n) = n
    BY FS_Interval
  <2> QED
    BY <2>1, FS_SUBSET
<1>2. IsFiniteSet(SUBSET (1..(n + 1))) /\ Cardinality(SUBSET (1..(n + 1))) = 2^(n + 1)
  <2>1. IsFiniteSet(1..(n + 1)) /\ Cardinality(1..(n + 1)) = n + 1
    BY FS_Interval
  <2> QED
    BY <2>1, FS_SUBSET
<1>3. 1..(n + 1) = (1..n) \cup {n + 1} /\ n + 1 \notin 1..n
  OBVIOUS
<1>4. SUBSET (1..(n + 1)) = A \cup B /\ A \cap B = {}
  <2>1. ASSUME NEW T \in SUBSET (1..(n + 1)), n + 1 \in T
        PROVE  T \ {n + 1} \in A /\ T = (T \ {n + 1}) \cup {n + 1}
    BY <1>3, <2>1
  <2>2. ASSUME NEW T \in SUBSET (1..(n + 1)) PROVE T \in A \cup B
    <3>1. CASE n + 1 \in T
      <4>1. T \ {n + 1} \in A /\ T = (T \ {n + 1}) \cup {n + 1}
        BY <2>1, <3>1
      <4> QED
        BY <4>1
    <3>2. CASE n + 1 \notin T
      BY <1>3, <3>2
    <3> QED
      BY <3>1, <3>2
  <2>3. A \cup B \subseteq SUBSET (1..(n + 1))
    BY <1>3
  <2>4. A \cap B = {}
    BY <1>3
  <2>5. SUBSET (1..(n + 1)) \subseteq A \cup B
    BY <2>2
  <2>. HIDE DEF A, B
  <2> QED
    BY <2>3, <2>4, <2>5
<1>5. f \in Bijection(A, B)
  <2>1. \A T, U \in A : f[T] = f[U] => T = U
    BY <1>3
  <2>2. f \in [A -> B] /\ \A U \in B : \E T \in A : f[T] = U
    OBVIOUS
  <2> QED
    BY <2>1, <2>2 DEF Bijection, Injection, Surjection, IsInjective
<1>6. IsFiniteSet(B) /\ Cardinality(B) = 2^n
  BY <1>1, <1>5, FS_Bijection DEF ExistsBijection
<1>. HIDE DEF A, B
<1>7. Cardinality(A \cup B) = Cardinality(A) + Cardinality(B) - Cardinality(A \cap B)
  BY <1>1, <1>6, FS_Union
<1>8. Cardinality(A \cap B) = 0 /\ Cardinality(A) \in Nat
  BY <1>1, <1>4, FS_EmptySet, FS_CardinalityType
<1>9. 2^n \in Nat /\ Cardinality(A \cup B) = 2^n + 2^n
  <2>1. \A k, l \in Nat : l = 0 => k + k - l = k + k
    OBVIOUS
  <2> QED
    BY <1>1, <1>6, <1>7, <1>8, <2>1
<1> QED
  BY <1>2, <1>4, <1>9

\* What parsePLTE compares the palette's length with.
LEMMA Powers == 2^1 = 2 /\ 2^2 = 4 /\ 2^4 = 16 /\ 2^8 = 256
<1>1. 2^0 = 1
  <2>1. IsFiniteSet(SUBSET {}) /\ Cardinality(SUBSET {}) = 2^0
    BY FS_EmptySet, FS_SUBSET
  <2>2. SUBSET {} = {{}}
    OBVIOUS
  <2> QED
    BY <2>1, <2>2, FS_Singleton
<1>2. 2^(0 + 1) = 2 /\ 2^(1 + 1) = 2^1 + 2^1 /\ 2^(2 + 1) = 2^2 + 2^2
  BY <1>1, PowerDouble
<1>3. 2^(3 + 1) = 2^3 + 2^3 /\ 2^(4 + 1) = 2^4 + 2^4 /\ 2^(5 + 1) = 2^5 + 2^5
  BY PowerDouble
<1>4. 2^(6 + 1) = 2^6 + 2^6 /\ 2^(7 + 1) = 2^7 + 2^7
  BY PowerDouble
<1>5. 0 + 1 = 1 /\ 1 + 1 = 2 /\ 2 + 1 = 3 /\ 3 + 1 = 4 /\ 4 + 1 = 5 /\ 5 + 1 = 6 /\ 6 + 1 = 7 /\ 7 + 1 = 8
  OBVIOUS
<1> QED
  BY <1>2, <1>3, <1>4, <1>5

-----------------------------------------------------------------------------
(* The file, whatever part of it is written. *)

\* b carries the pixels on from a unit.
Pixels(b, from) ==
  /\ b.type = "IDAT" /\ from \in Nat /\ b.length \in Nat \ {0}
  /\ b.units = Run(from, b.length) /\ from + b.length <= img.rows + 2

Succeeds(a, b) ==
  /\ a.parts = 3 /\ a.type # "IEND" /\ b.type # "signature"
  /\ a.type = "signature" => b.type = "IHDR" /\ b.length = 13
  /\ a.type = "IHDR" /\ img.palette # -1 =>
       b.type = "PLTE" /\ b.length = 3 * img.palette /\ img.palette \in 1..256
  /\ a.type = "PLTE" /\ img.alphas # 0 => b.type = "tRNS" /\ b.length = img.alphas
  /\ \/ a.type = "IHDR" /\ img.palette = -1
     \/ a.type = "PLTE" /\ img.alphas = 0
     \/ a.type = "tRNS"
     => Pixels(b, 0)
  /\ a.type = "IDAT" =>
       IF Last(a.units) = img.rows + 1 THEN b.type = "IEND" /\ b.length = 0
       ELSE Pixels(b, Last(a.units) + 1)

Shape ==
  /\ file # <<>> => file[1].type = "signature"
  /\ \A k \in 1..(Len(file) - 1) : Succeeds(file[k], file[k + 1])

LEMMA FileType ==
  ASSUME EncoderTypeOK
  PROVE  /\ file \in Seq(ChunkType) /\ Len(file) \in Nat
         /\ \A k \in 1..Len(file) : file[k] \in ChunkType
         /\ file # <<>> => Len(file) >= 1 /\ Last(file) = file[Len(file)]
<1>1. file \in Seq(ChunkType)
  BY DEF EncoderTypeOK, ChunkType, ChunkTypes
<1> QED
  BY <1>1 DEF Last

LEMMA PixelUnits ==
  ASSUME img.rows \in Nat, NEW b, NEW from, Pixels(b, from)
  PROVE  /\ Last(b.units) = from + b.length - 1 /\ Last(b.units) \in 0..(img.rows + 1)
         /\ b.units \in Seq(Nat) /\ Len(b.units) = b.length
         /\ \A k \in 1..b.length : b.units[k] = from + k - 1
<1>1. from \in Nat /\ b.length \in Nat /\ b.length > 0 /\ b.units = Run(from, b.length)
  BY DEF Pixels
<1>2. Last(Run(from, b.length)) = from + b.length - 1
  BY <1>1, RunLemma
<1>3. /\ Run(from, b.length) \in Seq(Nat) /\ Len(Run(from, b.length)) = b.length
      /\ \A k \in 1..b.length : Run(from, b.length)[k] = from + k - 1
  BY <1>1, RunIsSeq
<1>4. from + b.length - 1 \in 0..(img.rows + 1)
  BY <1>1 DEF Pixels
<1> QED
  BY <1>1, <1>2, <1>3, <1>4

\* A chunk with pixels has a predecessor.
LEMMA PixelChunk ==
  ASSUME EncoderTypeOK, Shape, NEW k \in 1..Len(file), file[k].type = "IDAT"
  PROVE  \E from \in Nat : Pixels(file[k], from)
<1>1. k # 1
  BY FileType DEF Shape
<1>2. k - 1 \in 1..(Len(file) - 1) /\ (k - 1) + 1 = k
  BY <1>1, FileType
<1>. DEFINE a == file[k - 1]
<1>3. Succeeds(a, file[k]) /\ a \in ChunkType
  <2>1. Succeeds(file[k - 1], file[(k - 1) + 1])
    BY <1>2 DEF Shape
  <2>2. k - 1 \in 1..Len(file)
    BY <1>2, FileType
  <2> QED
    BY <1>2, <2>1, <2>2, FileType
<1>4. a.type \in ChunkTypes
  BY <1>3 DEF ChunkType
<1>. HIDE DEF a
<1> QED
  BY <1>3, <1>4 DEF Succeeds, Pixels, ChunkTypes

LEMMA FollowingSucceeds ==
  ASSUME EncoderTypeOK, Shape, file # <<>>, ~File!Torn, ~File!Complete,
         NEW c \in File!Following, NEW n \in 1..3
  PROVE  Succeeds(Last(file), [c EXCEPT !.parts = n])
<1>. DEFINE a == Last(file)
            b == [c EXCEPT !.parts = n]
<1>1. a \in ChunkType /\ a = file[Len(file)] /\ Len(file) \in 1..Len(file) /\ img.rows \in Nat
  <2>1. img \in Images
    BY DEF EncoderTypeOK
  <2> QED
    BY <2>1, FileType, ImageFields
<1>2. a.parts = 3 /\ a.type # "IEND" /\ a.type \in ChunkTypes
  BY <1>1, FileTerms DEF ChunkType
<1>3. ASSUME NEW t, NEW l, c = Chunk(t, l, <<>>)
      PROVE  b.type = t /\ b.length = l
  BY <1>3 DEF Chunk
<1>4. ASSUME NEW from \in Nat, c \in File!IDATs(from)
      PROVE  Pixels(b, from) /\ b.type = "IDAT"
  <2>1. PICK l \in 1..(img.rows + 2 - from) :
          c = [type |-> "IDAT", length |-> l, units |-> [k \in 1..l |-> from + k - 1],
               parts |-> 3]
    BY <1>1, <1>4 DEF File!IDATs, File!Chunk, File!LastUnit
  <2>2. b.type = "IDAT" /\ b.length = l /\ b.units = Run(from, l)
    BY <2>1 DEF Run
  <2> QED
    BY <1>1, <2>1, <2>2 DEF Pixels
<1>5. CASE a.type = "signature"
  <2>1. c = Chunk("IHDR", 13, <<>>)
    BY <1>5, FollowingOf
  <2> QED
    BY <1>2, <1>3, <1>5, <2>1 DEF Succeeds
<1>6. CASE a.type = "IHDR" /\ img.palette # -1
  <2>1. PICK p \in {img.palette} \cap 1..256 : c = Chunk("PLTE", 3 * p, <<>>)
    BY <1>6, FollowingOf
  <2>2. p = img.palette /\ p \in 1..256
    BY <2>1
  <2> QED
    BY <1>2, <1>3, <1>6, <2>1, <2>2 DEF Succeeds
<1>7. CASE a.type = "PLTE" /\ img.alphas # 0
  <2>1. c = Chunk("tRNS", img.alphas, <<>>)
    BY <1>7, FollowingOf
  <2> QED
    BY <1>2, <1>3, <1>7, <2>1 DEF Succeeds
<1>8. CASE \/ a.type = "IHDR" /\ img.palette = -1
           \/ a.type = "PLTE" /\ img.alphas = 0
           \/ a.type = "tRNS"
  <2>1. c \in File!IDATs(0)
    BY <1>8, FollowingOf
  <2>2. Pixels(b, 0) /\ b.type = "IDAT"
    BY <1>4, <2>1
  <2> QED
    BY <1>2, <1>8, <2>2 DEF Succeeds
<1>9. CASE a.type = "IDAT" /\ Last(a.units) = img.rows + 1
  <2>1. c = Chunk("IEND", 0, <<>>)
    BY <1>9, FollowingOf
  <2> QED
    BY <1>2, <1>3, <1>9, <2>1 DEF Succeeds
<1>10. CASE a.type = "IDAT" /\ Last(a.units) # img.rows + 1
  <2>1. c \in File!IDATs(Last(a.units) + 1)
    BY <1>10, FollowingOf
  <2>2. PICK from \in Nat : Pixels(a, from)
    BY <1>1, <1>10, PixelChunk
  <2>3. Last(a.units) + 1 \in Nat
    BY <1>1, <2>2, PixelUnits
  <2>4. Pixels(b, Last(a.units) + 1) /\ b.type = "IDAT"
    BY <1>4, <2>1, <2>3
  <2> QED
    BY <1>2, <1>10, <2>4 DEF Succeeds
<1> QED
  BY <1>2, <1>5, <1>6, <1>7, <1>8, <1>9, <1>10 DEF ChunkTypes

\* Succeeds is about the image and two chunks, not about the file.
LEMMA ShapeStep ==
  ASSUME EncoderTypeOK, Shape, [File!Next]_<<img, file, encoded>>
  PROVE  Shape'
<1>1. CASE UNCHANGED <<img, file>>
  BY <1>1 DEF Shape, Succeeds, Pixels
<1>2. CASE File!Write
  <2>1. PICK c \in File!Following, n \in 1..3 : file' = Append(file, [c EXCEPT !.parts = n])
    BY <1>2 DEF File!Write
  <2>2. img' = img /\ ~File!Torn /\ ~File!Complete
    BY <1>2 DEF File!Write
  <2>. DEFINE b == [c EXCEPT !.parts = n]
  <2>3. /\ Len(file') = Len(file) + 1 /\ file' # <<>> /\ file'[Len(file) + 1] = b
        /\ \A k \in 1..Len(file) : file'[k] = file[k]
    BY <2>1, FileType
  <2>4. CASE file = <<>>
    <3>1. Len(file) = 0
      BY <2>4
    <3>2. c = File!Chunk("signature", 8, <<>>)
      BY <2>1, <2>4 DEF File!Following
    <3>3. file'[1].type = "signature"
      BY <2>3, <3>1, <3>2 DEF File!Chunk
    <3>4. 1..(Len(file') - 1) = {}
      BY <2>3, <3>1
    <3> QED
      BY <3>3, <3>4 DEF Shape
  <2>5. CASE file # <<>>
    <3>1. Succeeds(Last(file), b)
      BY <2>1, <2>2, <2>5, FollowingSucceeds
    <3>2. Len(file) \in 1..Len(file) /\ 1 \in 1..Len(file) /\ Last(file) = file[Len(file)]
          /\ Len(file) \in Nat
      BY <2>5, FileType
    <3>3. \A k \in 1..(Len(file') - 1) : Succeeds(file'[k], file'[k + 1])
      <4>. SUFFICES ASSUME NEW k \in 1..(Len(file') - 1)
                    PROVE  Succeeds(file'[k], file'[k + 1])
        OBVIOUS
      <4>1. CASE k = Len(file)
        BY <2>3, <3>1, <3>2, <4>1
      <4>2. CASE k # Len(file)
        <5>1. k \in 1..(Len(file) - 1) /\ k \in 1..Len(file) /\ k + 1 \in 1..Len(file)
          BY <2>3, <3>2, <4>2
        <5> QED
          BY <2>3, <5>1 DEF Shape
      <4> QED
        BY <4>1, <4>2
    <3>4. \A s, t : Succeeds(s, t)' <=> Succeeds(s, t)
      BY <2>2 DEF Succeeds, Pixels
    <3> QED
      BY <2>3, <2>5, <3>2, <3>3, <3>4 DEF Shape
  <2> QED
    BY <2>4, <2>5
<1>3. CASE File!Return
  BY <1>1, <1>3 DEF File!Return
<1> QED
  BY <1>1, <1>2, <1>3 DEF File!Next

-----------------------------------------------------------------------------
(* The decoder in a file of the encoder's. *)

Prev == file[at - 1]
Cur == file[at]

\* Where pc and the decoder's counters put it.
BetweenChunks ==
  /\ part = 0 /\ at \in Nat /\ at - 1 \in 1..Len(file)
  /\ pc = "chunk" =>
       /\ Prev.type # "IEND"
       /\ IF Prev.type = "signature" THEN stage = 0 ELSE stage = Rank(Prev.type)
       /\ Prev.type = "IDAT" => Last(Prev.units) = img.rows + 1
  /\ pc = "next" => Prev.type = "IDAT" /\ Last(Prev.units) = row

InChunk ==
  /\ at \in 2..Len(file) /\ type = Cur.type
  /\ part = IF pc \in {"IHDR", "PLTE", "tRNS"} \/ idatLength > 0 THEN 1 ELSE 2
  /\ pc \in Parsing => length = Cur.length
  /\ pc = "zlib" =>
       /\ idatLength <= Cur.length
       /\ row + Len(buf) + idatLength = Last(Cur.units)
       /\ \A k \in 1..Len(buf) : buf[k] = Inflated(row + k)
  /\ pc = "checksum" /\ type = "IDAT" => Last(Cur.units) = img.rows + 1

Position ==
  /\ pc = "signature" => at = 1 /\ part = 0
  /\ pc \in {"chunk", "next"} => BetweenChunks
  /\ pc \in Parsing \cup {"zlib", "checksum"} => InChunk

\* What has been parsed is the image's.
Contents ==
  /\ stage >= 1 /\ pc # "IHDR" => cb = Format(img) /\ rows = img.rows
  /\ ~interlaced /\ ~useTransparent
  /\ stage >= 2 /\ pc # "PLTE" /\ img.palette # -1 => palette = img.palette
  /\ alphas = IF stage >= 3 /\ pc # "tRNS" THEN img.alphas ELSE 0
  /\ row >= 0 /\ img.palette # -1 => shown = img.palette

Decided ==
  /\ result = "nil" =>
       /\ File!Complete /\ row = img.rows /\ ~useTransparent
       /\ img.palette # -1 => shown = img.palette /\ alphas = img.alphas
       /\ img.palette = -1 => Format([img EXCEPT !.model = model]) = Format(img)
  /\ result \notin {"none", "nil"} => ~File!Complete

TransferInv ==
  /\ DecoderInv /\ EncoderInv /\ Shape
  /\ foreign => encoded = "none"
  /\ ~foreign /\ encoded = "none" => Init /\ at = 1 /\ part = 0
  /\ ~foreign /\ encoded # "none" /\ result = "none" => Position /\ Contents
  /\ ~foreign => Decided

\* The decoder is about to read, or to compute on, what Encode has left.
Reading ==
  /\ DecoderInv /\ RunInv /\ EncoderInv /\ Shape
  /\ encoded # "none" /\ result = "none" /\ pc # "done"
  /\ Position /\ Contents

Progress == (result = "none" => Position /\ Contents) /\ Decided

LEMMA FormatKind ==
  ASSUME NEW m \in Images
  PROVE  /\ Format(m) \in Supported
         /\ cbPaletted(Format(m)) <=> m.palette # -1
         /\ m.palette # -1 => Format(m)[2] = ctPaletted
         /\ m.palette \in 1..256 => m.palette <= 2^Depth(Format(m))
<1>1. m.palette \in Nat \cup {-1}
  BY ImageFields
<1> USE DEF Supported, cbPaletted, cbInvalid, Depth, ctGrayscale, ctTrueColor, ctPaletted,
            ctGrayscaleAlpha, ctTrueColorAlpha
<1>2. CASE m.palette \in 0..2
  <2>1. Format(m) = <<1, ctPaletted>>
    BY <1>2 DEF Format
  <2> QED
    BY <1>2, <2>1, Powers
<1>3. CASE m.palette \in 3..4
  <2>1. Format(m) = <<2, ctPaletted>>
    BY <1>3 DEF Format
  <2> QED
    BY <1>3, <2>1, Powers
<1>4. CASE m.palette \in 5..16
  <2>1. Format(m) = <<4, ctPaletted>>
    BY <1>4 DEF Format
  <2> QED
    BY <1>4, <2>1, Powers
<1>5. CASE m.palette > 16 /\ m.palette # -1
  <2>1. Format(m) = <<8, ctPaletted>>
    BY <1>1, <1>5 DEF Format
  <2> QED
    BY <1>1, <1>5, <2>1, Powers
<1>6. CASE m.palette = -1
  <2>1. Format(m) \in {<<8, ctGrayscale>>, <<16, ctGrayscale>>, <<8, ctTrueColor>>,
                       <<16, ctTrueColor>>, <<8, ctTrueColorAlpha>>, <<16, ctTrueColorAlpha>>}
    BY <1>6 DEF Format
  <2> QED
    BY <1>6, <2>1
<1> QED
  BY <1>1, <1>2, <1>3, <1>4, <1>5, <1>6

\* What is decoded without a palette has a model of the format it was encoded in.
LEMMA SameFormat ==
  ASSUME NEW m \in Images, m.palette = -1, cb = Format(m), ~useTransparent
  PROVE  Format([m EXCEPT !.model = ImageModel]) = Format(m)
<1> SUFFICES ASSUME NEW d, d = [m EXCEPT !.model = ImageModel]
             PROVE  Format(d) = Format(m)
  OBVIOUS
<1>1. /\ d.palette = -1 /\ d.model = ImageModel /\ d.opaque = m.opaque /\ m.opaque \in BOOLEAN
  BY EncoderAssumption
<1>2. cb \in {<<8, ctGrayscale>>, <<16, ctGrayscale>>, <<8, ctTrueColor>>,
              <<16, ctTrueColor>>, <<8, ctTrueColorAlpha>>, <<16, ctTrueColorAlpha>>}
  BY DEF Format
<1>3. /\ cb[2] = ctTrueColor => m.opaque
      /\ cb[2] = ctTrueColorAlpha => ~m.opaque
  BY <1>1 DEF Format, ctGrayscale, ctTrueColor, ctTrueColorAlpha
<1>4. d.model = CASE cb = <<8, ctGrayscale>>       -> "Gray"
                  [] cb = <<16, ctGrayscale>>      -> "Gray16"
                  [] cb = <<8, ctTrueColor>>       -> "RGBA"
                  [] cb = <<16, ctTrueColor>>      -> "RGBA64"
                  [] cb = <<8, ctTrueColorAlpha>>  -> "NRGBA"
                  [] cb = <<16, ctTrueColorAlpha>> -> "NRGBA64"
  BY <1>1, <1>2
     DEF ImageModel, cbPaletted, cbInvalid, ctGrayscale, ctTrueColor, ctPaletted,
         ctGrayscaleAlpha, ctTrueColorAlpha
<1>5. Format(d) = cb
  <2>1. CASE cb[2] = ctGrayscale
    <3>1. \/ cb = <<8, ctGrayscale>> /\ d.model = "Gray"
          \/ cb = <<16, ctGrayscale>> /\ d.model = "Gray16"
      BY <1>2, <1>4, <2>1 DEF ctGrayscale, ctTrueColor, ctTrueColorAlpha
    <3> QED
      BY <1>1, <3>1 DEF Format
  <2>2. CASE cb[2] = ctTrueColor
    <3>1. \/ cb = <<8, ctTrueColor>> /\ d.model = "RGBA"
          \/ cb = <<16, ctTrueColor>> /\ d.model = "RGBA64"
      BY <1>2, <1>4, <2>2 DEF ctGrayscale, ctTrueColor, ctTrueColorAlpha
    <3> QED
      BY <1>1, <1>3, <2>2, <3>1 DEF Format
  <2>3. CASE cb[2] = ctTrueColorAlpha
    <3>1. \/ cb = <<8, ctTrueColorAlpha>> /\ d.model = "NRGBA"
          \/ cb = <<16, ctTrueColorAlpha>> /\ d.model = "NRGBA64"
      BY <1>2, <1>4, <2>3 DEF ctGrayscale, ctTrueColor, ctTrueColorAlpha
    <3> QED
      BY <1>1, <1>3, <2>3, <3>1 DEF Format
  <2> QED
    BY <1>2, <2>1, <2>2, <2>3
<1> QED
  BY <1>5

LEMMA ReadingFacts ==
  ASSUME Reading
  PROVE  /\ TypeOK /\ EncoderTypeOK /\ img \in Images /\ img.rows \in Nat
         /\ img.palette \in Nat \cup {-1} /\ img.alphas \in Nat
         /\ img.alphas <= IF img.palette = -1 THEN 0 ELSE img.palette
         /\ Len(file) \in Nat /\ \A k \in 1..Len(file) : file[k] \in ChunkType
         /\ file # <<>> => img.rows > 0
         /\ step = "done"
<1>1. TypeOK /\ EncoderTypeOK /\ ErrorInv /\ FileInv
  BY DEF Reading, DecoderInv, EncoderInv
<1>2. img \in Images
  BY <1>1 DEF EncoderTypeOK
<1>3. /\ img.rows \in Nat /\ img.palette \in Nat \cup {-1} /\ img.alphas \in Nat
      /\ img.alphas <= IF img.palette = -1 THEN 0 ELSE img.palette
  BY <1>2, ImageFields
<1>4. step = "done"
  BY <1>1 DEF Reading, ErrorInv
<1>5. file # <<>> => img.rows > 0
  BY <1>1, <1>3, <1>4 DEF ErrorInv
<1> QED
  BY <1>1, <1>2, <1>3, <1>4, <1>5, FileType

\* What a chunk that the decoder has come to may be.
LEMMA Neighbours ==
  ASSUME Reading, at - 1 \in 1..Len(file), at \in 1..Len(file)
  PROVE  /\ Succeeds(Prev, Cur) /\ Prev.type \in ChunkTypes /\ Cur.type \in ChunkTypes
         /\ Cur.length \in Nat /\ file # <<>>
<1>1. Prev \in ChunkType /\ Cur \in ChunkType
  BY ReadingFacts DEF Prev, Cur
<1>2. at - 1 \in 1..(Len(file) - 1) /\ (at - 1) + 1 = at
  BY ReadingFacts
<1>3. Succeeds(file[at - 1], file[(at - 1) + 1])
  BY <1>2 DEF Reading, Shape
<1>4. file # <<>>
  BY <1>2, ReadingFacts
<1> QED
  BY <1>1, <1>2, <1>3, <1>4 DEF Prev, Cur, ChunkType

LEMMA CurrentChunk ==
  ASSUME Reading, InChunk
  PROVE  /\ at - 1 \in 1..Len(file) /\ at \in 1..Len(file) /\ img.rows > 0
         /\ type = Cur.type /\ type \in ChunkTypes \ {"signature"} /\ Cur.length \in Nat
         /\ type = "IHDR" => Cur.length = 13
         /\ type = "PLTE" => Cur.length = 3 * img.palette /\ img.palette \in 1..256
         /\ type = "tRNS" => Cur.length = img.alphas /\ img.alphas # 0
         /\ type = "IDAT" => \E from \in Nat : Pixels(Cur, from)
         /\ type = "IEND" => Cur.length = 0
<1>1. at - 1 \in 1..Len(file) /\ at \in 1..Len(file) /\ type = Cur.type
  BY ReadingFacts DEF InChunk
<1>2. /\ Succeeds(Prev, Cur) /\ Prev.type \in ChunkTypes /\ Cur.type \in ChunkTypes
      /\ Cur.length \in Nat /\ file # <<>>
  BY <1>1, Neighbours
<1>3. type = "IDAT" => \E from \in Nat : Pixels(Cur, from)
  BY <1>1, ReadingFacts, PixelChunk DEF Reading, Cur
<1>4. ~Pixels(Cur, 0) \/ Cur.type = "IDAT"
  BY DEF Pixels
<1>5. ~Pixels(Cur, Last(Prev.units) + 1) \/ Cur.type = "IDAT"
  BY DEF Pixels
<1>6. /\ type # "signature"
      /\ type = "IHDR" => Cur.length = 13
      /\ type = "PLTE" => Cur.length = 3 * img.palette /\ img.palette \in 1..256
      /\ type = "tRNS" => Cur.length = img.alphas /\ img.alphas # 0
      /\ type = "IEND" => Cur.length = 0
  BY <1>1, <1>2, <1>4, <1>5 DEF Succeeds, ChunkTypes
<1> QED
  BY <1>1, <1>2, <1>3, <1>6, ReadingFacts

-----------------------------------------------------------------------------

\* encoderVars, one by one.
LEMMA SameFile ==
  ASSUME UNCHANGED encoderVars
  PROVE  UNCHANGED <<img, file, encoded, step>>
BY DEF encoderVars, outside

\* As long as Decode has not returned, nothing is decided.
LEMMA GoesOn ==
  ASSUME result' = "none", Position', Contents'
  PROVE  Progress'
BY DEF Progress, Decided

LEMMA TypesOf ==
  ASSUME NEW t \in ChunkTypes \ {"signature"}
  PROVE  t \in Type /\ t # "other"
BY CheckedTypes DEF ChunkTypes

LEMMA ReadSignatureStep ==
  ASSUME Reading, ReadSignature, UNCHANGED encoderVars
  PROVE  DecoderInv' /\ Progress'
<1>1. DecoderInv'
  BY CheckHeaderStep DEF ReadSignature, Reading
<1>2. /\ pc = "signature" /\ pc' = "chunk" /\ result' = "none"
      /\ UNCHANGED <<header, colors, pixels, chunks>>
      /\ Available(0) /\ at' = at + 1 /\ part' = 0
  BY DEF ReadSignature, CheckHeader, Goto, Past, Reading
<1>3. at = 1 /\ 1 <= Len(file) /\ stage = 0
  BY <1>2 DEF Reading, Position, Available, RunInv, StageInv
<1>4. file[1].type = "signature" /\ Len(file) \in Nat
  <2>1. file # <<>>
    BY <1>3
  <2> QED
    BY <2>1, ReadingFacts DEF Reading, Shape
<1>5. /\ file' = file /\ img' = img /\ stage' = stage /\ at' = 2
      /\ UNCHANGED <<cb, rows, interlaced, useTransparent, palette, alphas, row, shown>>
  BY <1>2, <1>3, SameFile DEF header, colors, pixels, chunks
<1>6. BetweenChunks'
  <2>1. at' - 1 = 1 /\ 1 \in 1..Len(file)
    BY <1>3, <1>4, <1>5
  <2>2. Prev' = file[1]
    BY <1>5, <2>1 DEF Prev
  <2> QED
    BY <1>2, <1>3, <1>4, <1>5, <2>1, <2>2 DEF BetweenChunks
<1>7. Position'
  BY <1>2, <1>6 DEF Position, Parsing
<1>8. Contents'
  BY <1>2, <1>3, <1>5 DEF Reading, Contents
<1> QED
  BY <1>1, <1>2, <1>7, <1>8, GoesOn

LEMMA PaletteFollows ==
  ASSUME NEW a, NEW b, Succeeds(a, b), a.type = "IHDR", img.palette # -1
  PROVE  b.type = "PLTE" /\ b.length = 3 * img.palette /\ img.palette \in 1..256
BY DEF Succeeds

\* The order of the chunks is one that parseChunk accepts.
LEMMA HeaderAccepted ==
  ASSUME Reading, pc = "chunk", at \in 1..Len(file)
  PROVE  /\ OrderOK(Cur.type) /\ ~Skipped(Cur.type)
         /\ Cur.type \in ChunkTypes \ {"signature"} /\ Cur.length \in Nat
         /\ Cur.length = 0 <=> Cur.type = "IEND"
         /\ Cur.type = "IDAT" => Pixels(Cur, 0) /\ stage < 4
         /\ Cur.type # "IHDR" => stage >= 1
         /\ Cur.type \in {"tRNS", "IEND"} => stage >= 2
         /\ Cur.type = "IDAT" /\ img.palette # -1 => stage >= 2
         /\ Cur.type = "IDAT" /\ stage < 3 => img.alphas = 0
         /\ Cur.type = "IEND" => stage = 4
         /\ Cur.type = "tRNS" => stage = 2
         /\ Cur.type = "PLTE" => stage = 1
         /\ Cur.type = "IHDR" => stage = 0
<1>1. /\ BetweenChunks /\ Contents /\ at - 1 \in 1..Len(file)
  BY DEF Reading, Position, BetweenChunks
<1>2. /\ Succeeds(Prev, Cur) /\ Prev.type \in ChunkTypes /\ Cur.type \in ChunkTypes
      /\ Cur.length \in Nat
  BY <1>1, Neighbours
<1>3. /\ img.palette \in Nat \cup {-1} /\ img.alphas \in Nat /\ img \in Images
      /\ img.alphas <= IF img.palette = -1 THEN 0 ELSE img.palette
  BY ReadingFacts
<1>4. img.alphas # 0 => img.palette # -1
  BY <1>3
<1>5. stage >= 1 => (cbPaletted(cb) <=> img.palette # -1)
  BY <1>1, <1>3, FormatKind DEF Contents
<1> USE DEF dsStart, dsSeenIHDR, dsSeenPLTE, dsSeentRNS, dsSeenIDAT
<1>6. CASE Prev.type = "signature"
  <2>1. Cur.type = "IHDR" /\ Cur.length = 13 /\ stage = 0
    BY <1>1, <1>2, <1>6 DEF Succeeds, BetweenChunks
  <2> QED
    BY <1>2, <2>1 DEF OrderOK, Skipped, ChunkTypes
<1>7. CASE Prev.type = "IHDR"
  <2>1. stage = 1
    BY <1>1, <1>7, Ranks DEF BetweenChunks
  <2>2. CASE img.palette # -1
    <3>1. Cur.type = "PLTE" /\ Cur.length = 3 * img.palette /\ img.palette \in 1..256
      BY <1>2, <1>7, <2>2, PaletteFollows
    <3>2. Cur.length # 0
      <4>1. \A p \in 1..256 : 3 * p # 0
        OBVIOUS
      <4> QED
        BY <3>1, <4>1
    <3> QED
      BY <1>2, <2>1, <3>1, <3>2 DEF OrderOK, Skipped, ChunkTypes
  <2>3. CASE img.palette = -1
    <3>1. Pixels(Cur, 0) /\ Cur.type = "IDAT" /\ Cur.length # 0 /\ img.alphas = 0
      BY <1>2, <1>4, <1>7, <2>3 DEF Succeeds, Pixels
    <3> QED
      BY <1>2, <1>5, <2>1, <2>3, <3>1 DEF OrderOK, Skipped, ChunkTypes
  <2> QED
    BY <2>2, <2>3
<1>8. CASE Prev.type = "PLTE"
  <2>1. stage = 2
    BY <1>1, <1>8, Ranks DEF BetweenChunks
  <2>2. CASE img.alphas # 0
    <3>1. Cur.type = "tRNS" /\ Cur.length = img.alphas
      BY <1>2, <1>8, <2>2 DEF Succeeds
    <3> QED
      BY <1>2, <1>4, <1>5, <2>1, <2>2, <3>1 DEF OrderOK, Skipped, ChunkTypes
  <2>3. CASE img.alphas = 0
    <3>1. Pixels(Cur, 0) /\ Cur.type = "IDAT" /\ Cur.length # 0
      BY <1>2, <1>8, <2>3 DEF Succeeds, Pixels
    <3> QED
      BY <1>2, <2>1, <2>3, <3>1 DEF OrderOK, Skipped, ChunkTypes
  <2> QED
    BY <2>2, <2>3
<1>9. CASE Prev.type = "tRNS"
  <2>1. stage = 3
    BY <1>1, <1>9, Ranks DEF BetweenChunks
  <2>2. Pixels(Cur, 0) /\ Cur.type = "IDAT" /\ Cur.length # 0
    BY <1>2, <1>9 DEF Succeeds, Pixels
  <2> QED
    BY <1>2, <2>1, <2>2 DEF OrderOK, Skipped, ChunkTypes
<1>10. CASE Prev.type = "IDAT"
  <2>1. stage = 4 /\ Last(Prev.units) = img.rows + 1
    BY <1>1, <1>10, Ranks DEF BetweenChunks
  <2>2. Cur.type = "IEND" /\ Cur.length = 0
    BY <1>2, <1>10, <2>1 DEF Succeeds
  <2> QED
    BY <1>2, <2>1, <2>2 DEF OrderOK, Skipped, ChunkTypes
<1> QED
  BY <1>1, <1>2, <1>6, <1>7, <1>8, <1>9, <1>10 DEF BetweenChunks, ChunkTypes

LEMMA ReadHeaderStep ==
  ASSUME Reading, ReadHeader, UNCHANGED encoderVars
  PROVE  DecoderInv' /\ Progress'
<1>1. /\ at \in 1..Len(file) /\ part = 0
      /\ ReadChunkHeader(Cur.type, Cur.length) \/ ReadNext(Cur.type, Cur.length)
      /\ Past(IF Cur.length = 0 THEN 2 ELSE 1)
  <2>1. at <= Len(file) /\ part = 0
    BY DEF ReadHeader, Available
  <2>2. /\ ReadChunkHeader(Cur.type, Cur.length) \/ ReadNext(Cur.type, Cur.length)
        /\ Past(IF Cur.length = 0 THEN 2 ELSE 1)
    BY DEF ReadHeader, Cur
  <2>3. pc \in {"chunk", "next"}
    BY <2>2 DEF ReadChunkHeader, ReadNext
  <2>4. at \in Nat /\ at - 1 \in 1..Len(file)
    <3>1. BetweenChunks
      BY <2>3 DEF Reading, Position
    <3> QED
      BY <3>1, Zenon DEF BetweenChunks
  <2>5. at \in 1..Len(file)
    BY <2>1, <2>4, ReadingFacts
  <2> QED
    BY <2>1, <2>2, <2>5
<1>2. /\ at' = at /\ Cur' = Cur /\ img' = img /\ file' = file
      /\ part' = IF Cur.length = 0 THEN 2 ELSE 1
  <2>1. at' = at /\ part' = IF Cur.length = 0 THEN 2 ELSE 1
    BY <1>1 DEF Past
  <2> QED
    BY <2>1, SameFile DEF Cur
<1>3. at - 1 \in 1..Len(file) /\ RunInv /\ TypeOK
  <2>1. pc \in {"chunk", "next"}
    BY <1>1 DEF ReadChunkHeader, ReadNext
  <2> QED
    BY <2>1, ReadingFacts DEF Reading, Position, BetweenChunks
<1>4. at' \in 2..Len(file')
  BY <1>1, <1>2, <1>3, ReadingFacts
<1>5. CASE ReadChunkHeader(Cur.type, Cur.length)
  <2>. DEFINE t == Cur.type
              len == Cur.length
  <2>1. pc = "chunk"
    BY <1>5 DEF ReadChunkHeader
  <2>2. /\ OrderOK(t) /\ ~Skipped(t)
        /\ t \in ChunkTypes \ {"signature"} /\ len \in Nat
        /\ len = 0 <=> t = "IEND"
        /\ t = "IDAT" => Pixels(Cur, 0) /\ stage < 4
        /\ t # "IHDR" => stage >= 1
        /\ t \in {"tRNS", "IEND"} => stage >= 2
        /\ t = "IDAT" /\ img.palette # -1 => stage >= 2
        /\ t = "IDAT" /\ stage < 3 => img.alphas = 0
        /\ t = "IEND" => stage = 4
        /\ t = "tRNS" => stage = 2
        /\ t = "PLTE" => stage = 1
        /\ t = "IHDR" => stage = 0
    BY <1>1, <2>1, HeaderAccepted
  <2>3. t \in Type /\ t # "other"
    BY <2>2, TypesOf
  <2>4. DecoderInv'
    BY <1>5, <2>2, <2>3, ReadChunkHeaderStep DEF Reading
  <2>5. /\ type' = t /\ length' = len /\ stage' = Rank(t)
        /\ pc' = (IF t = "IDAT" THEN "zlib" ELSE t) /\ result' = "none"
        /\ idatLength' = (IF t = "IDAT" THEN len ELSE idatLength)
        /\ UNCHANGED <<cb, rows, interlaced, useTransparent, palette, alphas, buf, row, shown>>
    BY <1>5, <2>2 DEF ReadChunkHeader, Goto, Reading, header, colors
  <2>6. idatLength = 0 /\ (stage < 4 => row = -1 /\ buf = <<>>)
    BY <1>3, <2>1 DEF RunInv, PixelInv, TypeOK, dsStart, dsSeenIEND
  <2>. HIDE DEF t, len
  <2>7. t \in {"IHDR", "PLTE", "tRNS", "IDAT", "IEND"}
    BY <2>2 DEF ChunkTypes
  <2>8. pc' \in Parsing \cup {"zlib"} /\ (pc' = "zlib" <=> t = "IDAT")
    BY <2>5, <2>7 DEF Parsing
  <2>9. InChunk'
    <3>1. part' = IF pc' \in {"IHDR", "PLTE", "tRNS"} \/ idatLength' > 0 THEN 1 ELSE 2
      BY <1>2, <2>2, <2>5, <2>6, <2>7 DEF len
    <3>2. CASE t = "IDAT"
      <4>1. Pixels(Cur, 0) /\ row = -1 /\ buf = <<>> /\ img.rows \in Nat
        BY <2>2, <2>6, <3>2, ReadingFacts
      <4>2. Last(Cur.units) = 0 + len - 1
        BY <4>1, PixelUnits DEF len
      <4>3. row' + Len(buf') + idatLength' = Last(Cur.units) /\ idatLength' <= len
        BY <2>2, <2>5, <3>2, <4>1, <4>2
      <4>4. \A k \in 1..Len(buf') : buf'[k] = Inflated(row + k)'
        BY <2>5, <4>1
      <4> QED
        BY <1>2, <1>4, <2>5, <2>8, <3>1, <3>2, <4>3, <4>4 DEF InChunk, Parsing, t, len
    <3>3. CASE t # "IDAT"
      BY <1>2, <1>4, <2>5, <2>8, <3>1, <3>3 DEF InChunk, Parsing, t, len
    <3> QED
      BY <3>2, <3>3
  <2>10. Position'
    BY <2>8, <2>9 DEF Position, Parsing
  <2>11. Contents'
    <3>1. Contents /\ img' = img /\ stage \in 0..5
      BY <1>2, <1>3 DEF Reading, TypeOK, dsStart, dsSeenIEND
    <3>2. img.alphas # 0 => img.palette # -1
      BY ReadingFacts
    <3>3. stage' >= 1 /\ pc' # "IHDR" => cb' = Format(img') /\ rows' = img'.rows
      BY <2>1, <2>2, <2>5, <3>1 DEF Contents
    <3>4. stage' >= 2 /\ pc' # "PLTE" /\ img'.palette # -1 => palette' = img'.palette
      BY <2>1, <2>2, <2>5, <2>7, <3>1, Ranks DEF Contents
    <3>5. alphas' = IF stage' >= 3 /\ pc' # "tRNS" THEN img'.alphas ELSE 0
      BY <2>1, <2>2, <2>5, <2>7, <3>1, Ranks DEF Contents
    <3> QED
      BY <2>5, <3>1, <3>3, <3>4, <3>5 DEF Contents
  <2> QED
    BY <2>4, <2>5, <2>10, <2>11, GoesOn
<1>6. CASE ReadNext(Cur.type, Cur.length)
  <2>1. /\ pc = "next" /\ type = "IDAT" /\ buf = <<>> /\ stage = 4
    BY <1>3, <1>6 DEF ReadNext, RunInv, StageInv, PixelInv
  <2>2. Prev.type = "IDAT" /\ Last(Prev.units) = row /\ row <= img.rows /\ row \in Int
    BY <1>3, <2>1 DEF Reading, Position, BetweenChunks, Contents, TypeOK
  <2>3. Succeeds(Prev, Cur) /\ img.rows \in Nat
    BY <1>1, <1>3, Neighbours, ReadingFacts
  <2>4. Last(Prev.units) # img.rows + 1
    BY <2>2, <2>3
  <2>5. Pixels(Cur, row + 1) /\ Cur.type = "IDAT" /\ Cur.length \in Nat /\ Cur.length > 0
    BY <2>2, <2>3, <2>4 DEF Succeeds, Pixels
  <2>6. DecoderInv'
    <3>1. Cur.type \in Type
      BY <2>5, CheckedTypes
    <3> QED
      BY <1>6, <2>5, <3>1, ReadNextStep DEF Reading
  <2>7. /\ pc' = "zlib" /\ idatLength' = Cur.length /\ result' = "none"
        /\ UNCHANGED <<stage, type, length, cb, rows, interlaced, useTransparent, palette,
                       alphas, buf, row, shown>>
    BY <1>6, <2>5 DEF ReadNext, Goto, Reading, header, colors, chunks
  <2>8. Last(Cur.units) = row + 1 + Cur.length - 1
    BY <2>3, <2>5, PixelUnits
  <2>9. row' + Len(buf') + idatLength' = Last(Cur.units) /\ part' = 1 /\ idatLength' > 0
    BY <1>2, <2>1, <2>2, <2>5, <2>7, <2>8
  <2>10. \A k \in 1..Len(buf') : buf'[k] = Inflated(row + k)'
    BY <2>1, <2>7
  <2>11. InChunk'
    BY <1>2, <1>4, <2>1, <2>5, <2>7, <2>9, <2>10 DEF InChunk, Parsing
  <2>12. Position'
    BY <2>7, <2>11 DEF Position, Parsing
  <2>13. Contents'
    BY <1>2, <2>1, <2>7 DEF Reading, Contents
  <2> QED
    BY <2>6, <2>7, <2>12, <2>13, GoesOn
<1> QED
  BY <1>1, <1>5, <1>6

\* From a chunk's data to its checksum.
LEMMA DataRead ==
  ASSUME Reading, pc \in Parsing, pc' = "checksum", at' = at, part' = 2,
         UNCHANGED <<pixels, chunks>>, UNCHANGED encoderVars
  PROVE  Position'
<1>1. InChunk /\ type = pc /\ RunInv /\ TypeOK
  BY DEF Reading, Position, RunInv, StageInv, DecoderInv
<1>2. idatLength = 0
  BY <1>1 DEF RunInv, PixelInv, Parsing, TypeOK, dsStart, dsSeenIEND
<1>3. /\ UNCHANGED <<idatLength, type, file, img>> /\ Cur' = Cur
  BY SameFile DEF pixels, chunks, Cur
<1>4. type' # "IDAT"
  BY <1>1, <1>3 DEF Parsing
<1>5. at' \in 2..Len(file') /\ type' = Cur'.type
  BY <1>1, <1>3 DEF InChunk
<1>6. ~(idatLength' > 0)
  BY <1>2, <1>3
<1>7. part' = IF pc' \in {"IHDR", "PLTE", "tRNS"} \/ idatLength' > 0 THEN 1 ELSE 2
  BY <1>6
<1>8. pc' \notin Parsing /\ pc' # "zlib"
  BY DEF Parsing
<1>9. InChunk'
  BY <1>4, <1>5, <1>7, <1>8, Zenon DEF InChunk
<1> QED
  BY <1>9 DEF Position, Parsing

LEMMA ReadDataStep ==
  ASSUME Reading, ReadData, UNCHANGED encoderVars
  PROVE  DecoderInv' /\ Progress'
<1>1. at' = at /\ part' = 2 /\ (parseIHDR(IHDR) \/ parsePLTE \/ parsetRNS)
  BY DEF ReadData, Past
<1>2. pc \in Parsing /\ pc \in {"IHDR", "PLTE", "tRNS"}
  BY <1>1 DEF parseIHDR, parsePLTE, parsetRNS, Parsing
<1>3. InChunk /\ type = pc /\ RunInv /\ TypeOK /\ Contents /\ length = Cur.length
      /\ stage = Rank(pc)
  BY <1>2 DEF Reading, Position, RunInv, StageInv, DecoderInv, InChunk
<1>4. /\ img.rows > 0 /\ (pc = "IHDR" => length = 13)
      /\ pc = "PLTE" => length = 3 * img.palette /\ img.palette \in 1..256
      /\ pc = "tRNS" => length = img.alphas /\ img.alphas # 0
  BY <1>3, CurrentChunk
<1>5. /\ img \in Images /\ img.rows \in Nat /\ img.palette \in Nat \cup {-1}
      /\ img.alphas \in Nat /\ img.alphas <= IF img.palette = -1 THEN 0 ELSE img.palette
  BY ReadingFacts
<1>6. /\ Format(img) \in Supported /\ (cbPaletted(Format(img)) <=> img.palette # -1)
      /\ img.palette # -1 => Format(img)[2] = ctPaletted
      /\ img.palette \in 1..256 => img.palette <= 2^Depth(Format(img))
  BY <1>5, FormatKind
<1>7. img' = img
  BY SameFile
<1>8. CASE parseIHDR(IHDR)
  <2>1. pc = "IHDR" /\ length = 13 /\ stage = 1
    BY <1>3, <1>4, <1>8, Ranks DEF parseIHDR
  <2>2. /\ IHDR.known = TRUE /\ IHDR.rows = img.rows /\ IHDR.rows > 0 /\ ~(IHDR.rows <= 0)
        /\ IHDR.depth = Format(img)[1] /\ IHDR.ct = Format(img)[2]
        /\ IHDR.interlace = itNone /\ itNone # itAdam7
    BY <1>4, <1>5 DEF IHDR, itNone, itAdam7
  <2>3. Format(img) = <<IHDR.depth, IHDR.ct>> /\ IHDR \in HeaderFields
    <3>1. /\ Format(img)[1] \in Nat /\ Format(img)[2] \in Nat
          /\ Format(img) = <<Format(img)[1], Format(img)[2]>>
      BY <1>6 DEF Supported, ctGrayscale, ctPaletted, ctTrueColor, ctGrayscaleAlpha,
                  ctTrueColorAlpha
    <3>2. IHDR \in HeaderFields
      BY <1>5, <3>1 DEF IHDR, HeaderFields, itNone
    <3> QED
      BY <2>2, <3>1, <3>2
  <2>4. DecoderInv'
    BY <1>8, <2>3, parseIHDRStep DEF Reading
  <2>5. /\ cb' = Format(img) /\ interlaced' = FALSE /\ rows' = img.rows
        /\ pc' = "checksum" /\ result' = "none" /\ UNCHANGED <<colors, pixels, chunks>>
    BY <1>6, <1>8, <2>1, <2>2, <2>3 DEF parseIHDR, Goto, Reading
  <2>6. Position'
    BY <1>1, <1>2, <2>5, DataRead
  <2>7. Contents'
    BY <1>3, <1>7, <2>1, <2>5 DEF Contents, RunInv, PixelInv, colors, pixels, chunks
  <2> QED
    BY <2>4, <2>5, <2>6, <2>7, GoesOn
<1>9. CASE parsePLTE
  <2>1. pc = "PLTE" /\ length = 3 * img.palette /\ img.palette \in 1..256 /\ stage = 2
    BY <1>3, <1>4, <1>9, Ranks DEF parsePLTE
  <2>2. cb = Format(img) /\ cbPaletted(cb) /\ cb[2] = ctPaletted /\ img.palette # -1
    BY <1>3, <1>6, <2>1 DEF Contents
  <2>3. length \div 3 = img.palette /\ length % 3 = 0
    <3>1. \A p \in 1..256 : (3 * p) \div 3 = p /\ (3 * p) % 3 = 0
      OBVIOUS
    <3> QED
      BY <2>1, <3>1
  <2>4. img.palette <= 2^Depth(cb)
    BY <1>6, <2>1, <2>2
  <2>5. ~(length % 3 # 0 \/ length \div 3 <= 0 \/ length \div 3 > 256 \/ length \div 3 > 2^Depth(cb))
    <3>1. Depth(cb) \in Nat
      BY <1>6, <2>2, SupportedFormats DEF Depth
    <3>2. 2^Depth(cb) \in Nat
      BY <3>1, PowerDouble
    <3>3. \A p \in 1..256, q \in Nat : p <= q => ~(p <= 0 \/ p > 256 \/ p > q)
      OBVIOUS
    <3>4. ~(img.palette <= 0 \/ img.palette > 256 \/ img.palette > 2^Depth(cb))
      BY <2>1, <2>4, <3>2, <3>3, Zenon
    <3> QED
      BY <2>3, <3>4, Zenon
  <2>6. ctPaletted \notin {ctGrayscale, ctGrayscaleAlpha}
    BY DEF ctPaletted, ctGrayscale, ctGrayscaleAlpha
  <2>7. DecoderInv'
    BY <1>9, parsePLTEStep DEF Reading
  <2>8. /\ palette' = img.palette /\ pc' = "checksum" /\ result' = "none"
        /\ UNCHANGED <<header, alphas, useTransparent, pixels, chunks>>
    BY <1>9, <2>2, <2>3, <2>5, <2>6 DEF parsePLTE, Goto, Reading
  <2>9. Position'
    BY <1>1, <1>2, <2>8, DataRead
  <2>10. Contents'
    BY <1>3, <1>7, <2>1, <2>8 DEF Contents, RunInv, PixelInv, header, pixels, chunks
  <2> QED
    BY <2>7, <2>8, <2>9, <2>10, GoesOn
<1>10. CASE parsetRNS
  <2>1. pc = "tRNS" /\ length = img.alphas /\ img.alphas # 0 /\ img.palette # -1 /\ stage = 3
    BY <1>3, <1>4, <1>5, <1>10, Ranks DEF parsetRNS
  <2>2. cb = Format(img) /\ cbPaletted(cb) /\ cb[2] = ctPaletted /\ palette = img.palette
        /\ alphas = 0 /\ palette \in 0..256
    <3>1. stage >= 1 /\ stage >= 2
      BY <2>1
    <3>2. cb = Format(img) /\ palette = img.palette /\ alphas = 0
      BY <1>3, <2>1, <3>1 DEF Contents
    <3>3. palette \in 0..256
      BY <1>3 DEF TypeOK
    <3> QED
      BY <1>6, <2>1, <3>2, <3>3
  <2>3. length <= palette /\ length > 0 /\ ~(length > 256) /\ palette # 0 /\ ~(palette < length)
    BY <1>5, <2>1, <2>2
  <2>4. ctPaletted # ctGrayscale /\ ctPaletted # ctTrueColor
    BY DEF ctPaletted, ctGrayscale, ctTrueColor
  <2>5. DecoderInv'
    BY <1>10, parsetRNSStep DEF Reading
  <2>6. /\ palette' = palette /\ alphas' = length /\ pc' = "checksum" /\ result' = "none"
        /\ UNCHANGED <<header, useTransparent, pixels, chunks>>
    <3>1. ~(alphas > 0)
      BY <2>2
    <3> QED
      BY <1>10, <2>2, <2>3, <2>4, <3>1 DEF parsetRNS, Goto, Reading
  <2>7. Position'
    BY <1>1, <1>2, <2>6, DataRead
  <2>8. Contents'
    BY <1>3, <1>7, <2>1, <2>2, <2>6 DEF Contents, RunInv, PixelInv, header, pixels, chunks
  <2> QED
    BY <2>5, <2>6, <2>7, <2>8, GoesOn
<1> QED
  BY <1>1, <1>8, <1>9, <1>10

-----------------------------------------------------------------------------

\* The pixels of the chunk that zlib reads.
LEMMA ZlibChunk ==
  ASSUME Reading, pc = "zlib"
  PROVE  /\ InChunk /\ RunInv /\ TypeOK /\ Contents /\ type = "IDAT" /\ stage = 4
         /\ at \in 1..Len(file) /\ img.rows \in Nat /\ img.rows > 0 /\ rows = img.rows
         /\ cb = Format(img)
         /\ Cur.units \in Seq(Nat) /\ Len(Cur.units) = Cur.length /\ Cur.length \in Nat
         /\ Last(Cur.units) \in 0..(img.rows + 1)
         /\ row + Len(buf) + idatLength = Last(Cur.units) /\ idatLength <= Cur.length
         /\ \A k \in 1..Cur.length : Cur.units[k] = Last(Cur.units) - Cur.length + k
<1>1. InChunk /\ RunInv /\ TypeOK /\ Contents /\ type = "IDAT" /\ stage = 4
  BY DEF Reading, Position, RunInv, StageInv, DecoderInv
<1>2. /\ at \in 1..Len(file) /\ type = Cur.type /\ Cur.length \in Nat /\ img.rows > 0
      /\ type = "IDAT" => \E from \in Nat : Pixels(Cur, from)
  BY <1>1, CurrentChunk
<1>3. img.rows \in Nat
  BY ReadingFacts
<1>4. PICK from \in Nat : Pixels(Cur, from)
  BY <1>1, <1>2
<1>5. /\ Last(Cur.units) = from + Cur.length - 1 /\ Last(Cur.units) \in 0..(img.rows + 1)
      /\ Cur.units \in Seq(Nat) /\ Len(Cur.units) = Cur.length
      /\ \A k \in 1..Cur.length : Cur.units[k] = from + k - 1
  BY <1>3, <1>4, PixelUnits
<1>6. \A k \in 1..Cur.length : Cur.units[k] = Last(Cur.units) - Cur.length + k
  <2>1. \A f, l \in Nat : \A k \in 1..l : (f + l - 1) - l + k = f + k - 1
    OBVIOUS
  <2>2. \A k \in 1..Cur.length : (from + Cur.length - 1) - Cur.length + k = from + k - 1
    BY <1>2, <1>4, <2>1, Zenon
  <2> QED
    BY <1>5, <2>2, Zenon
<1>7. row + Len(buf) + idatLength = Last(Cur.units) /\ idatLength <= Cur.length
  BY <1>1 DEF InChunk
<1>8. rows = img.rows /\ cb = Format(img)
  BY <1>1 DEF Contents
<1> QED
  BY <1>1, <1>2, <1>3, <1>5, <1>6, <1>7, <1>8

LEMMA InflatedUnit ==
  ASSUME NEW unit PROVE Inflated(unit) \in Unit
BY DEF Inflated, Unit

LEMMA ReadPixelsStep ==
  ASSUME Reading, ReadPixels, UNCHANGED encoderVars
  PROVE  DecoderInv' /\ Progress'
<1>. DEFINE from == Len(Cur.units) - idatLength
            read(n) == [k \in 1..n |-> Inflated(Cur.units[from + k])]
<1>1. PICK n \in 1..BufferSize : from + n <= Len(Cur.units) /\ Read(read(n))
  BY DEF ReadPixels, Cur
<1>2. /\ pc = "zlib" /\ buf = <<>> /\ Len(read(n)) \in 1..idatLength
      /\ buf' = read(n) /\ idatLength' = idatLength - Len(read(n))
      /\ UNCHANGED <<pc, result, row, model, shown, largest, header, colors, chunks, faults>>
  BY <1>1 DEF Read
<1>3. n \in Nat /\ Len(read(n)) = n /\ read(n) \in Seq(Unit)
  <2>1. n \in Nat
    BY <1>1, DecoderAssumption
  <2>2. \A k \in 1..n : Inflated(Cur.units[from + k]) \in Unit
    BY InflatedUnit
  <2>. HIDE DEF from
  <2> QED
    BY <2>1, <2>2
<1>4. DecoderInv'
  BY <1>1, <1>3, ReadStep DEF Reading
<1>5. /\ InChunk /\ RunInv /\ TypeOK /\ Contents /\ type = "IDAT" /\ stage = 4
      /\ at \in 1..Len(file)
      /\ Len(Cur.units) = Cur.length /\ Cur.length \in Nat
      /\ Last(Cur.units) \in 0..(img.rows + 1)
      /\ row + Len(buf) + idatLength = Last(Cur.units) /\ idatLength <= Cur.length
      /\ \A k \in 1..Cur.length : Cur.units[k] = Last(Cur.units) - Cur.length + k
      /\ img.rows \in Nat
  BY <1>2, ZlibChunk
<1>6. /\ idatLength' = idatLength - n /\ n \in 1..idatLength /\ idatLength \in Nat
      /\ row \in Int /\ Len(buf) = 0
  BY <1>2, <1>3, <1>5 DEF TypeOK
<1>7. /\ at' = at /\ part' = (IF idatLength' = 0 THEN 2 ELSE 1)
      /\ file' = file /\ img' = img
  BY SameFile DEF ReadPixels, Past
<1>8. Cur' = Cur /\ type' = type /\ pc' = "zlib" /\ row' = row /\ result' = "none"
  BY <1>2, <1>7 DEF Cur, chunks, Reading
<1>9. \A k \in 1..Len(buf') : buf'[k] = Inflated(row + k)'
  <2> SUFFICES ASSUME NEW k \in 1..n PROVE buf'[k] = Inflated(row + k)'
    BY <1>2, <1>3
  <2>1. buf'[k] = Inflated(Cur.units[from + k])
    BY <1>2
  <2>2. from + k \in 1..Cur.length
    BY <1>5, <1>6
  <2>3. Cur.units[from + k] = Last(Cur.units) - Cur.length + (from + k)
    BY <1>5, <2>2
  <2>4. from = Cur.length - idatLength /\ row + idatLength = Last(Cur.units)
        /\ Cur.length \in Int /\ idatLength \in Int /\ row \in Int
    BY <1>5, <1>6
  <2>7. Last(Cur.units) - Cur.length + (from + k) = row + k
    <3>1. ASSUME NEW l \in Int, NEW f, f = Cur.length - idatLength, l = row + idatLength
          PROVE  l - Cur.length + (f + k) = row + k
      BY <2>4, <3>1
    <3> HIDE DEF from
    <3> QED
      BY <2>4, <3>1
  <2>5. Cur.units[from + k] = row + k
    BY <2>3, <2>7, Zenon
  <2>6. Inflated(row + k)' = Inflated(row + k)
    BY <1>7, <1>8 DEF Inflated
  <2> QED
    BY <2>1, <2>5, <2>6
<1>10. row' + Len(buf') + idatLength' = Last(Cur'.units) /\ idatLength' <= Cur'.length
  <2>1. Len(buf') = n
    BY <1>2, <1>3
  <2> QED
    BY <1>5, <1>6, <1>8, <2>1
<1>11. part' = IF pc' \in {"IHDR", "PLTE", "tRNS"} \/ idatLength' > 0 THEN 1 ELSE 2
  BY <1>6, <1>7, <1>8
<1>12. at' \in 2..Len(file') /\ type' = Cur'.type
  BY <1>5, <1>7, <1>8 DEF InChunk
<1>13. InChunk'
  BY <1>8, <1>9, <1>10, <1>11, <1>12 DEF InChunk, Parsing
<1>14. Position'
  BY <1>8, <1>13 DEF Position, Parsing
<1>15. Contents'
  BY <1>2, <1>5, <1>7, <1>8 DEF Contents, header, colors, chunks
<1> QED
  BY <1>4, <1>8, <1>14, <1>15, GoesOn

\* A chunk that ends, and the decoder after it.
LEMMA NextChunk ==
  ASSUME Reading, InChunk, at' = at + 1, part' = 0, UNCHANGED encoderVars
  PROVE  /\ Prev' = Cur /\ at' \in Nat /\ at' - 1 \in 1..Len(file') /\ file' = file
         /\ img' = img
<1>1. at \in 1..Len(file) /\ Len(file) \in Nat
  BY CurrentChunk, ReadingFacts
<1>2. file' = file /\ img' = img
  BY SameFile
<1>3. at' - 1 = at /\ at' \in Nat
  BY <1>1
<1> QED
  BY <1>1, <1>2, <1>3 DEF Prev, Cur

LEMMA ReadCRCStep ==
  ASSUME Reading, ReadCRC, UNCHANGED encoderVars
  PROVE  DecoderInv' /\ Progress'
<1>1. /\ at' = at + 1 /\ part' = 0 /\ Cur.parts > 2
      /\ verifyChecksum(TRUE) \/ ReadChecksum(TRUE)
  BY DEF ReadCRC, Past, Available, Cur
<1>2. CASE verifyChecksum(TRUE)
  <2>1. /\ pc = "checksum"
        /\ \/ stage = 5 /\ pc' = "done" /\ result' = "nil"
           \/ stage # 5 /\ pc' = "chunk" /\ result' = "none"
        /\ UNCHANGED <<stage, type, length, header, colors, pixels, faults>>
    BY <1>2 DEF verifyChecksum, Return, Goto, dsSeenIEND, Reading
  <2>2. DecoderInv'
    BY <1>2, verifyChecksumStep DEF Reading
  <2>3. InChunk /\ RunInv /\ TypeOK /\ Contents
    BY <2>1 DEF Reading, Position, DecoderInv
  <2>4. /\ at \in 1..Len(file) /\ at - 1 \in 1..Len(file) /\ type = Cur.type
        /\ type \in ChunkTypes \ {"signature"} /\ img.rows > 0
    BY <2>3, CurrentChunk
  <2>5. type \in Type /\ type # "other" /\ stage = Rank(type)
    BY <2>1, <2>3, <2>4, TypesOf DEF RunInv, StageInv
  <2>6. /\ Prev' = Cur /\ at' \in Nat /\ at' - 1 \in 1..Len(file') /\ file' = file
        /\ img' = img
    BY <1>1, <2>3, NextChunk
  <2>7. CASE stage # 5
    <3>1. type # "IEND"
      BY <2>5, <2>7, RankOfType
    <3>2. Cur.type = "IDAT" => Last(Cur.units) = img.rows + 1
      BY <2>1, <2>3, <2>4 DEF InChunk
    <3>3. BetweenChunks'
      BY <1>1, <2>1, <2>4, <2>5, <2>6, <2>7, <3>1, <3>2 DEF BetweenChunks, ChunkTypes
    <3>4. Position'
      BY <2>1, <2>7, <3>3 DEF Position, Parsing
    <3>5. Contents'
      BY <2>1, <2>3, <2>6, <2>7 DEF Contents, header, colors, pixels
    <3> QED
      BY <2>1, <2>2, <2>7, <3>4, <3>5, GoesOn
  <2>8. CASE stage = 5
    <3>1. type = "IEND"
      BY <2>5, <2>8, RankOfType
    <3>2. at = Len(file)
      <4>1. SUFFICES ASSUME at # Len(file) PROVE FALSE
        OBVIOUS
      <4>2. at \in 1..(Len(file) - 1)
        BY <2>4, <4>1, ReadingFacts
      <4>3. Succeeds(file[at], file[at + 1])
        BY <4>2 DEF Reading, Shape
      <4> QED
        BY <2>4, <3>1, <4>3 DEF Succeeds, Cur
    <3>3. file # <<>> /\ Last(file) = Cur /\ Cur.parts = 3
      <4>1. file # <<>>
        BY <2>4, <3>2
      <4>2. Cur \in ChunkType
        BY <2>4, ReadingFacts DEF Cur
      <4> QED
        BY <1>1, <3>2, <4>1, <4>2, ReadingFacts, FileType DEF Cur, ChunkType
    <3>4. File!Complete
      <4>1. ~(Last(file).parts < 3)
        BY <3>3
      <4>2. Last(file).type = "IEND"
        BY <2>4, <3>1, <3>3
      <4> QED
        BY <3>3, <4>1, <4>2, FileTerms, Zenon
    <3>5. /\ row = img.rows /\ ~useTransparent
          /\ img.palette # -1 => shown = img.palette /\ alphas = img.alphas
          /\ img.palette = -1 => Format([img EXCEPT !.model = model]) = Format(img)
      <4>1. row = rows /\ rows = img.rows
        BY <2>1, <2>3, <2>8 DEF Contents, RunInv, PixelInv
      <4>2. row >= 0
        BY <2>4, <4>1, ReadingFacts
      <4>3. img.palette = -1 => Format([img EXCEPT !.model = model]) = Format(img)
        <5>1. model = ImageModel /\ cb = Format(img) /\ ~useTransparent
          BY <2>1, <2>3, <2>8, <4>2 DEF Contents, RunInv, ImageInv
        <5> QED
          BY <5>1, SameFormat, ReadingFacts
      <4> QED
        BY <2>1, <2>3, <2>8, <4>1, <4>2, <4>3 DEF Contents
    <3>6. File!Complete'
      <4>1. UNCHANGED <<img, file, encoded>>
        BY SameFile
      <4> QED
        BY <3>4, <4>1, FileTerms
    <3>7. result' = "nil" /\ UNCHANGED <<row, useTransparent, model, shown, alphas, img>>
      BY <2>1, <2>6, <2>8 DEF colors, pixels
    <3> QED
      BY <2>2, <3>5, <3>6, <3>7 DEF Progress, Decided
  <2> QED
    BY <2>7, <2>8
<1>3. CASE ReadChecksum(TRUE)
  <2>1. /\ pc = "zlib" /\ buf = <<>> /\ idatLength = 0 /\ pc' = "next" /\ result' = "none"
        /\ UNCHANGED <<stage, type, length, header, colors, pixels, faults>>
    BY <1>3 DEF ReadChecksum, Goto, Reading
  <2>2. DecoderInv'
    BY <1>3, ReadChecksumStep DEF Reading
  <2>3. /\ InChunk /\ TypeOK /\ Contents /\ type = "IDAT" /\ stage = 4
        /\ row + Len(buf) + idatLength = Last(Cur.units)
        /\ Last(Cur.units) \in 0..(img.rows + 1) /\ img.rows \in Nat
    BY <2>1, ZlibChunk
  <2>4. Last(Cur.units) = row /\ type = Cur.type
    BY <2>1, <2>3 DEF TypeOK, InChunk
  <2>5. /\ Prev' = Cur /\ at' \in Nat /\ at' - 1 \in 1..Len(file') /\ file' = file
        /\ img' = img
    BY <1>1, <2>3, NextChunk
  <2>6. row' = row
    BY <2>1 DEF pixels
  <2>7. BetweenChunks'
    BY <1>1, <2>1, <2>3, <2>4, <2>5, <2>6 DEF BetweenChunks
  <2>8. Position'
    BY <2>1, <2>7 DEF Position, Parsing
  <2>9. Contents'
    BY <2>1, <2>3, <2>5 DEF Contents, header, colors, pixels
  <2> QED
    BY <2>1, <2>2, <2>8, <2>9, GoesOn
<1> QED
  BY <1>1, <1>2, <1>3

-----------------------------------------------------------------------------

LEMMA ComputeStep ==
  ASSUME Reading, Compute, UNCHANGED encoderVars
  PROVE  DecoderInv' /\ Progress'
<1>1. at' = at /\ part' = part /\ file' = file /\ img' = img
  BY SameFile DEF Compute, position
<1>2. CASE parseIEND
  <2>1. pc = "IEND"
    BY <1>2 DEF parseIEND
  <2>2. InChunk /\ RunInv /\ TypeOK /\ Contents /\ type = "IEND" /\ length = Cur.length
        /\ stage = 5
    BY <2>1, Ranks DEF Reading, Position, RunInv, StageInv, DecoderInv, InChunk, Parsing
  <2>3. length = 0
    BY <2>2, CurrentChunk
  <2>4. /\ pc' = "checksum" /\ result' = "none"
        /\ UNCHANGED <<header, colors, pixels, chunks>>
    BY <1>2, <2>3 DEF parseIEND, Goto, Reading
  <2>5. DecoderInv'
    BY <1>2, parseIENDStep DEF Reading
  <2>6. part' = 2
    <3>1. idatLength = 0
      BY <2>1, <2>2 DEF RunInv, PixelInv, TypeOK
    <3>2. part = IF pc \in {"IHDR", "PLTE", "tRNS"} \/ idatLength > 0 THEN 1 ELSE 2
      BY <2>2 DEF InChunk
    <3> QED
      BY <1>1, <2>1, <3>1, <3>2
  <2>7. Position'
    BY <1>1, <2>1, <2>4, <2>6, DataRead DEF Parsing
  <2>8. Contents'
    BY <1>1, <2>1, <2>2, <2>4 DEF Contents, header, colors, pixels, chunks
  <2> QED
    BY <2>4, <2>5, <2>7, <2>8, GoesOn
<1>3. ASSUME NEW idx \in Indices, img.palette # -1 => idx < img.palette, Inflate(idx)
      PROVE  DecoderInv' /\ Progress'
  <2>. DEFINE u == Head(buf)
  <2>1. pc = "zlib" /\ buf # <<>>
    BY <1>3 DEF Inflate
  <2>2. /\ InChunk /\ RunInv /\ TypeOK /\ Contents /\ type = "IDAT" /\ stage = 4
        /\ img.rows \in Nat /\ img.rows > 0 /\ rows = img.rows /\ cb = Format(img)
        /\ Last(Cur.units) \in 0..(img.rows + 1)
        /\ row + Len(buf) + idatLength = Last(Cur.units) /\ idatLength <= Cur.length
    BY <2>1, ZlibChunk
  <2>3. DecoderInv'
    BY <1>3, InflateStep, DecoderAssumption DEF Reading
  <2>4. /\ buf \in Seq(Unit) /\ Len(buf) \in Nat \ {0} /\ u = buf[1] /\ idatLength \in Nat
        /\ row \in -1..rows /\ rows \in Nat
        /\ Tail(buf) \in Seq(Unit) /\ Len(Tail(buf)) = Len(buf) - 1
        /\ \A k \in 1..(Len(buf) - 1) : Tail(buf)[k] = buf[k + 1]
    BY <2>1, <2>2 DEF TypeOK
  <2>5. \A k \in 1..Len(buf) : buf[k] = Inflated(row + k)
    BY <2>1, <2>2 DEF InChunk
  <2>6. u = Inflated(row + 1)
    BY <2>4, <2>5
  <2>7. row = rows => idatLength = 0 /\ Len(buf) = 1 /\ Last(Cur.units) = img.rows + 1
    BY <2>2, <2>4
  <2>8. /\ row = -1 => u = "head"
        /\ row \in 0..(rows - 1) => u = "row"
        /\ row = rows => u = "end"
    BY <2>2, <2>4, <2>6 DEF Inflated
  <2>9. InflateError(u) = "none"
    <3>1. CASE row = -1
      BY <2>2, <2>8, <3>1 DEF InflateError
    <3>2. CASE row \in 0..(rows - 1)
      BY <2>8, <3>2 DEF InflateError
    <3>3. CASE row = rows
      BY <2>2, <2>7, <2>8, <3>3 DEF InflateError
    <3> QED
      BY <2>4, <3>1, <3>2, <3>3
  <2>10. u = "end" <=> row = rows
    BY <2>2, <2>4, <2>8
  <2>. HIDE DEF u
  <2>11. /\ pc' = (IF u = "end" THEN "checksum" ELSE "zlib") /\ result' = "none"
         /\ buf' = (IF u = "end" THEN <<>> ELSE Tail(buf))
         /\ row' = (IF u = "end" THEN row ELSE row + 1)
         /\ shown' = (CASE u = "head" -> palette
                        [] u = "row" /\ cbPaletted(cb) -> Extended(idx)
                        [] OTHER -> shown)
         /\ UNCHANGED <<idatLength, header, colors, chunks, faults>>
    BY <1>3, <2>9 DEF Inflate, Goto, Reading, u
  <2>12. /\ Cur' = Cur /\ at' \in 2..Len(file') /\ type' = Cur'.type /\ type' = "IDAT"
         /\ idatLength' = idatLength
    BY <1>1, <2>2, <2>11 DEF Cur, InChunk, chunks
  <2>13. part' = IF pc' \in {"IHDR", "PLTE", "tRNS"} \/ idatLength' > 0 THEN 1 ELSE 2
    <3>1. part = IF pc \in {"IHDR", "PLTE", "tRNS"} \/ idatLength > 0 THEN 1 ELSE 2
      BY <2>2 DEF InChunk
    <3> QED
      BY <1>1, <2>1, <2>11, <2>12, <3>1
  <2>14. Position'
    <3>1. CASE u = "end"
      <4>1. pc' = "checksum" /\ Last(Cur'.units) = img'.rows + 1
        BY <1>1, <2>7, <2>10, <2>11, <2>12, <3>1
      <4>2. InChunk'
        BY <2>12, <2>13, <4>1 DEF InChunk, Parsing
      <4> QED
        BY <4>1, <4>2 DEF Position, Parsing
    <3>2. CASE u # "end"
      <4>1. pc' = "zlib" /\ row' = row + 1 /\ buf' = Tail(buf)
        BY <2>11, <3>2
      <4>2. row' + Len(buf') + idatLength' = Last(Cur'.units) /\ idatLength' <= Cur'.length
        BY <2>2, <2>4, <2>12, <4>1
      <4>3. \A k \in 1..Len(buf') : buf'[k] = Inflated(row + k)'
        <5> SUFFICES ASSUME NEW k \in 1..(Len(buf) - 1) PROVE buf'[k] = Inflated(row + k)'
          BY <2>4, <4>1
        <5>1. buf'[k] = buf[k + 1] /\ k + 1 \in 1..Len(buf)
          BY <2>4, <4>1
        <5>2. buf[k + 1] = Inflated(row + (k + 1)) /\ row + (k + 1) = row' + k
          BY <2>4, <2>5, <4>1, <5>1
        <5> QED
          BY <1>1, <5>1, <5>2 DEF Inflated
      <4>4. InChunk'
        BY <2>12, <2>13, <4>1, <4>2, <4>3 DEF InChunk, Parsing
      <4> QED
        BY <4>1, <4>4 DEF Position, Parsing
    <3> QED
      BY <3>1, <3>2
  <2>15. row' >= 0 /\ img'.palette # -1 => shown' = img'.palette
    <3> SUFFICES ASSUME img.palette # -1 PROVE shown' = img.palette
      BY <1>1
    <3>1. palette = img.palette /\ (row >= 0 => shown = img.palette)
      BY <2>1, <2>2 DEF Contents
    <3>2. CASE row = -1
      BY <2>8, <2>11, <3>1, <3>2
    <3>3. CASE row >= 0
      <4>1. shown = img.palette /\ u # "head"
        BY <2>2, <2>4, <2>8, <3>1, <3>3
      <4>2. Extended(idx) = shown
        <5>1. idx < shown /\ idx \in 0..255 /\ shown \in 0..256
          BY <1>3, <2>2, <4>1, DecoderAssumption DEF TypeOK
        <5> QED
          BY <5>1 DEF Extended
      <4> QED
        BY <2>11, <4>1, <4>2
    <3> QED
      BY <2>4, <3>2, <3>3
  <2>16. Contents'
    <3>1. /\ cb' = cb /\ rows' = rows /\ interlaced' = interlaced /\ stage' = stage
          /\ useTransparent' = useTransparent /\ palette' = palette /\ alphas' = alphas
          /\ pc' \in {"zlib", "checksum"}
      BY <2>11 DEF header, colors, chunks
    <3> QED
      BY <1>1, <2>1, <2>2, <2>15, <3>1 DEF Contents
  <2> QED
    BY <2>3, <2>11, <2>14, <2>16, GoesOn
<1> QED
  BY <1>2, <1>3 DEF Compute

\* A complete file does not end where the decoder still reads.
LEMMA EndOfFileStep ==
  ASSUME Reading, EndOfFile, UNCHANGED encoderVars
  PROVE  DecoderInv' /\ Progress'
<1>1. PICK e \in {"EOF", "ErrUnexpectedEOF"} : Truncated(e)
  BY DEF EndOfFile
<1>2. DecoderInv'
  BY <1>1, TruncatedStep DEF Reading
<1>3. result' \notin {"none", "nil"}
  BY <1>1 DEF Truncated, Return
<1>4. at > Len(file) \/ (part > 0 /\ Cur.parts <= part)
  BY DEF EndOfFile, Cur
<1>5. SUFFICES ASSUME File!Complete PROVE FALSE
  <2>1. UNCHANGED <<img, file, encoded>>
    BY SameFile
  <2>2. File!Complete' <=> File!Complete
    BY <2>1, FileTerms
  <2> QED
    BY <1>2, <1>3, <1>5, <2>2 DEF Progress, Decided
<1>6. /\ file # <<>> /\ Last(file).type = "IEND" /\ Last(file) = file[Len(file)]
      /\ Len(file) \in Nat /\ Len(file) >= 1 /\ \A k \in 1..Len(file) : file[k] \in ChunkType
  BY <1>5, FileTerms, FileType, ReadingFacts
<1>7. \A k \in 1..Len(file) : file[k].parts = 3
  <2> SUFFICES ASSUME NEW k \in 1..Len(file) PROVE file[k].parts = 3
    OBVIOUS
  <2>1. CASE k = Len(file)
    <3>1. file[k] \in ChunkType /\ ~(file[k].parts < 3)
      BY <1>5, <1>6, <2>1, FileTerms
    <3>2. file[k].parts \in 1..3
      BY <3>1 DEF ChunkType
    <3> QED
      BY <3>1, <3>2
  <2>2. CASE k # Len(file)
    <3>1. k \in 1..(Len(file) - 1)
      BY <1>6, <2>2
    <3> QED
      BY <3>1 DEF Reading, Shape, Succeeds
  <2> QED
    BY <2>1, <2>2
<1>8. pc \in {"signature", "chunk", "next", "zlib", "checksum"} \cup Parsing
  BY ReadingFacts DEF Reading, TypeOK, Parsing
<1>9. CASE pc = "signature"
  BY <1>4, <1>6, <1>9 DEF Reading, Position
<1>10. CASE pc \in {"chunk", "next"}
  <2>1. BetweenChunks
    BY <1>10 DEF Reading, Position
  <2>2. part = 0 /\ at \in Nat /\ at - 1 \in 1..Len(file)
    BY <2>1, Zenon DEF BetweenChunks
  <2>3. at - 1 = Len(file)
    BY <1>4, <1>6, <2>2
  <2>4. Prev.type = "IEND"
    BY <1>6, <2>3 DEF Prev
  <2> QED
    BY <1>10, <2>1, <2>4 DEF BetweenChunks
<1>11. CASE pc \in {"zlib", "checksum"} \cup Parsing
  <2>1. InChunk
    BY <1>11 DEF Reading, Position
  <2>2. at \in 1..Len(file) /\ part \in {1, 2}
    BY <2>1, CurrentChunk DEF InChunk
  <2>3. Cur.parts = 3
    BY <1>7, <2>2 DEF Cur
  <2> QED
    BY <1>4, <1>6, <2>2, <2>3
<1> QED
  BY <1>8, <1>9, <1>10, <1>11

-----------------------------------------------------------------------------

LEMMA TransferInitInv == TransferInit => TransferInv
<1> SUFFICES ASSUME TransferInit PROVE TransferInv
  OBVIOUS
<1>1. DecoderInv /\ EncoderInv
  BY DecoderInitInv, EncoderInitInv DEF TransferInit
<1>2. result = "none" /\ encoded = "none" /\ file = <<>> /\ Init /\ at = 1 /\ part = 0
  BY DEF TransferInit, Init, EncoderInit
<1>3. Shape
  BY <1>2 DEF Shape
<1>4. Decided
  BY <1>2 DEF Decided
<1> QED
  BY <1>1, <1>2, <1>3, <1>4 DEF TransferInv

\* Neither side notices a step of the other.
LEMMA DecoderStays ==
  ASSUME UNCHANGED vars
  PROVE  /\ UNCHANGED <<pc, result, stage, cb, rows, interlaced, useTransparent, palette,
                        alphas, row, shown>>
         /\ Init => Init'
BY DEF vars, header, colors, pixels, chunks, faults, Init

LEMMA EncoderStays ==
  ASSUME EncoderInv, Shape, UNCHANGED encoderVars
  PROVE  EncoderInv' /\ Shape' /\ encoded' = encoded
<1>1. EncoderInv' /\ [File!Next]_<<img, file, encoded>>
  BY EncoderNextInv
<1>2. EncoderTypeOK
  BY DEF EncoderInv
<1> QED
  BY <1>1, <1>2, ShapeStep, SameFile

LEMMA EncoderSide ==
  ASSUME TransferInv, Encoder
  PROVE  TransferInv'
<1>1. ~foreign /\ EncoderNext /\ UNCHANGED <<vars, foreign, position>>
  BY DEF Encoder
<1>2. EncoderInv' /\ [File!Next]_<<img, file, encoded>>
  BY <1>1, EncoderNextInv DEF TransferInv
<1>3. DecoderInv'
  BY <1>1, DecoderNextInv DEF TransferInv
<1>4. Shape'
  BY <1>2, ShapeStep DEF TransferInv, EncoderInv
<1>5. encoded = "none"
  <2>1. step # "done"
    BY <1>1 DEF EncoderNext, Encode, writeIHDR, writePLTE, writeTRNS, writeIDATs, writeRow,
                Deflate, Written, Close, Flush, writeIEND, EncodeReturns
  <2> QED
    BY <2>1 DEF TransferInv, EncoderInv, ErrorInv
<1>6. Init /\ at = 1 /\ part = 0
  BY <1>1, <1>5 DEF TransferInv
<1>7. Init' /\ at' = 1 /\ part' = 0 /\ foreign' = foreign
  BY <1>1, <1>6, DecoderStays DEF position
<1>8. Position' /\ Contents' /\ Decided'
  <2>1. Position'
    BY <1>7 DEF Position, Init, Parsing
  <2>2. Contents'
    BY <1>7 DEF Contents, Init, dsStart
  <2>3. Decided'
    BY <1>7 DEF Decided, Init
  <2> QED
    BY <2>1, <2>2, <2>3
<1> QED
  BY <1>1, <1>2, <1>3, <1>4, <1>7, <1>8 DEF TransferInv

LEMMA DecoderSide ==
  ASSUME TransferInv, Decoder
  PROVE  TransferInv'
<1>1. UNCHANGED encoderVars /\ foreign' = foreign /\ encoded # "none"
  BY DEF Decoder, ReadSignature, ReadHeader, ReadData, ReadPixels, ReadCRC, Compute,
         EndOfFile, Available
<1>2. ~foreign
  BY <1>1 DEF TransferInv
<1>3. pc # "done"
  BY DEF Decoder, ReadSignature, ReadHeader, ReadData, ReadPixels, ReadCRC, Compute,
         EndOfFile, CheckHeader, ReadChunkHeader, ReadNext, parseIHDR, parsePLTE, parsetRNS,
         Read, verifyChecksum, ReadChecksum, parseIEND, Inflate, Truncated
<1>4. Reading
  <2>1. result = "none"
    BY <1>3 DEF TransferInv, DecoderInv, TypeOK
  <2> QED
    BY <1>1, <1>2, <1>3, <2>1 DEF TransferInv, Reading, DecoderInv
<1>5. DecoderInv' /\ Progress'
  BY <1>1, <1>4, ReadSignatureStep, ReadHeaderStep, ReadDataStep, ReadPixelsStep,
     ReadCRCStep, ComputeStep, EndOfFileStep DEF Decoder
<1>6. EncoderInv' /\ Shape' /\ encoded' = encoded
  BY <1>1, EncoderStays DEF TransferInv
<1> QED
  BY <1>1, <1>2, <1>5, <1>6 DEF TransferInv, Progress

LEMMA ElsewhereStep ==
  ASSUME TransferInv, Elsewhere
  PROVE  TransferInv'
<1>1. foreign /\ Next /\ UNCHANGED <<encoderVars, foreign>>
  BY DEF Elsewhere
<1>2. DecoderInv'
  BY <1>1, DecoderNextInv DEF TransferInv
<1>3. EncoderInv' /\ Shape' /\ encoded' = encoded
  BY <1>1, EncoderStays DEF TransferInv
<1> QED
  BY <1>1, <1>2, <1>3 DEF TransferInv

LEMMA TransferStutters ==
  ASSUME TransferInv, UNCHANGED transferVars
  PROVE  TransferInv'
<1>1. UNCHANGED <<vars, encoderVars, foreign, at, part>>
  BY DEF transferVars, position
<1>2. DecoderInv'
  BY <1>1, DecoderNextInv DEF TransferInv
<1>3. EncoderInv' /\ Shape' /\ UNCHANGED <<img, file, encoded>>
  BY <1>1, EncoderStays, SameFile DEF TransferInv
<1>4. UNCHANGED <<pc, result, stage, type, length, cb, rows, interlaced, useTransparent,
                  palette, alphas, idatLength, buf, row, model, shown>>
  BY <1>1 DEF vars, header, colors, pixels, chunks
<1>5. Prev' = Prev /\ Cur' = Cur
  BY <1>1, <1>3 DEF Prev, Cur
<1>6. Position => Position'
  <2>1. \A u : Inflated(u)' = Inflated(u)
    BY <1>3 DEF Inflated
  <2>2. InChunk => InChunk'
    BY <1>1, <1>3, <1>4, <1>5, <2>1 DEF InChunk
  <2>3. BetweenChunks => BetweenChunks'
    BY <1>1, <1>3, <1>4, <1>5 DEF BetweenChunks
  <2> QED
    BY <1>1, <1>4, <2>2, <2>3 DEF Position
<1>7. Contents => Contents'
  BY <1>3, <1>4 DEF Contents
<1>8. Decided => Decided'
  <2>1. File!Complete' <=> File!Complete
    BY <1>3, FileTerms
  <2> QED
    BY <1>3, <1>4, <2>1 DEF Decided
<1>9. Init => Init'
  BY <1>1, DecoderStays
<1> QED
  BY <1>1, <1>2, <1>3, <1>4, <1>6, <1>7, <1>8, <1>9 DEF TransferInv

\* The decoder is at the right place of the encoder's file and in the right stage.
LEMMA TransferInvariant == TransferSpec => []TransferInv
<1>1. TransferInv /\ [TransferNext]_transferVars => TransferInv'
  BY EncoderSide, DecoderSide, ElsewhereStep, TransferStutters DEF TransferNext
<1> QED
  BY <1>1, TransferInitInv, PTL DEF TransferSpec

\* Every variable of the encoder and the decoder has its type, whatever is encoded,
\* wherever the writer fails and whatever another file has in it.
THEOREM TransferTypeCorrect == TransferSpec => []TransferTypeOK
<1>1. TransferInv => TransferTypeOK
  BY DEF TransferInv, DecoderInv, EncoderInv, TransferTypeOK
<1> QED
  BY <1>1, TransferInvariant, PTL

\* Decode succeeds on what Encode leaves behind exactly if Encode returned nil, for
\* every image and every buffer, wherever the writer failed (writer.go:562 and
\* reader.go:908).
THEOREM DecodesWhatIsEncoded == TransferSpec => []DecodesIffEncoded
<1>1. TransferInv => DecodesIffEncoded
  <2> SUFFICES ASSUME TransferInv, ~foreign, result # "none"
               PROVE  result = "nil" <=> encoded = "nil"
    BY Zenon DEF DecodesIffEncoded
  <2>1. encoded # "none"
    BY DEF TransferInv, Init
  <2>2. step = "done" /\ ErrorInv /\ FileInv /\ EncoderTypeOK
    BY <2>1 DEF TransferInv, EncoderInv, ErrorInv
  <2>3. encoded = "nil" => File!Complete
    BY <2>2 DEF FileInv
  <2>4. File!Complete => encoded = "nil"
    <3>1. File!Complete => file # <<>> /\ err = "nil"
      BY <2>2, FileTerms DEF FileInv
    <3>2. img.rows \in Nat
      BY <2>2, ImageFields DEF EncoderTypeOK
    <3> QED
      BY <2>2, <3>1, <3>2 DEF ErrorInv
  <2>5. result = "nil" <=> File!Complete
    BY DEF TransferInv, Decided
  <2> QED
    BY <2>3, <2>4, <2>5
<1> QED
  BY <1>1, TransferInvariant, PTL

\* What is decoded has the rows, the palette, the transparency and the format of
\* what was encoded (writer.go:169, reader.go:291).
THEOREM DecodesSameImage == TransferSpec => []SameImage
<1>1. TransferInv => SameImage
  BY DEF TransferInv, Decided, SameImage
<1> QED
  BY <1>1, TransferInvariant, PTL
=============================================================================
