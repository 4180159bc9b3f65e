------------------------------ MODULE PngFile -------------------------------
(***************************************************************************)
(* What Encode (internal/png/writer.go) promises of the file it writes,    *)
(* whatever the writer does: it is a PNG of the image or a part of one cut *)
(* off, and Encode returns nil if and only if it is not cut off.           *)
(***************************************************************************)
EXTENDS Integers, Sequences, SequencesExt

CONSTANT Images  \* [palette, alphas, rows, ...]: see PngEncoder

VARIABLES
  img,      \* the image
  file,     \* chunks, of which all but the last have all of their parts
  encoded   \* what Encode has returned: "none" before, "nil" or an error

\* A chunk has three parts: length and type, data, checksum.
Chunk(type, length, units) ==
  [type |-> type, length |-> length, units |-> units, parts |-> 3]

\* zlib's output for the image has a header, the rows and an end: the units 0, the
\* rows' numbers, and LastUnit.
LastUnit == img.rows + 1

\* The IDAT chunks that may carry the pixels on from a unit.
IDATs(from) ==
  {Chunk("IDAT", n, [k \in 1..n |-> from + k - 1]) : n \in 1..(LastUnit + 1 - from)}

\* The chunks that may come next: PLTE and tRNS for a palette and its transparency,
\* and the pixels without a gap; nothing for a palette that PLTE cannot hold.
Following ==
  IF file = <<>> THEN {Chunk("signature", 8, <<>>)}
  ELSE LET last == Last(file)
       IN  CASE last.type = "signature" -> {Chunk("IHDR", 13, <<>>)}
             [] last.type = "IHDR" /\ img.palette # -1 ->
                  {Chunk("PLTE", 3 * n, <<>>) : n \in {img.palette} \cap 1..256}
             [] last.type = "PLTE" /\ img.alphas # 0 ->
                  {Chunk("tRNS", img.alphas, <<>>)}
             [] last.type = "IDAT" ->
                  IF Last(last.units) = LastUnit THEN {Chunk("IEND", 0, <<>>)}
                  ELSE IDATs(Last(last.units) + 1)
             [] OTHER -> IDATs(0)

Torn == file # <<>> /\ Last(file).parts < 3

Complete == file # <<>> /\ Last(file).type = "IEND" /\ ~Torn

Init == img \in Images /\ file = <<>> /\ encoded = "none"

Write ==
  /\ encoded = "none" /\ ~Torn /\ ~Complete
  /\ \E c \in Following, n \in 1..3 : file' = Append(file, [c EXCEPT !.parts = n])
  /\ UNCHANGED <<img, encoded>>

Return ==
  /\ encoded = "none"
  /\ encoded' \in {"nil", "FormatError", "write error"}
  /\ encoded' = "nil" <=> Complete
  /\ UNCHANGED <<img, file>>

Next == Write \/ Return

Spec == Init /\ [][Next]_<<img, file, encoded>>
=============================================================================
