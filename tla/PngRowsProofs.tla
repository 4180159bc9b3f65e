--------------------------- MODULE PngRowsProofs ----------------------------
(***************************************************************************)
(* Images of every size, with every pixel width, survive the filters.      *)
(***************************************************************************)
EXTENDS PngRows, SequenceTheorems, WellFoundedInduction, TLAPS

\* The predictor as the PNG specification writes it.
PaethPredictor(a0, b0, c0) ==
  LET p  == a0 + b0 - c0
      pa == Abs(p - a0)
      pb == Abs(p - b0)
      pc0 == Abs(p - c0)
  IN  IF pa <= pb /\ pa <= pc0 THEN a0 ELSE IF pb <= pc0 THEN b0 ELSE c0

\* paeth "is an optimized version of the sample code in the PNG spec" (paeth.go:
\* 26): both choose the same for all bytes.
THEOREM PaethIsStandard ==
  \A l, u, ul \in Byte : Paeth(l, u, ul) = PaethPredictor(l, u, ul)
BY DEF Byte, Paeth, PaethPredictor, Abs

-----------------------------------------------------------------------------
(* Division with a remainder, for filterPaeth's steps of Bpp bytes. *)

LEMMA SmallMultiple ==
  ASSUME NEW b \in Nat \ {0}, NEW d \in Int, b * d < b, b * d >= 0
  PROVE  d = 0
<1>1. CASE d >= 1
  <2>1. b * d >= b
    BY <1>1
  <2> QED
    BY <1>1, <2>1
<1>2. CASE d <= -1
  <2>1. b * d <= -b
    BY <1>2
  <2> QED
    BY <1>2, <2>1
<1> QED
  BY <1>1, <1>2

LEMMA UniqueRemainder ==
  ASSUME NEW b \in Nat \ {0}, NEW p \in Int, NEW q \in Int,
         NEW r \in 0..(b - 1), NEW s \in 0..(b - 1), b * p + r = b * q + s
  PROVE  r = s
<1>1. b * (p - q) = s - r /\ b * (q - p) = r - s
  OBVIOUS
<1>2. CASE s >= r
  <2>1. p - q = 0
    BY <1>1, <1>2, SmallMultiple
  <2> QED
    BY <1>1, <2>1
<1>3. CASE s <= r
  <2>1. q - p = 0
    BY <1>1, <1>3, SmallMultiple
  <2> QED
    BY <1>1, <2>1
<1> QED
  BY <1>2, <1>3

\* One step of Bpp bytes stays in the channel, ...
LEMMA SameChannel ==
  ASSUME NEW b \in Nat \ {0}, NEW k \in Nat
  PROVE  (k + b) % b = k % b
<1>1. /\ k = b * (k \div b) + (k % b)
      /\ k + b = b * ((k + b) \div b) + ((k + b) % b)
  OBVIOUS
<1>2. k \div b \in Int /\ (k + b) \div b \in Int /\ (k \div b) + 1 \in Int
  OBVIOUS
<1>3. b * ((k \div b) + 1) = b * (k \div b) + b
  BY <1>2
<1>4. b * ((k \div b) + 1) + (k % b) = b * ((k + b) \div b) + ((k + b) % b)
  BY <1>1, <1>2, <1>3
<1>5. k % b \in 0..(b - 1) /\ (k + b) % b \in 0..(b - 1)
  OBVIOUS
<1> QED
  BY <1>2, <1>4, <1>5, UniqueRemainder

\* ... and leaves nothing of it out.
LEMMA NothingBetween ==
  ASSUME NEW b \in Nat \ {0}, NEW l \in Nat, NEW k \in Nat,
         k % b = l % b, l <= k, k < l + b
  PROVE  k = l
<1>1. k = b * (k \div b) + (k % b) /\ l = b * (l \div b) + (l % b)
  OBVIOUS
<1>2. k \div b \in Int /\ l \div b \in Int
  OBVIOUS
<1>3. b * ((k \div b) - (l \div b)) = k - l
  BY <1>1, <1>2
<1>4. (k \div b) - (l \div b) = 0
  BY <1>2, <1>3, SmallMultiple
<1> QED
  BY <1>3, <1>4
-----------------------------------------------------------------------------
(* What the filters do to a row. *)

LEMMA PredictType ==
  ASSUME NEW f \in FilterType, NEW cur \in Row, NEW prev \in Row,
         NEW k \in Columns
  PROVE  Predict(f, cur, prev, k) \in Int
<1>1. prev[k] \in Byte
  BY DEF Row
<1>2. CASE k < Bpp
  BY <1>1, <1>2 DEF Predict, First, FilterType, ftNone, ftSub, ftUp, ftAverage,
                    ftPaeth, Byte
<1>3. CASE ~(k < Bpp)
  <2>1. k - Bpp \in Columns
    BY <1>3, RowAssumption DEF Columns
  <2>2. cur[k - Bpp] \in Byte /\ prev[k - Bpp] \in Byte
    BY <2>1 DEF Row
  <2>3. Predict(f, cur, prev, k) = Later(f, cur[k - Bpp], prev[k], prev[k - Bpp])
    BY <1>3 DEF Predict
  <2>4. Paeth(cur[k - Bpp], prev[k], prev[k - Bpp]) \in Byte
    BY <1>1, <2>2 DEF Paeth
  <2> QED
    BY <1>1, <2>2, <2>3, <2>4 DEF Later, FilterType, ftNone, ftSub, ftUp,
                                  ftAverage, ftPaeth, Byte
<1> QED
  BY <1>2, <1>3

LEMMA FilteredType ==
  ASSUME NEW f \in FilterType, NEW cur \in Row, NEW prev \in Row
  PROVE  Filtered(f, cur, prev) \in Row
<1> SUFFICES ASSUME NEW k \in Columns
             PROVE  (cur[k] - Predict(f, cur, prev, k)) % 256 \in Byte
  BY DEF Filtered, Row
<1> DEFINE p == Predict(f, cur, prev, k)
<1>1. cur[k] \in Byte /\ p \in Int
  BY PredictType DEF Row
<1> HIDE DEF p
<1>2. cur[k] - p \in Int
  BY <1>1 DEF Byte
<1>3. \A x \in Int : x % 256 \in 0..255
  OBVIOUS
<1>4. (cur[k] - p) % 256 \in Byte
  BY <1>2, <1>3 DEF Byte
<1> QED
  BY <1>4 DEF p

\* Adding the prediction to what the filter has left of a byte gives the byte,
\* if the row is decoded as far as the prediction looks.
LEMMA Undo ==
  ASSUME NEW f \in FilterType, NEW cur \in Row, NEW prev \in Row,
         NEW part \in Row, NEW k \in Columns,
         k >= Bpp => part[k - Bpp] = cur[k - Bpp]
  PROVE  (Filtered(f, cur, prev)[k] + Predict(f, part, prev, k)) % 256 = cur[k]
<1> DEFINE p == Predict(f, cur, prev, k)
<1>1. Predict(f, part, prev, k) = p
  BY RowAssumption DEF Predict, Columns
<1>2. Filtered(f, cur, prev)[k] = (cur[k] - p) % 256
  BY DEF Filtered
<1>3. cur[k] \in Byte /\ p \in Int
  BY PredictType DEF Row
<1> HIDE DEF p
<1>4. (((cur[k] - p) % 256) + p) % 256 = cur[k]
  BY <1>3 DEF Byte
<1> QED
  BY <1>1, <1>2, <1>4

\* The inner step of filterPaeth, with zeros before the first pixel, is the
\* prediction of ftPaeth.
LEMMA PaethPredicts ==
  ASSUME NEW cur \in Row, NEW prev \in Row, NEW k \in Columns
  PROVE  Predict(ftPaeth, cur, prev, k) =
           Paeth(IF k < Bpp THEN 0 ELSE cur[k - Bpp], prev[k],
                 IF k < Bpp THEN 0 ELSE prev[k - Bpp])
<1>1. prev[k] \in Byte
  BY DEF Row
<1>2. Paeth(0, prev[k], 0) = prev[k]
  BY <1>1 DEF Paeth, Abs, Byte
<1> QED
  BY <1>2 DEF Predict, First, Later, ftNone, ftSub, ftUp, ftAverage, ftPaeth

-----------------------------------------------------------------------------
(* filter chooses a complete row. *)

\* The buffer of the filter chosen so far holds the whole row.
Complete(t, cur, prev) ==
  t.filter \in FilterType /\ t.row = Filtered(t.filter, cur, prev)

\* A loop that breaks has a sum that is not better.
LEMMA BreaksLate ==
  ASSUME NEW f \in FilterType, NEW s, NEW best
  PROVE  Computed(f, s, best) = N \/ ~(s[Computed(f, s, best)] < best)
<1> DEFINE stops(k) ==
             ~(s[k] < best) /\ \A l \in FirstCheck(f)..(k - 1) : s[l] < best
<1>1. CASE \E k \in FirstCheck(f)..N : stops(k)
  <2> DEFINE k0 == CHOOSE k \in FirstCheck(f)..N : stops(k)
  <2>1. Computed(f, s, best) = k0
    BY <1>1 DEF Computed
  <2>2. stops(k0)
    BY <1>1
  <2> QED
    BY <2>1, <2>2
<1>2. CASE ~(\E k \in FirstCheck(f)..N : stops(k))
  BY <1>2 DEF Computed
<1> QED
  BY <1>1, <1>2

LEMMA TryComplete ==
  ASSUME NEW f \in FilterType, NEW cur, NEW prev, NEW t,
         Complete(t, cur, prev)
  PROVE  Complete(Try(t, f, cur, prev), cur, prev)
<1> DEFINE row  == Filtered(f, cur, prev)
           s    == Sums(row)
           done == Computed(f, s, t.best)
<1>1. CASE s[done] < t.best
  <2>1. done = N
    BY <1>1, BreaksLate
  <2>2. \A k \in Columns : k < done
    BY <2>1, RowAssumption DEF Columns
  <2>3. row = [k \in Columns |-> row[k]]
    BY DEF Filtered
  <2> HIDE DEF row, done
  <2>4. [k \in Columns |-> IF k < done THEN row[k] ELSE Stale] = row
    BY <2>2, <2>3
  <2> USE DEF row, done
  <2> QED
    BY <1>1, <2>4 DEF Try, Complete
<1>2. CASE ~(s[done] < t.best)
  BY <1>2 DEF Try, Complete
<1> QED
  BY <1>1, <1>2

\* Whatever filter chooses, its buffer holds the whole row: a loop that breaks
\* early (writer.go:237, 250, 268, 286) is not chosen.
LEMMA ChosenComplete ==
  ASSUME NEW cur, NEW prev
  PROVE  Complete(Chosen(cur, prev), cur, prev)
<1> DEFINE up    == Filtered(ftUp, cur, prev)
           first == [best |-> Sums(up)[N], filter |-> ftUp, row |-> up]
           paeth == Try(first, ftPaeth, cur, prev)
           none  == Try(paeth, ftNone, cur, prev)
           sub   == Try(none, ftSub, cur, prev)
<1>1. /\ ftUp \in FilterType /\ ftPaeth \in FilterType /\ ftNone \in FilterType
      /\ ftSub \in FilterType /\ ftAverage \in FilterType
  BY DEF FilterType, ftUp, ftPaeth, ftNone, ftSub, ftAverage
<1>2. Complete(first, cur, prev)
  BY <1>1 DEF Complete
<1>3. Complete(paeth, cur, prev)
  <2> HIDE DEF first
  <2> QED BY <1>1, <1>2, TryComplete
<1>4. Complete(none, cur, prev)
  <2> HIDE DEF paeth
  <2> QED BY <1>1, <1>3, TryComplete
<1>5. Complete(sub, cur, prev)
  <2> HIDE DEF none
  <2> QED BY <1>1, <1>4, TryComplete
<1>6. Complete(Try(sub, ftAverage, cur, prev), cur, prev)
  <2> HIDE DEF sub
  <2> QED BY <1>1, <1>5, TryComplete
<1> QED
  BY <1>6 DEF Chosen

\* Without filters the row is written as it is, which is ftNone.
LEMMA FilterNone ==
  ASSUME NEW cur \in Row, NEW prev \in Row
  PROVE  Filtered(ftNone, cur, prev) = cur
<1>1. ASSUME NEW k \in Columns
      PROVE  (cur[k] - Predict(ftNone, cur, prev, k)) % 256 = cur[k]
  <2>1. Predict(ftNone, cur, prev, k) = 0
    BY DEF Predict, First, Later, ftNone, ftSub, ftUp, ftAverage, ftPaeth
  <2>2. cur[k] \in Byte
    BY DEF Row
  <2> QED
    BY <2>1, <2>2 DEF Byte
<1> QED
  BY <1>1 DEF Filtered, Row

-----------------------------------------------------------------------------
(* The invariant. *)

\* The row that row r is filtered against.
Above(r) == IF r = 0 THEN Zeros ELSE image[r - 1]

Coding(f, r) == Filtered(f, image[r], Above(r))

\* The row at the head of the stream.
NextRow == IF pc = "read" THEN dy ELSE dy + 1

StreamInv ==
  /\ NextRow + Len(stream) = y
  /\ \A s \in 1..Len(stream) :
       stream[s].bytes = Coding(stream[s].type, NextRow + s - 1)

\* The bytes of a row that the loops have passed.
Passed(k) ==
  IF pc = "paeth" THEN k % Bpp < i \/ (k % Bpp = i /\ k < j) ELSE k < j

RowInv ==
  pc # "read" =>
    \A k \in Columns :
      cdat[k] = IF Passed(k) THEN image[dy][k] ELSE Coding(ft, dy)[k]

LoopInv ==
  /\ pc = "bytes" => ft # ftPaeth
  /\ pc = "paeth" =>
       /\ ft = ftPaeth
       /\ i < Bpp /\ j % Bpp = i
       /\ a = (IF j < Bpp THEN 0 ELSE image[dy][j - Bpp])
       /\ c = (IF j < Bpp THEN 0 ELSE Above(dy)[j - Bpp])
       /\ j < N + Bpp

IInv ==
  /\ TypeOK
  /\ pr = Above(y) /\ pdat = Above(dy)
  /\ StreamInv
  /\ RowInv
  /\ LoopInv
  /\ RoundTrip

LEMMA AboveType ==
  ASSUME TypeOK, NEW r \in 0..Height
  PROVE  Above(r) \in Row
<1>1. Zeros \in Row
  BY DEF Zeros, Row, Byte
<1>2. r # 0 => r - 1 \in Lines
  BY ImageAssumption DEF Lines
<1> QED
  BY <1>1, <1>2 DEF TypeOK, Above

LEMMA CodingType ==
  ASSUME TypeOK, NEW f \in FilterType, NEW r \in Lines
  PROVE  Coding(f, r) \in Row
<1>1. image[r] \in Row /\ r \in 0..Height
  BY ImageAssumption DEF TypeOK, Lines
<1> QED
  BY <1>1, AboveType, FilteredType DEF Coding

\* A row that is being decoded is one of the image.
LEMMA RowInImage ==
  ASSUME TypeOK, StreamInv, pc # "read"
  PROVE  dy \in Lines
<1>1. Len(stream) \in Nat
  BY LenProperties DEF TypeOK
<1> QED
  BY <1>1, ImageAssumption DEF TypeOK, StreamInv, NextRow, Lines

LEMMA InitInv == Init => IInv
<1> SUFFICES ASSUME Init PROVE IInv
  OBVIOUS
<1> USE DEF Init
<1>1. Zeros \in Row
  BY DEF Zeros, Row, Byte
<1>2. TypeOK
  <2>1. image \in [Lines -> Row]
    BY ImageAssumption
  <2>2. img \in [Lines -> Row]
    BY <1>1
  <2>3. stream \in Seq([type : FilterType, bytes : Row])
    OBVIOUS
  <2> QED
    BY <1>1, <2>1, <2>2, <2>3, ImageAssumption
       DEF TypeOK, FilterType, ftNone, Byte
<1>3. pr = Above(y) /\ pdat = Above(dy)
  BY DEF Above
<1>4. StreamInv
  BY DEF StreamInv, NextRow
<1> QED
  BY <1>2, <1>3, <1>4 DEF IInv, RowInv, LoopInv, RoundTrip

LEMMA EncodeRowInv == IInv /\ EncodeRow => IInv'
<1> SUFFICES ASSUME IInv, EncodeRow PROVE IInv'
  OBVIOUS
<1> USE DEF EncodeRow
<1> DEFINE e == IF filters
                THEN [type |-> Chosen(image[y], pr).filter,
                      bytes |-> Chosen(image[y], pr).row]
                ELSE [type |-> ftNone, bytes |-> image[y]]
<1>1. y \in Lines /\ y \in 0..Height /\ y + 1 \in 0..Height
  BY ImageAssumption DEF IInv, TypeOK, Lines
<1>2. image[y] \in Row /\ pr \in Row /\ pr = Above(y)
  BY <1>1 DEF IInv, TypeOK
<1>3. e.type \in FilterType /\ e.bytes = Coding(e.type, y)
  <2>1. CASE filters
    BY <1>2, <2>1, ChosenComplete DEF Complete, Coding
  <2>2. CASE ~filters
    BY <1>2, <2>2, FilterNone DEF Coding, FilterType, ftNone
  <2> QED
    BY <2>1, <2>2
<1>4. e.bytes \in Row
  BY <1>1, <1>3, CodingType DEF IInv
<1>5. e \in [type : FilterType, bytes : Row]
  BY <1>3, <1>4
<1>6. stream' = Append(stream, e) /\ pr' = image[y]
  OBVIOUS
<1> HIDE DEF e
<1>7. TypeOK'
  <2>1. stream' \in Seq([type : FilterType, bytes : Row])
    BY <1>5, <1>6, AppendProperties DEF IInv, TypeOK
  <2> QED
    BY <1>1, <1>2, <1>6, <2>1 DEF IInv, TypeOK, decoderVars, loopVars
<1>8. pr' = Above(y)' /\ pdat' = Above(dy)'
  BY <1>1, <1>6 DEF Above, IInv, decoderVars, TypeOK
<1>9. StreamInv'
  <2>1. stream \in Seq([type : FilterType, bytes : Row])
    BY DEF IInv, TypeOK
  <2>2. /\ Len(stream') = Len(stream) + 1
        /\ Len(stream) \in Nat
        /\ stream'[Len(stream) + 1] = e
        /\ \A s \in 1..Len(stream) : stream'[s] = stream[s]
    BY <1>5, <1>6, <2>1, AppendProperties, LenProperties
  <2>3. NextRow' = NextRow /\ NextRow \in Nat /\ NextRow + Len(stream) = y
    BY DEF NextRow, decoderVars, IInv, TypeOK, StreamInv
  <2>4. \A f, r : Coding(f, r)' = Coding(f, r)
    BY DEF Coding, Above
  <2>5. ASSUME NEW s \in 1..Len(stream')
        PROVE  stream'[s].bytes = Coding(stream'[s].type, NextRow + s - 1)
    <3>1. CASE s \in 1..Len(stream)
      BY <2>2, <3>1 DEF IInv, StreamInv
    <3>2. CASE s = Len(stream) + 1
      BY <1>3, <2>2, <2>3, <3>2
    <3> QED
      BY <2>2, <3>1, <3>2
  <2>6. NextRow' + Len(stream') = y'
    BY <1>1, <2>2, <2>3
  <2> QED
    BY <2>3, <2>4, <2>5, <2>6 DEF StreamInv, Coding, Above
<1>10. RowInv' /\ LoopInv' /\ RoundTrip'
  BY DEF IInv, RowInv, LoopInv, RoundTrip, Passed, Coding, Above, decoderVars,
         loopVars
<1> QED
  BY <1>7, <1>8, <1>9, <1>10 DEF IInv

LEMMA StartValue ==
  /\ Start(ftNone) = N /\ Start(ftSub) = Bpp /\ Start(ftPaeth) = 0
  /\ \A f \in FilterType : Start(f) \in Nat
  /\ \A f \in FilterType \ {ftNone, ftSub} : Start(f) = 0
BY RowAssumption DEF Start, FilterType, ftNone, ftSub, ftUp, ftAverage, ftPaeth

LEMMA ReadRowInv == IInv /\ ReadRow => IInv'
<1> SUFFICES ASSUME IInv, ReadRow PROVE IInv'
  OBVIOUS
<1>0. /\ pc = "read" /\ stream # <<>> /\ stream' = Tail(stream)
      /\ ft' = Head(stream).type /\ cdat' = Head(stream).bytes
      /\ pc' = (IF ft' = ftPaeth THEN "paeth" ELSE "bytes")
      /\ i' = 0 /\ a' = 0 /\ c' = 0 /\ j' = Start(ft')
      /\ UNCHANGED <<image, filters, y, pr, dy, pdat, img>>
  BY DEF ReadRow, encoderVars
<1> DEFINE Entry == [type : FilterType, bytes : Row]
<1>1. stream \in Seq(Entry) /\ stream # <<>>
  BY <1>0 DEF IInv, TypeOK
<1>2. /\ Head(stream) \in Entry /\ Head(stream) = stream[1]
      /\ Tail(stream) \in Seq(Entry)
      /\ Len(stream) \in Nat \ {0} /\ Len(Tail(stream)) = Len(stream) - 1
      /\ \A s \in 1..Len(Tail(stream)) : Tail(stream)[s] = stream[s + 1]
  <2> HIDE DEF Entry
  <2>1. /\ Tail(stream) \in Seq(Entry)
        /\ Len(Tail(stream)) = Len(stream) - 1
        /\ \A s \in 1..Len(Tail(stream)) : Tail(stream)[s] = stream[s + 1]
        /\ Head(stream) \in Entry
    BY <1>1, HeadTailProperties
  <2>2. Len(stream) \in Nat /\ Len(Tail(stream)) \in Nat
    BY <1>1, <2>1, LenProperties
  <2>3. Head(stream) = stream[1]
    BY <1>1
  <2> QED
    BY <2>1, <2>2, <2>3
<1>3. ft' \in FilterType /\ cdat' \in Row /\ cdat' = Coding(ft', dy)
  <2>1. 1 \in 1..Len(stream) /\ NextRow + 1 - 1 = dy
    BY <1>0, <1>2 DEF NextRow, IInv, TypeOK
  <2>2. stream[1].bytes = Coding(stream[1].type, NextRow + 1 - 1)
    BY <2>1 DEF IInv, StreamInv
  <2> QED
    BY <1>0, <1>2, <2>1, <2>2
<1>4. TypeOK'
  <2>1. j' \in Nat
    BY <1>0, <1>3, StartValue
  <2> QED
    BY <1>0, <1>2, <1>3, <2>1 DEF IInv, TypeOK, Byte
<1>5. StreamInv'
  <2>1. NextRow = dy /\ NextRow' = dy + 1 /\ dy \in Nat
    BY <1>0 DEF NextRow, IInv, TypeOK
  <2>2. ASSUME NEW s \in 1..Len(stream')
        PROVE  stream'[s].bytes = Coding(stream'[s].type, dy + 1 + s - 1)
    <3>1. s + 1 \in 1..Len(stream) /\ stream'[s] = stream[s + 1]
      BY <1>0, <1>2
    <3>2. stream[s + 1].bytes = Coding(stream[s + 1].type, NextRow + (s + 1) - 1)
      BY <3>1 DEF IInv, StreamInv
    <3>3. NextRow + (s + 1) - 1 = dy + 1 + s - 1
      BY <2>1
    <3> QED
      BY <3>1, <3>2, <3>3
  <2>3. NextRow' + Len(stream') = y'
    BY <1>0, <1>2, <2>1 DEF IInv, StreamInv
  <2> QED
    BY <1>0, <2>1, <2>2, <2>3 DEF StreamInv, Coding, Above
<1>6. dy \in Lines
  BY <1>0, <1>2, ImageAssumption DEF IInv, TypeOK, StreamInv, NextRow, Lines
<1>7. image[dy] \in Row /\ pdat = Above(dy) /\ pdat \in Row
  BY <1>0, <1>6 DEF IInv, TypeOK
<1>8. RowInv'
  <2> SUFFICES ASSUME NEW k \in Columns
               PROVE  cdat'[k] = IF Passed(k)' THEN image[dy][k]
                                 ELSE Coding(ft', dy)[k]
    BY <1>0 DEF RowInv, Coding, Above
  <2>1. cdat'[k] = Coding(ft', dy)[k]
    BY <1>3
  <2>2. CASE ~Passed(k)'
    BY <2>1, <2>2
  <2>3. CASE Passed(k)'
    <3>1. Predict(ft', image[dy], pdat, k) = 0
      <4>1. k \in Nat /\ k % Bpp \in Nat
        BY RowAssumption DEF Columns
      <4>2. CASE ft' = ftPaeth
        <5>1. pc' = "paeth" /\ i' = 0 /\ j' = 0
          BY <1>0, <4>2, StartValue
        <5> QED
          BY <2>3, <4>1, <5>1, SMTT(30) DEF Passed
      <4>3. CASE ft' # ftPaeth
        <5>1. k < Start(ft')
          BY <1>0, <2>3, <4>3 DEF Passed
        <5>2. ft' \in {ftNone, ftSub}
          <6> SUFFICES ASSUME ft' \notin {ftNone, ftSub} PROVE FALSE
            OBVIOUS
          <6>1. Start(ft') = 0
            BY <1>3, StartValue
          <6> QED
            BY <4>1, <5>1, <6>1
        <5>3. ft' = ftSub => k < Bpp
          BY <5>1, StartValue
        <5> QED
          BY <5>2, <5>3 DEF Predict, First, Later, ftPaeth, ftNone, ftSub, ftUp, ftAverage
      <4> QED
        BY <4>2, <4>3
    <3>2. Coding(ft', dy)[k] = (image[dy][k] - 0) % 256
      BY <1>7, <3>1 DEF Coding, Filtered
    <3>3. image[dy][k] \in Byte
      BY <1>7 DEF Row
    <3>4. \A x \in Byte : (x - 0) % 256 = x
      BY DEF Byte
    <3> QED
      BY <2>1, <2>3, <3>2, <3>3, <3>4
  <2> QED
    BY <2>2, <2>3
<1>9. LoopInv'
  <2>1. 0 < Bpp /\ 0 % Bpp = 0 /\ 0 < N + Bpp
    BY RowAssumption
  <2>2. pc' = "paeth" => ft' = ftPaeth /\ i' = 0 /\ j' = 0
    BY <1>0, StartValue
  <2> QED
    BY <1>0, <2>1, <2>2 DEF LoopInv
<1>10. pr' = Above(y)' /\ pdat' = Above(dy)' /\ RoundTrip'
  BY <1>0 DEF IInv, Above, RoundTrip
<1> QED
  BY <1>4, <1>5, <1>8, <1>9, <1>10 DEF IInv

\* What the loops leave alone.
LEMMA LoopFrame ==
  ASSUME IInv, UNCHANGED <<encoderVars, stream, dy, ft, pdat, img>>,
         pc # "read", pc' = pc, cdat' \in Row,
         i' \in Nat, j' \in Nat, a' \in Byte, c' \in Byte
  PROVE  /\ TypeOK' /\ StreamInv' /\ RoundTrip'
         /\ pr' = Above(y)' /\ pdat' = Above(dy)'
<1> USE DEF IInv
<1>1. TypeOK'
  BY DEF TypeOK, encoderVars
<1>2. StreamInv'
  BY DEF StreamInv, NextRow, Coding, Above, encoderVars
<1>3. RoundTrip' /\ pr' = Above(y)' /\ pdat' = Above(dy)'
  BY DEF RoundTrip, Above, encoderVars
<1> QED
  BY <1>1, <1>2, <1>3

LEMMA UnfilterByteInv == IInv /\ UnfilterByte => IInv'
<1> SUFFICES ASSUME IInv, UnfilterByte PROVE IInv'
  OBVIOUS
<1>0. /\ pc = "bytes" /\ pc' = pc /\ j < N /\ j' = j + 1
      /\ cdat' = [cdat EXCEPT ![j] = (cdat[j] + Predict(ft, cdat, pdat, j)) % 256]
      /\ UNCHANGED <<encoderVars, stream, dy, ft, pdat, i, a, c, img>>
  BY DEF UnfilterByte
<1>1. dy \in Lines /\ image[dy] \in Row /\ pdat \in Row /\ cdat \in Row
      /\ ft \in FilterType /\ pdat = Above(dy) /\ j \in Nat
  BY <1>0, RowInImage DEF IInv, TypeOK
<1>2. j \in Columns
  BY <1>0, <1>1, RowAssumption DEF Columns
<1>3. \A k \in Columns :
        cdat[k] = IF k < j THEN image[dy][k] ELSE Coding(ft, dy)[k]
  BY <1>0 DEF IInv, RowInv, Passed
<1>4. j >= Bpp => cdat[j - Bpp] = image[dy][j - Bpp]
  BY <1>1, <1>2, <1>3, RowAssumption DEF Columns
<1>5. cdat[j] = Filtered(ft, image[dy], pdat)[j]
  BY <1>1, <1>2, <1>3 DEF Coding
<1>6. (cdat[j] + Predict(ft, cdat, pdat, j)) % 256 = image[dy][j]
  BY <1>1, <1>2, <1>4, <1>5, Undo
<1>7. cdat' = [cdat EXCEPT ![j] = image[dy][j]]
  BY <1>0, <1>6
<1>8. image[dy][j] \in Byte
  BY <1>1, <1>2 DEF Row
<1>9. /\ cdat' \in Row /\ j' \in Nat
      /\ cdat'[j] = image[dy][j]
      /\ \A k \in Columns : k # j => cdat'[k] = cdat[k]
  <2> DEFINE v == image[dy][j]
  <2>1. v \in Byte /\ cdat' = [cdat EXCEPT ![j] = v]
    BY <1>7, <1>8
  <2> HIDE DEF v
  <2>2. /\ cdat' \in Row /\ cdat'[j] = v
        /\ \A k \in Columns : k # j => cdat'[k] = cdat[k]
    BY <1>1, <1>2, <2>1 DEF Row
  <2> QED
    BY <1>0, <1>1, <2>2 DEF v
<1>10. RowInv'
  <2> SUFFICES ASSUME NEW k \in Columns
               PROVE  cdat'[k] = IF k < j + 1 THEN image[dy][k]
                                 ELSE Coding(ft, dy)[k]
    BY <1>0 DEF RowInv, Passed, Coding, Above, encoderVars
  <2>1. k \in Int
    BY RowAssumption DEF Columns
  <2>2. CASE k = j
    BY <1>1, <1>9, <2>2
  <2>3. CASE k # j
    <3>1. k < j + 1 <=> k < j
      BY <1>1, <2>1, <2>3
    <3>2. cdat'[k] = cdat[k]
      BY <1>9, <2>3
    <3> QED
      BY <1>3, <3>1, <3>2
  <2> QED
    BY <2>2, <2>3
<1>11. LoopInv'
  BY <1>0 DEF IInv, LoopInv
<1>12. i' \in Nat /\ a' \in Byte /\ c' \in Byte
  BY <1>0 DEF IInv, TypeOK
<1> QED
  BY <1>0, <1>9, <1>10, <1>11, <1>12, LoopFrame DEF IInv

LEMMA PaethByteInv == IInv /\ PaethByte => IInv'
<1> SUFFICES ASSUME IInv, PaethByte PROVE IInv'
  OBVIOUS
<1>0. /\ pc = "paeth" /\ pc' = pc /\ j < N /\ j' = j + Bpp /\ c' = pdat[j]
      /\ a' = (cdat[j] + Paeth(a, pdat[j], c)) % 256
      /\ cdat' = [cdat EXCEPT ![j] = a']
      /\ UNCHANGED <<encoderVars, stream, dy, ft, pdat, i, img>>
  BY DEF PaethByte
<1> DEFINE cur  == image[dy]
           prev == Above(dy)
<1>1. dy \in Lines /\ cur \in Row /\ prev \in Row /\ cdat \in Row
      /\ pdat = prev /\ j \in Nat /\ i \in Nat /\ ft = ftPaeth
  BY <1>0, RowInImage DEF IInv, TypeOK, LoopInv
<1>2. j \in Columns /\ Bpp \in Nat \ {0} /\ N \in Nat
  BY <1>0, <1>1, RowAssumption DEF Columns
<1>3. /\ i < Bpp /\ j % Bpp = i
      /\ a = (IF j < Bpp THEN 0 ELSE cur[j - Bpp])
      /\ c = (IF j < Bpp THEN 0 ELSE prev[j - Bpp])
  BY <1>0 DEF IInv, LoopInv
<1>4. \A k \in Columns :
        cdat[k] = IF k % Bpp < i \/ (k % Bpp = i /\ k < j)
                  THEN cur[k] ELSE Coding(ftPaeth, dy)[k]
  BY <1>0, <1>1 DEF IInv, RowInv, Passed
<1>5. cdat[j] = Filtered(ftPaeth, cur, prev)[j]
  <2>1. ~(j % Bpp < i) /\ ~(j < j)
    BY <1>1, <1>3
  <2> QED
    BY <1>2, <1>4, <2>1 DEF Coding
<1>6. a' = cur[j]
  <2>1. Predict(ftPaeth, cur, prev, j) = Paeth(a, pdat[j], c)
    BY <1>1, <1>2, <1>3, PaethPredicts
  <2>2. ftPaeth \in FilterType
    BY DEF ftPaeth, FilterType
  <2>3. (Filtered(ftPaeth, cur, prev)[j] + Predict(ftPaeth, cur, prev, j)) % 256
          = cur[j]
    BY <1>1, <1>2, <2>2, Undo
  <2> QED
    BY <1>0, <1>5, <2>1, <2>3
<1>7. c' = prev[j]
  BY <1>0, <1>1
<1>8. a' \in Byte /\ c' \in Byte
  BY <1>1, <1>2, <1>6, <1>7 DEF Row
<1>9. /\ cdat' \in Row
      /\ cdat'[j] = cur[j]
      /\ \A k \in Columns : k # j => cdat'[k] = cdat[k]
  <2> DEFINE v == a'
  <2>1. v \in Byte /\ v = cur[j] /\ cdat' = [cdat EXCEPT ![j] = v]
    BY <1>0, <1>6, <1>8
  <2> HIDE DEF v
  <2>2. /\ cdat' \in Row /\ cdat'[j] = v
        /\ \A k \in Columns : k # j => cdat'[k] = cdat[k]
    BY <1>1, <1>2, <2>1 DEF Row
  <2> QED
    BY <2>1, <2>2
<1>10. RowInv'
  <2> SUFFICES ASSUME NEW k \in Columns
               PROVE  cdat'[k] = IF k % Bpp < i \/ (k % Bpp = i /\ k < j + Bpp)
                                 THEN image[dy][k] ELSE Coding(ft, dy)[k]
    BY <1>0 DEF RowInv, Passed, Coding, Above, encoderVars
  <2>1. k \in Nat /\ k % Bpp \in Nat
    BY <1>2 DEF Columns
  <2>2. CASE k = j
    BY <1>1, <1>2, <1>3, <1>9, <2>2
  <2>3. CASE k # j
    <3>1. k % Bpp = i /\ k < j + Bpp => k < j
      <4> SUFFICES ASSUME k % Bpp = i, k < j + Bpp, j <= k PROVE FALSE
        BY <1>1, <2>1
      <4>1. k % Bpp = j % Bpp
        BY <1>3
      <4>2. k = j
        BY <1>1, <1>2, <2>1, <4>1, NothingBetween
      <4> QED
        BY <2>3, <4>2
    <3>2. k < j => k < j + Bpp
      BY <1>1, <1>2, <2>1
    <3> QED
      BY <1>1, <1>4, <1>9, <2>3, <3>1, <3>2
  <2> QED
    BY <2>2, <2>3
<1>11. LoopInv'
  <2>1. (j + Bpp) % Bpp = i
    BY <1>1, <1>2, <1>3, SameChannel
  <2>2. ~(j + Bpp < Bpp) /\ (j + Bpp) - Bpp = j /\ j + Bpp < N + Bpp
    BY <1>0, <1>1, <1>2
  <2> QED
    BY <1>0, <1>1, <1>3, <1>6, <1>7, <2>1, <2>2 DEF LoopInv, Above, encoderVars
<1>12. j' \in Nat /\ i' \in Nat
  BY <1>0, <1>1, <1>2
<1> QED
  BY <1>0, <1>8, <1>9, <1>10, <1>11, <1>12, LoopFrame DEF IInv

LEMMA PaethNextInv == IInv /\ PaethNext => IInv'
<1> SUFFICES ASSUME IInv, PaethNext PROVE IInv'
  OBVIOUS
<1> USE DEF PaethNext
<1>1. j \in Nat /\ i \in Nat /\ N \in Nat /\ Bpp \in Nat \ {0} /\ j % Bpp = i
  BY RowAssumption DEF IInv, TypeOK, LoopInv
<1>2. RowInv'
  <2>1. ASSUME NEW k \in Columns
        PROVE  Passed(k)' <=> Passed(k)
    <3>1. k \in Nat /\ k < N /\ k % Bpp \in Nat /\ k % Bpp <= k
      BY <1>1 DEF Columns
    <3>2. Passed(k) <=> k % Bpp <= i
      BY <1>1, <3>1 DEF Passed
    <3>3. Passed(k)' <=> k % Bpp < i + 1 \/ (k % Bpp = i + 1 /\ k < i + 1)
      BY DEF Passed
    <3> QED
      BY <1>1, <3>1, <3>2, <3>3
  <2> QED
    BY <2>1 DEF IInv, RowInv, Coding, Above, encoderVars
<1>3. LoopInv'
  <2>1. (i + 1) % Bpp = i + 1
    BY <1>1
  <2>2. i + 1 < N + Bpp
    BY <1>1
  <2> QED
    BY <2>1, <2>2 DEF IInv, LoopInv, Above, encoderVars
<1>4. i' \in Nat /\ j' \in Nat /\ a' \in Byte /\ c' \in Byte /\ cdat' \in Row
  BY <1>1 DEF Byte, IInv, TypeOK
<1> QED
  BY <1>2, <1>3, <1>4, LoopFrame DEF IInv

LEMMA EndRowInv == IInv /\ EndRow => IInv'
<1> SUFFICES ASSUME IInv, EndRow PROVE IInv'
  OBVIOUS
<1> USE DEF EndRow
<1>1. /\ pc # "read" /\ dy \in Lines /\ image[dy] \in Row
      /\ cdat \in Row /\ pdat \in Row /\ j \in Nat /\ i \in Nat
      /\ N \in Nat /\ Bpp \in Nat \ {0} /\ Height \in Nat
  BY RowInImage, RowAssumption, ImageAssumption DEF IInv, TypeOK
<1>2. cdat = image[dy]
  <2>1. ASSUME NEW k \in Columns PROVE Passed(k)
    <3>1. k \in Nat /\ k < N /\ k % Bpp \in Nat /\ k % Bpp < Bpp
      BY <1>1 DEF Columns
    <3> QED
      BY <1>1, <3>1 DEF Passed
  <2>2. \A k \in Columns : cdat[k] = image[dy][k]
    BY <1>1, <2>1 DEF IInv, RowInv
  <2> QED
    BY <1>1, <2>2 DEF Row
<1>3. dy \in Nat /\ dy + 1 \in 0..Height /\ dy < Height
  BY <1>1 DEF Lines
<1>4. TypeOK'
  <2>1. img' \in [Lines -> Row]
    BY <1>1 DEF IInv, TypeOK
  <2> QED
    BY <1>1, <1>3, <2>1 DEF IInv, TypeOK, encoderVars, loopVars
<1>5. StreamInv'
  BY <1>1 DEF IInv, StreamInv, NextRow, Coding, Above, encoderVars
<1>6. pr' = Above(y)' /\ pdat' = Above(dy)'
  BY <1>2, <1>3 DEF IInv, Above, encoderVars
<1>7. RoundTrip'
  <2> SUFFICES ASSUME NEW r \in 0..dy PROVE img'[r] = image[r]
    BY <1>3 DEF RoundTrip, encoderVars
  <2>1. r \in Lines
    BY <1>1, <1>3 DEF Lines
  <2>2. r # dy => r \in 0..(dy - 1)
    BY <1>3
  <2> QED
    BY <1>1, <1>2, <2>1, <2>2 DEF IInv, TypeOK, RoundTrip
<1> QED
  BY <1>4, <1>5, <1>6, <1>7 DEF IInv, RowInv, LoopInv

LEMMA ReuseInv == IInv /\ Reuse => IInv'
<1> SUFFICES ASSUME IInv, Reuse PROVE IInv'
  OBVIOUS
<1> USE DEF Reuse
<1>1. Len(stream) \in Nat /\ Height \in Nat /\ stream \in Seq([type : FilterType, bytes : Row])
  BY ImageAssumption, LenProperties DEF IInv, TypeOK
<1>2. pc = "read" /\ Len(stream) = 0
  BY <1>1 DEF IInv, StreamInv, NextRow, TypeOK
<1>3. Zeros \in Row
  BY DEF Zeros, Row, Byte
<1>4. TypeOK'
  <2>1. image' \in [Lines -> Row] /\ img' \in [Lines -> Row]
    BY <1>3, ImageAssumption
  <2> QED
    BY <1>1, <1>3, <2>1 DEF IInv, TypeOK, loopVars
<1>5. StreamInv'
  BY <1>2 DEF StreamInv, NextRow
<1>6. pr' = Above(y)' /\ pdat' = Above(dy)' /\ RoundTrip' /\ RowInv' /\ LoopInv'
  BY <1>2 DEF Above, RoundTrip, RowInv, LoopInv
<1> QED
  BY <1>4, <1>5, <1>6 DEF IInv

LEMMA NextInv == IInv /\ [Next]_vars => IInv'
<1> SUFFICES ASSUME IInv, [Next]_vars PROVE IInv'
  OBVIOUS
<1>1. CASE Next
  BY <1>1, EncodeRowInv, ReadRowInv, UnfilterByteInv, PaethByteInv, PaethNextInv,
     EndRowInv, ReuseInv DEF Next, Decode
<1>2. CASE UNCHANGED vars
  BY <1>2 DEF vars, encoderVars, decoderVars, loopVars, IInv, TypeOK, StreamInv,
              NextRow, RowInv, Passed, LoopInv, RoundTrip, Coding, Above
<1> QED
  BY <1>1, <1>2

\* The decoder is where the encoder was, and every reachable state shows it.
LEMMA Invariance == Spec => []IInv
<1>1. Init => IInv
  BY InitInv
<1>2. IInv /\ [Next]_vars => IInv'
  BY NextInv
<1> QED
  BY <1>1, <1>2, PTL DEF Spec

\* Every variable has its type: the encoder never writes a byte of a row that it
\* has not computed.
THEOREM RowsTypeCorrect == Spec => []TypeOK
<1>1. IInv => TypeOK
  BY DEF IInv
<1> QED
  BY <1>1, Invariance, PTL

\* Whatever the image, its width and the size of its pixels, with filters or
\* without and with buffers used before: what is decoded is what was encoded.
THEOREM RowsRoundTrip == Spec => []RoundTrip
<1>1. IInv => RoundTrip
  BY DEF IInv
<1> QED
  BY <1>1, Invariance, PTL

-----------------------------------------------------------------------------
(* Sums, a recursive function, and with it what filter minimizes.  The library's
   induction rules take an operator and are of no use to the provers here; that
   < is well-founded on Nat takes a set, and a smallest counterexample does. *)

Less == {pair \in Nat \X Nat : pair[1] < pair[2]}

LEMMA LeastElement ==
  ASSUME NEW S, S \subseteq Nat, S # {}
  PROVE  \E l \in S : \A m \in S : ~(m < l)
<1>1. IsWellFoundedOn(Less, Nat)
  BY NatLessThanWellFounded DEF OpToRel, Less
<1>2. \E l \in S : \A m \in S : ~(<<m, l>> \in Less)
  BY <1>1, WFMin
<1> QED
  BY <1>2 DEF Less

LEMMA SetInduction ==
  ASSUME NEW S, 0 \in S, \A n \in S : n + 1 \in S
  PROVE  Nat \subseteq S
<1> SUFFICES ASSUME Nat \ S # {} PROVE FALSE
  OBVIOUS
<1>1. PICK l \in Nat \ S : \A m \in Nat \ S : ~(m < l)
  BY LeastElement
<1>2. l - 1 \in Nat /\ l - 1 < l /\ (l - 1) + 1 = l
  OBVIOUS
<1>3. l - 1 \in S
  BY <1>1, <1>2
<1> QED
  BY <1>2, <1>3

\* The partial sums of the numbers d.
Adds(s, n, d) ==
  s = [k \in 0..n |-> IF k = 0 THEN 0 ELSE s[k - 1] + d[k - 1]]

LEMMA PartialSums ==
  ASSUME NEW d \in [Columns -> Nat]
  PROVE  \E s \in [0..N -> Nat] : Adds(s, N, d)
<1> DEFINE S == {n \in Nat : n <= N => \E s \in [0..n -> Nat] : Adds(s, n, d)}
<1>1. 0 \in S
  <2> DEFINE s == [k \in 0..0 |-> 0]
  <2>1. s \in [0..0 -> Nat] /\ Adds(s, 0, d)
    BY DEF Adds
  <2> QED
    BY <2>1
<1>2. ASSUME NEW n \in S PROVE n + 1 \in S
  <2> SUFFICES ASSUME n + 1 <= N
               PROVE  \E s \in [0..(n + 1) -> Nat] : Adds(s, n + 1, d)
    OBVIOUS
  <2>1. n \in Nat /\ n \in Columns /\ n <= N
    BY RowAssumption DEF Columns
  <2>2. PICK s \in [0..n -> Nat] : Adds(s, n, d)
    BY <2>1
  <2>3. s[n] + d[n] \in Nat
    BY <2>1
  <2> DEFINE e == [k \in 0..(n + 1) |-> IF k <= n THEN s[k] ELSE s[n] + d[n]]
  <2>4. e \in [0..(n + 1) -> Nat]
    BY <2>1, <2>3
  <2>5. ASSUME NEW k \in 0..(n + 1)
        PROVE  e[k] = IF k = 0 THEN 0 ELSE e[k - 1] + d[k - 1]
    <3>1. CASE k = n + 1
      BY <2>1, <3>1
    <3>2. CASE k \in 0..n
      <4>1. s[k] = IF k = 0 THEN 0 ELSE s[k - 1] + d[k - 1]
        BY <2>2, <3>2 DEF Adds
      <4>2. k # 0 => k - 1 \in 0..n
        BY <2>1, <3>2
      <4> QED
        BY <2>1, <3>2, <4>1, <4>2
    <3> QED
      BY <2>1, <3>1, <3>2
  <2>6. Adds(e, n + 1, d)
    BY <2>5 DEF Adds
  <2> HIDE DEF e
  <2> QED
    BY <2>4, <2>6
<1>3. Nat \subseteq S
  BY <1>1, <1>2, SetInduction
<1>4. N \in S /\ N <= N
  BY <1>3, RowAssumption
<1> QED
  BY <1>4

\* The sums exist: they are natural numbers and each adds one byte.
LEMMA SumsValue ==
  ASSUME NEW row \in Row
  PROVE  /\ Sums(row) \in [0..N -> Nat]
         /\ \A k \in 1..N : Sums(row)[k] = Sums(row)[k - 1] + abs8(row[k - 1])
         /\ \A k \in Columns : abs8(row[k]) \in Nat
<1> DEFINE d == [k \in Columns |-> abs8(row[k])]
<1>1. \A k \in Columns : abs8(row[k]) \in Nat
  BY DEF abs8, Row, Byte
<1>2. d \in [Columns -> Nat]
  BY <1>1
<1> DEFINE Rec(s) ==
             s = [k \in 0..N |-> IF k = 0 THEN 0 ELSE s[k - 1] + abs8(row[k - 1])]
<1>3. \A s : Adds(s, N, d) <=> Rec(s)
  <2> SUFFICES ASSUME NEW s PROVE Adds(s, N, d) <=> Rec(s)
    OBVIOUS
  <2>1. \A k \in 0..N : k # 0 => d[k - 1] = abs8(row[k - 1])
    BY RowAssumption DEF Columns
  <2>2. [k \in 0..N |-> IF k = 0 THEN 0 ELSE s[k - 1] + abs8(row[k - 1])]
          = [k \in 0..N |-> IF k = 0 THEN 0 ELSE s[k - 1] + d[k - 1]]
    BY <2>1
  <2> QED
    BY <2>2 DEF Adds
<1>4. \E s : Rec(s)
  <2> HIDE DEF d, Rec
  <2> QED
    BY <1>2, <1>3, PartialSums
<1>5. Sums(row) = CHOOSE s : Rec(s)
  BY DEF Sums
<1>6. Rec(Sums(row))
  <2> HIDE DEF Rec
  <2> QED
    BY <1>4, <1>5
<1>7. Sums(row) \in [0..N -> Nat]
  <2> DEFINE S == {n \in Nat : n <= N => Sums(row)[n] \in Nat}
  <2>1. 0 \in S
    BY <1>6, RowAssumption
  <2>2. ASSUME NEW n \in S PROVE n + 1 \in S
    <3> SUFFICES ASSUME n + 1 <= N PROVE Sums(row)[n + 1] \in Nat
      OBVIOUS
    <3>1. n \in Columns /\ n + 1 \in 0..N /\ n + 1 # 0 /\ (n + 1) - 1 = n
      BY RowAssumption DEF Columns
    <3>2. Sums(row)[n + 1] = Sums(row)[n] + abs8(row[n])
      BY <1>6, <3>1
    <3>3. Sums(row)[n] \in Nat
      BY RowAssumption
    <3> QED
      BY <1>1, <3>1, <3>2, <3>3
  <2>3. Nat \subseteq S
    BY <2>1, <2>2, SetInduction
  <2>4. \A k \in 0..N : Sums(row)[k] \in Nat
    BY <2>3, RowAssumption
  <2> QED
    BY <1>6, <2>4
<1>8. \A k \in 1..N : Sums(row)[k] = Sums(row)[k - 1] + abs8(row[k - 1])
  BY <1>6, RowAssumption
<1> QED
  BY <1>1, <1>7, <1>8

\* A sum never shrinks: what is not better at one byte is not at the last.
LEMMA SumsGrow ==
  ASSUME NEW row \in Row, NEW k \in 0..N
  PROVE  Sums(row)[k] <= Sums(row)[N]
<1> DEFINE s == Sums(row)
<1> DEFINE S == {n \in Nat : n >= k /\ n <= N => s[k] <= s[n]}
<1>1. s \in [0..N -> Nat]
  BY SumsValue
<1>2. \A n \in 1..N : s[n] = s[n - 1] + abs8(row[n - 1])
  BY SumsValue
<1>3. \A n \in Columns : abs8(row[n]) \in Nat
  BY SumsValue
<1> HIDE DEF s
<1>4. k \in Nat /\ N \in Nat /\ k <= N
  BY RowAssumption
<1>5. 0 \in S
  BY <1>1, <1>4
<1>6. ASSUME NEW n \in S PROVE n + 1 \in S
  <2> SUFFICES ASSUME n + 1 >= k, n + 1 <= N PROVE s[k] <= s[n + 1]
    OBVIOUS
  <2>1. CASE n + 1 = k
    BY <1>1, <1>4, <2>1
  <2>2. CASE n >= k
    <3>1. n \in Columns /\ n + 1 \in 1..N /\ (n + 1) - 1 = n /\ n \in 0..N
      BY <1>4, <2>2 DEF Columns
    <3>2. s[n + 1] = s[n] + abs8(row[n])
      BY <1>2, <3>1
    <3>3. s[k] <= s[n]
      <4>1. n \in Nat /\ n <= N
        BY <1>4
      <4> QED
        BY <2>2, <4>1
    <3>4. s[k] \in Nat /\ s[n] \in Nat /\ abs8(row[n]) \in Nat
      BY <1>1, <1>3, <3>1
    <3> QED
      BY <3>2, <3>3, <3>4
  <2> QED
    BY <1>4, <2>1, <2>2
<1>7. N \in S
  BY <1>4, <1>5, <1>6, SetInduction
<1> QED
  BY <1>4, <1>7 DEF s

Sum(f, cur, prev) == Sums(Filtered(f, cur, prev))[N]

\* The best sum so far is the sum of the filter chosen so far.
BestKnown(t, cur, prev) ==
  t.filter \in FilterType /\ t.best = Sum(t.filter, cur, prev)

LEMMA SumType ==
  ASSUME NEW f \in FilterType, NEW cur \in Row, NEW prev \in Row
  PROVE  Sum(f, cur, prev) \in Nat
<1>1. Filtered(f, cur, prev) \in Row
  BY FilteredType
<1>2. Sums(Filtered(f, cur, prev)) \in [0..N -> Nat]
  BY <1>1, SumsValue
<1> QED
  BY <1>2, RowAssumption DEF Sum

LEMMA ComputedRange ==
  ASSUME NEW f \in FilterType, NEW s, NEW best
  PROVE  Computed(f, s, best) \in 0..N
<1> DEFINE stops(k) ==
             ~(s[k] < best) /\ \A l \in FirstCheck(f)..(k - 1) : s[l] < best
<1>1. FirstCheck(f) \in Nat
  BY RowAssumption DEF FirstCheck
<1>2. CASE \E k \in FirstCheck(f)..N : stops(k)
  <2> DEFINE k0 == CHOOSE k \in FirstCheck(f)..N : stops(k)
  <2>1. Computed(f, s, best) = k0
    BY <1>2 DEF Computed
  <2>2. k0 \in FirstCheck(f)..N
    BY <1>2
  <2> HIDE DEF k0
  <2> QED
    BY <1>1, <2>1, <2>2, RowAssumption
<1>3. CASE ~(\E k \in FirstCheck(f)..N : stops(k))
  BY <1>3, RowAssumption DEF Computed
<1> QED
  BY <1>2, <1>3

\* Trying a filter leaves the sum of no better one behind.
LEMMA TryLeast ==
  ASSUME NEW f \in FilterType, NEW cur \in Row, NEW prev \in Row, NEW t,
         BestKnown(t, cur, prev)
  PROVE  /\ BestKnown(Try(t, f, cur, prev), cur, prev)
         /\ Try(t, f, cur, prev).best <= t.best
         /\ Try(t, f, cur, prev).best <= Sum(f, cur, prev)
<1> DEFINE row  == Filtered(f, cur, prev)
           s    == Sums(row)
           done == Computed(f, s, t.best)
<1>1. t.best \in Nat
  BY SumType DEF BestKnown
<1>2. row \in Row
  BY FilteredType
<1>3. s \in [0..N -> Nat]
  BY <1>2, SumsValue
<1>4. done \in 0..N /\ N \in 0..N
  BY ComputedRange, RowAssumption
<1>5. CASE s[done] < t.best
  <2>1. done = N
    BY <1>5, BreaksLate
  <2>2. Try(t, f, cur, prev).best = s[done] /\ Try(t, f, cur, prev).filter = f
    BY <1>5 DEF Try
  <2>3. s[done] = Sum(f, cur, prev)
    BY <2>1 DEF Sum
  <2>4. Sum(f, cur, prev) \in Nat
    BY SumType
  <2> HIDE DEF s, done
  <2> QED
    BY <1>1, <1>5, <2>2, <2>3, <2>4 DEF BestKnown
<1>6. CASE ~(s[done] < t.best)
  <2>1. Try(t, f, cur, prev) = t
    BY <1>6 DEF Try
  <2>2. s[done] <= s[N]
    BY <1>2, <1>4, SumsGrow
  <2>3. s[N] = Sum(f, cur, prev)
    BY DEF Sum
  <2>4. s[done] \in Nat /\ s[N] \in Nat
    BY <1>3, <1>4
  <2> HIDE DEF s, done
  <2>5. t.best <= Sum(f, cur, prev) /\ t.best <= t.best
    BY <1>1, <1>6, <2>2, <2>3, <2>4
  <2> QED
    BY <2>1, <2>5
<1> QED
  BY <1>5, <1>6

LEMMA ChosenLeast ==
  ASSUME NEW cur \in Row, NEW prev \in Row, NEW f \in FilterType
  PROVE  Sum(Chosen(cur, prev).filter, cur, prev) <= Sum(f, cur, prev)
<1> DEFINE up    == Filtered(ftUp, cur, prev)
           first == [best |-> Sums(up)[N], filter |-> ftUp, row |-> up]
           paeth == Try(first, ftPaeth, cur, prev)
           none  == Try(paeth, ftNone, cur, prev)
           sub   == Try(none, ftSub, cur, prev)
           last  == Try(sub, ftAverage, cur, prev)
           Known(t) == BestKnown(t, cur, prev) /\ t.best \in Nat
<1>1. /\ ftUp \in FilterType /\ ftPaeth \in FilterType /\ ftNone \in FilterType
      /\ ftSub \in FilterType /\ ftAverage \in FilterType
      /\ f \in {ftUp, ftPaeth, ftNone, ftSub, ftAverage}
  BY DEF FilterType, ftUp, ftPaeth, ftNone, ftSub, ftAverage
<1>2. \A t : BestKnown(t, cur, prev) => t.best \in Nat
  BY SumType DEF BestKnown
<1>3. Known(first) /\ first.best = Sum(ftUp, cur, prev)
  <2>1. BestKnown(first, cur, prev) /\ first.best = Sum(ftUp, cur, prev)
    BY <1>1 DEF BestKnown, Sum
  <2> HIDE DEF first
  <2> QED
    BY <1>2, <2>1
<1>4. Known(paeth) /\ paeth.best <= first.best
      /\ paeth.best <= Sum(ftPaeth, cur, prev)
  <2> HIDE DEF first
  <2> QED
    BY <1>1, <1>2, <1>3, TryLeast
<1>5. Known(none) /\ none.best <= paeth.best
      /\ none.best <= Sum(ftNone, cur, prev)
  <2> HIDE DEF paeth
  <2> QED
    BY <1>1, <1>2, <1>4, TryLeast
<1>6. Known(sub) /\ sub.best <= none.best
      /\ sub.best <= Sum(ftSub, cur, prev)
  <2> HIDE DEF none
  <2> QED
    BY <1>1, <1>2, <1>5, TryLeast
<1>7. Known(last) /\ last.best <= sub.best
      /\ last.best <= Sum(ftAverage, cur, prev)
  <2> HIDE DEF sub
  <2> QED
    BY <1>1, <1>2, <1>6, TryLeast
<1>8. Chosen(cur, prev) = last
  BY DEF Chosen
<1>9. \A g \in FilterType : Sum(g, cur, prev) \in Nat
  BY SumType
<1>10. last.best = Sum(Chosen(cur, prev).filter, cur, prev)
  BY <1>7, <1>8 DEF BestKnown
<1> HIDE DEF first, paeth, none, sub, last
<1>11. last.best <= Sum(f, cur, prev)
  BY <1>1, <1>3, <1>4, <1>5, <1>6, <1>7, <1>9
<1> QED
  BY <1>10, <1>11

\* filter picks the filter with the smallest sum of absolute differences
\* (writer.go:207), whatever the rows: stopping to sum early costs nothing.
THEOREM FilterPicksMinimum == Spec => []PicksMinimum
<1>1. IInv => PicksMinimum
  <2> SUFFICES ASSUME IInv, y < Height, NEW f \in FilterType
               PROVE  Sum(Chosen(image[y], pr).filter, image[y], pr)
                        <= Sum(f, image[y], pr)
    BY DEF PicksMinimum, Sum
  <2>1. image[y] \in Row /\ pr \in Row
    BY ImageAssumption DEF IInv, TypeOK, Lines
  <2> QED
    BY <2>1, ChosenLeast
<1> QED
  BY <1>1, Invariance, PTL
=============================================================================
