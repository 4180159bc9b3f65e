-------------------------- MODULE PngPixelsProofs ---------------------------
(***************************************************************************)
(* Pixels and bytes, for images of every size, all formats, and files of   *)
(* this encoder and of other programs, whatever their bytes are.           *)
(*                                                                         *)
(*  - The passes that reader.go computes and merges are those of the       *)
(*    standard, and no pixel is written twice.                             *)
(*  - writeImage fills its rows with the samples of the pixels.            *)
(*  - The rows of a file are those that decode expects, in its order.      *)
(*  - What readImagePass makes of a row, and mergePassInto of the passes,  *)
(*    is what the standard says, the transparent color included.           *)
(*  - So an image comes back from Encode and Decode as it was.             *)
(*                                                                         *)
(* Each of them is a part of the inductive invariant PicturesInv.          *)
(***************************************************************************)
EXTENDS PngPixels, SequenceTheorems, FiniteSetTheorems, WellFoundedInduction, TLAPS

-----------------------------------------------------------------------------
(* The pattern of the standard and the table of reader.go. *)

Passes == 1..7

\* The scans of the passes, as reader.go lists them
LEMMA Table ==
  /\ interlacing[1] = scan(8, 8, 0, 0)
  /\ interlacing[2] = scan(8, 8, 4, 0)
  /\ interlacing[3] = scan(4, 8, 0, 4)
  /\ interlacing[4] = scan(4, 4, 2, 0)
  /\ interlacing[5] = scan(2, 4, 0, 2)
  /\ interlacing[6] = scan(2, 2, 1, 0)
  /\ interlacing[7] = scan(1, 2, 0, 1)
BY DEF interlacing

\* There are seven passes.
LEMMA PassesAre ==
  ASSUME NEW ps \in Passes
  PROVE  ps = 1 \/ ps = 2 \/ ps = 3 \/ ps = 4 \/ ps = 5 \/ ps = 6 \/ ps = 7
BY DEF Passes

\* The lines and columns of a pass repeat with its factors.
Member(ps, column, line) ==
  /\ column % interlacing[ps].xFactor = interlacing[ps].xOffset
  /\ line % interlacing[ps].yFactor = interlacing[ps].yOffset

\* The remainders that the pattern of the standard looks at
LEMMA Remainders ==
  ASSUME NEW k \in Nat
  PROVE  /\ k % 8 \in 0..7 /\ k % 1 = 0
         /\ k % 4 = (k % 8) % 4 /\ k % 2 = (k % 8) % 2
OBVIOUS

\* The pass of a pixel by the standard's pattern, as a condition on remainders
LEMMA PatternIs ==
  \A l, k \in 0..7 :
    Pattern[l + 1][k + 1] =
      IF l % 2 = 1 THEN 7
      ELSE IF k % 2 = 1 THEN 6
      ELSE IF l % 4 = 2 THEN 5
      ELSE IF k % 4 = 2 THEN 4
      ELSE IF l = 4 THEN 3
      ELSE IF k = 4 THEN 2 ELSE 1
<1> SUFFICES ASSUME NEW l \in 0..7, NEW k \in 0..7
             PROVE  Pattern[l + 1][k + 1] =
                      IF l % 2 = 1 THEN 7
                      ELSE IF k % 2 = 1 THEN 6
                      ELSE IF l % 4 = 2 THEN 5
                      ELSE IF k % 4 = 2 THEN 4
                      ELSE IF l = 4 THEN 3
                      ELSE IF k = 4 THEN 2 ELSE 1
  OBVIOUS
<1>1. /\ Pattern[1] = <<1, 6, 4, 6, 2, 6, 4, 6>>
      /\ Pattern[2] = <<7, 7, 7, 7, 7, 7, 7, 7>>
      /\ Pattern[3] = <<5, 6, 5, 6, 5, 6, 5, 6>>
      /\ Pattern[4] = <<7, 7, 7, 7, 7, 7, 7, 7>>
      /\ Pattern[5] = <<3, 6, 4, 6, 3, 6, 4, 6>>
      /\ Pattern[6] = <<7, 7, 7, 7, 7, 7, 7, 7>>
      /\ Pattern[7] = <<5, 6, 5, 6, 5, 6, 5, 6>>
      /\ Pattern[8] = <<7, 7, 7, 7, 7, 7, 7, 7>>
  BY DEF Pattern
<1>2. CASE l = 0
  BY <1>1, <1>2
<1>3. CASE l = 1
  BY <1>1, <1>3
<1>4. CASE l = 2
  BY <1>1, <1>4
<1>5. CASE l = 3
  BY <1>1, <1>5
<1>6. CASE l = 4
  BY <1>1, <1>6
<1>7. CASE l = 5
  BY <1>1, <1>7
<1>8. CASE l = 6
  BY <1>1, <1>8
<1>9. CASE l = 7
  BY <1>1, <1>9
<1> QED
  BY <1>2, <1>3, <1>4, <1>5, <1>6, <1>7, <1>8, <1>9

\* The pattern of the standard and the table of reader.go have the same pixels.
LEMMA PassIsMember ==
  ASSUME NEW ps \in Passes, NEW column \in Nat, NEW line \in Nat
  PROVE  PassOf(column, line) = ps <=> Member(ps, column, line)
<1> DEFINE k == column % 8
           l == line % 8
<1>1. k \in 0..7 /\ l \in 0..7
  BY Remainders
<1>2. /\ column % 1 = 0
      /\ column % 2 = k % 2 /\ column % 4 = k % 4 /\ line % 2 = l % 2
      /\ line % 4 = l % 4
  BY Remainders
<1>3. PassOf(column, line) =
        IF l % 2 = 1 THEN 7
        ELSE IF k % 2 = 1 THEN 6
        ELSE IF l % 4 = 2 THEN 5
        ELSE IF k % 4 = 2 THEN 4
        ELSE IF l = 4 THEN 3
        ELSE IF k = 4 THEN 2 ELSE 1
  BY <1>1, PatternIs DEF PassOf
<1>4. /\ Member(1, column, line) <=> k = 0 /\ l = 0
      /\ Member(2, column, line) <=> k = 4 /\ l = 0
      /\ Member(3, column, line) <=> k % 4 = 0 /\ l = 4
      /\ Member(4, column, line) <=> k % 4 = 2 /\ l % 4 = 0
      /\ Member(5, column, line) <=> k % 2 = 0 /\ l % 4 = 2
      /\ Member(6, column, line) <=> k % 2 = 1 /\ l % 2 = 0
      /\ Member(7, column, line) <=> l % 2 = 1
  BY <1>2, Table DEF Member, scan
<1> HIDE DEF k, l
<1> QED
  BY <1>1, <1>3, <1>4, PassesAre
-----------------------------------------------------------------------------
(* Where mergePassInto puts the pixels of a pass. *)

\* A multiple of a factor that is below it is zero.
LEMMA SmallMultiple ==
  ASSUME NEW w \in Nat \ {0}, NEW d \in Int, -w < w * d, w * d < w
  PROVE  d = 0
<1>1. CASE d >= 1
  <2>1. w * d >= w
    BY <1>1
  <2> QED
    BY <2>1
<1>2. CASE d <= -1
  <2>1. w * d <= -w
    BY <1>2
  <2> QED
    BY <2>1
<1> QED
  BY <1>1, <1>2

\* A pixel's number gives its line and its column.
LEMMA RowMajor ==
  ASSUME NEW w \in Nat \ {0}, NEW line \in Nat, NEW column \in 0..(w - 1)
  PROVE  /\ line * w + column \in Nat
         /\ (line * w + column) % w = column
         /\ (line * w + column) \div w = line
<1> DEFINE m == line * w
           n == m + column
<1>1. m \in Nat /\ m = w * line
  OBVIOUS
<1> HIDE DEF m
<1>2. n \in Nat
  BY <1>1
<1>4. n = m + column
  OBVIOUS
<1> HIDE DEF n
<1>3. n = w * (n \div w) + (n % w) /\ n % w \in 0..(w - 1) /\ n \div w \in Nat
  BY <1>2
<1>5. w * ((n \div w) - line) = w * (n \div w) - w * line
  BY <1>3
<1>6. w * ((n \div w) - line) = column - (n % w)
  BY <1>1, <1>3, <1>4, <1>5
<1>7. (n \div w) - line = 0
  <2> DEFINE d == (n \div w) - line
  <2>1. d \in Int /\ w * d = column - (n % w)
    BY <1>3, <1>6
  <2> HIDE DEF d
  <2>2. -w < w * d /\ w * d < w
    BY <1>3, <2>1
  <2>3. d = 0
    BY <2>1, <2>2, SmallMultiple
  <2> QED
    BY <2>3 DEF d
<1> QED
  BY <1>1, <1>2, <1>3, <1>6, <1>7 DEF n, m

\* Columns and lines of the image that a pass has
LEMMA PassColumns ==
  ASSUME NEW w \in Nat, NEW ps \in Passes
  PROVE  LET p == interlacing[ps]
         IN  /\ passWidth(w, ps) \in Nat
             /\ passHeight(w, ps) \in Nat
             /\ \A column \in Nat :
                  column < passWidth(w, ps) <=> p.xOffset + column * p.xFactor < w
             /\ \A line \in Nat :
                  line < passHeight(w, ps) <=> p.yOffset + line * p.yFactor < w
<1>1. CASE ps = 1
  BY <1>1, Table DEF scan, passWidth, passHeight
<1>2. CASE ps = 2
  BY <1>2, Table DEF scan, passWidth, passHeight
<1>3. CASE ps = 3
  BY <1>3, Table DEF scan, passWidth, passHeight
<1>4. CASE ps = 4
  BY <1>4, Table DEF scan, passWidth, passHeight
<1>5. CASE ps = 5
  BY <1>5, Table DEF scan, passWidth, passHeight
<1>6. CASE ps = 6
  BY <1>6, Table DEF scan, passWidth, passHeight
<1>7. CASE ps = 7
  BY <1>7, Table DEF scan, passWidth, passHeight
<1> QED
  BY <1>1, <1>2, <1>3, <1>4, <1>5, <1>6, <1>7, PassesAre

\* The factors and the offsets of a pass are small.
LEMMA Factors ==
  ASSUME NEW ps \in Passes
  PROVE  LET p == interlacing[ps]
         IN  /\ p.xFactor \in Nat \ {0} /\ p.yFactor \in Nat \ {0}
             /\ p.xOffset \in 0..(p.xFactor - 1) /\ p.yOffset \in 0..(p.yFactor - 1)
BY Table, PassesAre DEF scan

ColumnOf(ps, column) == column * interlacing[ps].xFactor + interlacing[ps].xOffset
LineOf(ps, line) == line * interlacing[ps].yFactor + interlacing[ps].yOffset

\* A pixel of a pass goes to one of the pass in the standard.
LEMMA TargetInPass ==
  ASSUME NEW w \in Nat \ {0}, NEW ps \in Passes, NEW line \in Nat,
         NEW column \in Nat, column < passWidth(w, ps),
         NEW n, Target(w, ps, column, line) = n
  PROVE  /\ n \in Nat
         /\ n % w = ColumnOf(ps, column) /\ n \div w = LineOf(ps, line)
         /\ PassOf(n % w, n \div w) = ps
<1> DEFINE p == interlacing[ps]
           cl == column * p.xFactor + p.xOffset
           ln == line * p.yFactor + p.yOffset
<1>1. p.xFactor \in Nat \ {0} /\ p.xOffset \in 0..(p.xFactor - 1)
  BY Factors
<1>2. p.yFactor \in Nat \ {0} /\ p.yOffset \in 0..(p.yFactor - 1)
  BY Factors
<1> HIDE DEF p
<1>3. \A f \in Nat \ {0} : \A o \in 0..(f - 1) : \A k \in Nat : k * f + o \in Nat
  OBVIOUS
<1>4. cl \in Nat /\ ln \in Nat
  BY <1>1, <1>2, <1>3
<1>5. cl < w
  <2>1. p.xOffset + column * p.xFactor < w
    BY PassColumns DEF p
  <2>2. \A f \in Nat \ {0} : \A o \in 0..(f - 1) : \A k \in Nat : k * f + o = o + k * f
    OBVIOUS
  <2> QED
    BY <1>1, <2>1, <2>2
<1>6. n = ln * w + cl
  <2>1. n = ln * w + p.xOffset + column * p.xFactor
    BY DEF Target, p
  <2>2. \A f \in Nat \ {0} : \A o \in 0..(f - 1) : \A k, m \in Nat : m + o + k * f = m + (k * f + o)
    OBVIOUS
  <2>3. ln * w \in Nat
    BY <1>4
  <2> QED
    BY <1>1, <2>1, <2>2, <2>3
<1>7. Member(ps, cl, ln)
  <2>1. cl % p.xFactor = p.xOffset
    BY <1>1, RowMajor
  <2>2. ln % p.yFactor = p.yOffset
    BY <1>2, RowMajor
  <2> QED
    BY <2>1, <2>2 DEF Member, p
<1>8. n \in Nat /\ n % w = cl /\ n \div w = ln
  <2> HIDE DEF cl, ln
  <2>1. cl \in 0..(w - 1)
    BY <1>4, <1>5
  <2>2. /\ ln * w + cl \in Nat
        /\ (ln * w + cl) % w = cl /\ (ln * w + cl) \div w = ln
    BY <1>4, <2>1, RowMajor
  <2> QED
    BY <1>6, <2>2
<1>9. PassOf(cl, ln) = ps
  BY <1>4, <1>7, PassIsMember
<1>10. cl = ColumnOf(ps, column) /\ ln = LineOf(ps, line)
  BY DEF ColumnOf, LineOf, p
<1> HIDE DEF cl, ln
<1> QED
  BY <1>8, <1>9, <1>10

\* The passes of reader.go make up the image: every pixel of it, whatever its
\* size, comes from one place of one pass.
THEOREM PassesPartition ==
  \A w, h \in Nat \ {0} : \A n \in 0..(w * h - 1) :
    \E ps \in Passes, column \in Nat, line \in Nat :
      /\ column < passWidth(w, ps) /\ line < passHeight(h, ps)
      /\ Target(w, ps, column, line) = n
      /\ \A qs \in Passes, column2 \in Nat, line2 \in Nat :
           column2 < passWidth(w, qs) /\ Target(w, qs, column2, line2) = n
             => qs = ps /\ column2 = column /\ line2 = line
<1> SUFFICES ASSUME NEW w \in Nat \ {0}, NEW h \in Nat \ {0},
                    NEW n \in 0..(w * h - 1)
             PROVE  \E ps \in Passes, column \in Nat, line \in Nat :
                      /\ column < passWidth(w, ps) /\ line < passHeight(h, ps)
                      /\ Target(w, ps, column, line) = n
                      /\ \A qs \in Passes, column2 \in Nat, line2 \in Nat :
                           column2 < passWidth(w, qs)
                             /\ Target(w, qs, column2, line2) = n
                             => qs = ps /\ column2 = column /\ line2 = line
  OBVIOUS
<1> DEFINE cl == n % w
           ln == n \div w
           ps == PassOf(cl, ln)
           p == interlacing[ps]
           column == cl \div p.xFactor
           line == ln \div p.yFactor
<1>1. n \in Nat /\ cl \in 0..(w - 1) /\ ln \in Nat /\ n = w * ln + cl
  <2>1. w * h \in Int
    OBVIOUS
  <2>2. n \in Nat
    BY <2>1
  <2> QED
    BY <2>2
<1>2. ln < h
  <2>1. n < w * h
    OBVIOUS
  <2>2. CASE ln >= h
    <3>1. w * ln >= w * h
      BY <1>1, <2>2
    <3>2. w * ln \in Int /\ w * h \in Int
      BY <1>1
    <3> QED
      BY <1>1, <2>1, <3>1, <3>2
  <2> QED
    BY <1>1, <2>2
<1>3. ps \in Passes
  <2>1. cl % 8 \in 0..7 /\ ln % 8 \in 0..7
    BY <1>1, Remainders
  <2> QED
    BY <2>1, PatternIs DEF PassOf, Passes
<1>4. Member(ps, cl, ln)
  BY <1>1, <1>3, PassIsMember
<1> HIDE DEF ps
<1>5. /\ p.xFactor \in Nat \ {0} /\ p.xOffset \in 0..(p.xFactor - 1)
      /\ p.yFactor \in Nat \ {0} /\ p.yOffset \in 0..(p.yFactor - 1)
      /\ cl % p.xFactor = p.xOffset /\ ln % p.yFactor = p.yOffset
  BY <1>3, <1>4, Factors DEF Member
<1>6. \A f \in Nat \ {0}, k \in Nat :
        /\ k \div f \in Nat
        /\ k = (k \div f) * f + (k % f)
        /\ k = (k % f) + (k \div f) * f
  <2> SUFFICES ASSUME NEW f \in Nat \ {0}, NEW k \in Nat
               PROVE  /\ k \div f \in Nat
                      /\ k = (k \div f) * f + (k % f)
                      /\ k = (k % f) + (k \div f) * f
    OBVIOUS
  <2>1. k \div f \in Nat /\ k % f \in Nat /\ k = f * (k \div f) + (k % f)
    OBVIOUS
  <2>2. \A u \in Nat : f * u = u * f
    OBVIOUS
  <2>3. f * (k \div f) = (k \div f) * f /\ (k \div f) * f \in Nat
    BY <2>1, <2>2
  <2> QED
    BY <2>1, <2>3
<1>7. /\ column \in Nat /\ cl = column * p.xFactor + p.xOffset
      /\ line \in Nat /\ ln = line * p.yFactor + p.yOffset
      /\ cl = p.xOffset + column * p.xFactor /\ ln = p.yOffset + line * p.yFactor
  <2> HIDE DEF cl, ln, p
  <2>1. cl \in Nat /\ ln \in Nat
    BY <1>1
  <2>2. /\ column \in Nat /\ cl = column * p.xFactor + (cl % p.xFactor)
        /\ cl = (cl % p.xFactor) + column * p.xFactor
    BY <1>5, <1>6, <2>1
  <2>3. /\ line \in Nat /\ ln = line * p.yFactor + (ln % p.yFactor)
        /\ ln = (ln % p.yFactor) + line * p.yFactor
    BY <1>5, <1>6, <2>1
  <2> HIDE DEF column, line
  <2> QED
    BY <1>5, <2>2, <2>3
<1>8. column < passWidth(w, ps) /\ line < passHeight(h, ps)
  <2> HIDE DEF cl, ln, column, line
  <2> QED
    BY <1>1, <1>2, <1>3, <1>7, PassColumns
<1>9. Target(w, ps, column, line) = n
  <2> DEFINE t == Target(w, ps, column, line)
  <2>1. t \in Nat /\ t % w = cl /\ t \div w = ln
    <3> HIDE DEF cl, ln, p, column, line, t
    <3>1. t \in Nat /\ t % w = ColumnOf(ps, column) /\ t \div w = LineOf(ps, line)
      <4>1. t = Target(w, ps, column, line)
        BY DEF t
      <4> QED
        BY <1>3, <1>7, <1>8, <4>1, TargetInPass
    <3> QED
      BY <1>7, <3>1 DEF ColumnOf, LineOf, p
  <2>2. \A k \in Nat : k = w * (k \div w) + (k % w)
    OBVIOUS
  <2> HIDE DEF t
  <2>3. t = w * ln + cl
    BY <2>1, <2>2
  <2> QED
    BY <1>1, <2>3 DEF t
<1>10. ASSUME NEW qs \in Passes, NEW column2 \in Nat, NEW line2 \in Nat,
              column2 < passWidth(w, qs), Target(w, qs, column2, line2) = n
       PROVE  qs = ps /\ column2 = column /\ line2 = line
  <2> DEFINE q == interlacing[qs]
  <2>1. cl = ColumnOf(qs, column2) /\ ln = LineOf(qs, line2) /\ PassOf(cl, ln) = qs
    BY <1>10, TargetInPass
  <2>2. qs = ps
    BY <2>1 DEF ps
  <2>3. column2 = ColumnOf(qs, column2) \div q.xFactor
        /\ line2 = LineOf(qs, line2) \div q.yFactor
    <3>1. /\ q.xFactor \in Nat \ {0} /\ q.xOffset \in 0..(q.xFactor - 1)
          /\ q.yFactor \in Nat \ {0} /\ q.yOffset \in 0..(q.yFactor - 1)
      BY Factors
    <3>2. ColumnOf(qs, column2) = column2 * q.xFactor + q.xOffset
          /\ LineOf(qs, line2) = line2 * q.yFactor + q.yOffset
      BY DEF ColumnOf, LineOf
    <3> HIDE DEF q
    <3> QED
      BY <3>1, <3>2, RowMajor
  <2> HIDE DEF cl, ln
  <2> QED
    BY <2>1, <2>2, <2>3
<1> HIDE DEF column, line
<1> QED
  BY <1>3, <1>7, <1>8, <1>9, <1>10

-----------------------------------------------------------------------------
(* The decoder writes a pixel of the image once. *)

IsSequence(s) == \E S : s \in Seq(S)

\* Sequences over a larger set
LEMMA WiderSeq ==
  ASSUME NEW S, NEW T, S \subseteq T, NEW s \in Seq(S)
  PROVE  s \in Seq(T)
OBVIOUS

\* A sequence stays one when an element is added, ...
LEMMA AppendIsSequence ==
  ASSUME NEW s, IsSequence(s), NEW e
  PROVE  IsSequence(Append(s, e))
<1>1. PICK S : s \in Seq(S)
  BY DEF IsSequence
<1>2. s \in Seq(S \cup {e}) /\ e \in S \cup {e}
  BY <1>1, WiderSeq
<1>3. Append(s, e) \in Seq(S \cup {e})
  BY <1>2, AppendProperties
<1> QED
  BY <1>3 DEF IsSequence

\* ... and when another one is.
LEMMA ConcatIsSequence ==
  ASSUME NEW s, NEW t, IsSequence(s), IsSequence(t)
  PROVE  IsSequence(s \o t)
<1>1. PICK S : s \in Seq(S)
  BY DEF IsSequence
<1>2. PICK T : t \in Seq(T)
  BY DEF IsSequence
<1>3. s \in Seq(S \cup T) /\ t \in Seq(S \cup T)
  BY <1>1, <1>2, WiderSeq
<1>4. s \o t \in Seq(S \cup T)
  BY <1>3, ConcatProperties
<1> QED
  BY <1>4 DEF IsSequence

Untouched == \A n \in DOMAIN image : image[n] = Missing

\* Only pixels of the passes before have been written.
EarlierPasses ==
  \A n \in DOMAIN image : image[n] # Missing => PassOf(n % width, n \div width) < pass

Reading == pc \in {"row", "unpack"}

ImageInv ==
  /\ width \in Nat \ {0} /\ height \in Nat \ {0} /\ interlaced \in BOOLEAN
  /\ pc \in {"pack", "header", "row", "unpack", "done"}
  /\ DOMAIN image = 0..(width * height - 1)
  /\ IsSequence(out) /\ IsSequence(passImage)
  /\ pc \in {"pack", "header"} => Untouched /\ passImage = <<>>
  /\ Reading /\ ~interlaced => Untouched
  /\ Reading /\ interlaced => pass \in Passes /\ EarlierPasses
  /\ pc = "row" /\ PassWidth = 0 => passImage = <<>>
  /\ pc = "unpack" => PassWidth # 0

\* At the start there is a picture, and nothing of it is decoded.
LEMMA InitImage == Init => ImageInv
<1> SUFFICES ASSUME Init PROVE ImageInv
  OBVIOUS
<1>1. width \in Nat \ {0} /\ height \in Nat \ {0} /\ interlaced \in BOOLEAN
  <2>1. CASE InitEncode
    BY <2>1, SizeAssumption DEF InitEncode
  <2>2. CASE InitForeign
    <3>1. interlaced \in BOOLEAN
      BY <2>2 DEF InitForeign
    <3>2. PICK size \in Plain \cup Interlaced : width = size[1] /\ height = size[2]
      BY <2>2 DEF InitForeign
    <3> QED
      BY <3>1, <3>2, SizeAssumption
  <2> QED
    BY <2>1, <2>2 DEF Init
<1>2. pc \in {"pack", "header"}
  BY DEF Init, InitEncode, InitForeign
<1>3. IsSequence(<<>>)
  <2>1. <<>> \in Seq({})
    OBVIOUS
  <2> QED
    BY <2>1 DEF IsSequence
<1>4. image = [n \in 0..(width * height - 1) |-> Missing] /\ out = <<>> /\ passImage = <<>>
  BY DEF Init, Start
<1> QED
  BY <1>1, <1>2, <1>3, <1>4 DEF ImageInv, Untouched, Reading

\* The steps that do not touch the image
LEMMA OtherSteps ==
  ASSUME ImageInv,
         PackIndex \/ PackSamples \/ PackEnd \/ ReadHeader \/ ReadRow
           \/ UnpackBits \/ UnpackBytes \/ UnpackEnd
  PROVE  ImageInv' /\ image' = image
<1>1. CASE PackIndex \/ PackSamples
  <2>1. UNCHANGED <<width, height, interlaced, pc, image, out, passImage, pass>> /\ pc = "pack"
    BY <1>1 DEF PackIndex, PackSamples, picture, unpacking, header
  <2> QED
    BY <2>1 DEF ImageInv, Untouched, Reading
<1>2. CASE PackEnd
  <2>1. UNCHANGED <<width, height, interlaced, image, out, passImage, pass>>
        /\ pc = "pack" /\ pc' \in {"pack", "header"}
    BY <1>2 DEF PackEnd, RowWritten, picture, unpacking, header
  <2> QED
    BY <2>1 DEF ImageInv, Untouched, Reading
<1>3. CASE ReadHeader
  <2>1. UNCHANGED <<width, height, interlaced, image, out, passImage>>
        /\ pc = "header" /\ pc' = "row" /\ pass' = (IF interlaced THEN 1 ELSE 0)
    BY <1>3 DEF ReadHeader, picture
  <2>2. Untouched /\ passImage = <<>>
    BY <2>1 DEF ImageInv
  <2> QED
    BY <2>1, <2>2 DEF ImageInv, Untouched, Reading, EarlierPasses, Passes
<1>4. CASE ReadRow
  <2>1. UNCHANGED <<width, height, interlaced, image, out, passImage, pass>>
        /\ pc = "row" /\ pc' = "unpack" /\ PassWidth # 0
    BY <1>4 DEF ReadRow, picture, MoreRows
  <2>2. PassWidth' = PassWidth
    BY <2>1 DEF PassWidth
  <2> QED
    BY <2>1, <2>2 DEF ImageInv, Untouched, Reading, EarlierPasses
<1>5. CASE UnpackBits \/ UnpackBytes
  <2>1. UNCHANGED <<width, height, interlaced, image, passImage, pass, pc>> /\ pc = "unpack"
    BY <1>5 DEF UnpackBits, UnpackBytes, picture
  <2>2. \E e : out' = Append(out, e)
    <3>1. CASE UnpackBits
      <4> DEFINE d    == Header[1]
                 per  == 8 \div d
                 byte == IF Len(out) % per = 0 THEN cdat[Len(out) \div per] ELSE b
                 bits == byte \div 2^(8 - d)
                 unit == CASE dcb = "cbG1" -> 255
                           [] dcb = "cbG2" -> 85
                           [] dcb = "cbG4" -> 17
                           [] OTHER        -> 1
                 last == IF dcb \in {"cbP1", "cbP2", "cbP4"} THEN <<bits>>
                         ELSE Keyed(Level((bits * unit) % 256), 255)
      <4>1. out' = Append(out, last)
        BY <3>1, Zenon DEF UnpackBits
      <4> HIDE DEF last
      <4> QED
        BY <4>1, Zenon
    <3>2. CASE UnpackBytes
      BY <3>2, Zenon DEF UnpackBytes
    <3> QED
      BY <1>5, <3>1, <3>2
  <2>3. IsSequence(out')
    BY <2>2, AppendIsSequence DEF ImageInv
  <2>4. PassWidth' = PassWidth
    BY <2>1 DEF PassWidth
  <2> QED
    BY <2>1, <2>3, <2>4 DEF ImageInv, Untouched, Reading, EarlierPasses
<1>6. CASE UnpackEnd
  <2>1. UNCHANGED <<width, height, interlaced, image, pass>>
        /\ pc = "unpack" /\ pc' = "row"
        /\ passImage' = passImage \o out /\ out' = <<>>
    BY <1>6 DEF UnpackEnd, picture
  <2>2. IsSequence(passImage') /\ IsSequence(out')
    <3>1. <<>> \in Seq({})
      OBVIOUS
    <3> QED
      BY <2>1, <3>1, ConcatIsSequence DEF ImageInv, IsSequence
  <2>3. PassWidth' = PassWidth
    BY <2>1 DEF PassWidth
  <2> QED
    BY <2>1, <2>2, <2>3 DEF ImageInv, Untouched, Reading, EarlierPasses
<1> QED
  BY <1>1, <1>2, <1>3, <1>4, <1>5, <1>6

\* The pixels that mergePassInto writes are those of its pass.
LEMMA MergeWrites ==
  ASSUME ImageInv, mergePassInto, NEW n \in DOMAIN image
  PROVE  image'[n] = image[n] \/ PassOf(n % width, n \div width) = pass
<1> DEFINE from == {k \in DOMAIN passImage :
                      Target(width, pass, (k - 1) % PassWidth, (k - 1) \div PassWidth) = n}
<1>1. image'[n] = IF from = {} THEN image[n] ELSE passImage[CHOOSE k \in from : TRUE]
  BY DEF mergePassInto
<1>2. CASE from = {}
  BY <1>1, <1>2
<1>3. CASE from # {}
  <2>1. PICK k \in DOMAIN passImage :
          Target(width, pass, (k - 1) % PassWidth, (k - 1) \div PassWidth) = n
    BY <1>3
  <2>2. pc = "row" /\ interlaced
    BY DEF mergePassInto
  <2>3. pass \in Passes /\ width \in Nat \ {0}
    BY <2>2 DEF ImageInv, Reading
  <2>4. PassWidth = passWidth(width, pass)
    BY <2>2 DEF PassWidth
  <2>5. PassWidth # 0
    BY <2>1, <2>2 DEF ImageInv
  <2>6. k \in Nat \ {0}
    <3>1. PICK S : passImage \in Seq(S)
      BY DEF ImageInv, IsSequence
    <3>2. DOMAIN passImage = 1..Len(passImage) /\ Len(passImage) \in Nat
      BY <3>1, LenProperties
    <3> QED
      BY <2>1, <3>2
  <2>7. PassWidth \in Nat \ {0}
    BY <2>3, <2>4, <2>5, PassColumns
  <2>8. /\ (k - 1) % PassWidth \in Nat /\ (k - 1) \div PassWidth \in Nat
        /\ (k - 1) % PassWidth < PassWidth
    BY <2>6, <2>7
  <2> HIDE DEF from
  <2> QED
    BY <2>1, <2>3, <2>4, <2>8, TargetInPass
<1> QED
  BY <1>2, <1>3

\* mergePassInto writes where its pass is and nowhere else.
LEMMA MergeOnce ==
  ASSUME ImageInv, mergePassInto
  PROVE  /\ ImageInv'
         /\ \A n \in DOMAIN image : image[n] # Missing => image'[n] = image[n]
<1>1. /\ pc = "row" /\ interlaced /\ pass \in Passes /\ EarlierPasses
      /\ UNCHANGED <<width, height, interlaced, out>>
      /\ passImage' = <<>>
      /\ DOMAIN image' = DOMAIN image
      /\ pc' = "done" \/ (pc' = pc /\ pass < 7 /\ pass' = pass + 1)
  BY DEF mergePassInto, ImageInv, Reading, picture
<1>2. \A n \in DOMAIN image : PassOf(n % width, n \div width) \in Nat
  <2> SUFFICES ASSUME NEW n \in DOMAIN image
               PROVE  PassOf(n % width, n \div width) \in Nat
    OBVIOUS
  <2>1. n \in Nat /\ width \in Nat \ {0}
    BY DEF ImageInv
  <2>2. n % width \in Nat /\ n \div width \in Nat
    BY <2>1
  <2>3. (n % width) % 8 \in 0..7 /\ (n \div width) % 8 \in 0..7
    BY <2>2, Remainders
  <2> QED
    BY <2>3, PatternIs DEF PassOf
<1>3. \A n \in DOMAIN image : image[n] # Missing => image'[n] = image[n]
  <2> SUFFICES ASSUME NEW n \in DOMAIN image, image[n] # Missing
               PROVE  image'[n] = image[n]
    OBVIOUS
  <2>1. PassOf(n % width, n \div width) < pass
    BY <1>1 DEF EarlierPasses
  <2>2. PassOf(n % width, n \div width) # pass
    BY <1>1, <1>2, <2>1 DEF Passes
  <2> QED
    BY <2>2, MergeWrites
<1>4. pc' # "done" => EarlierPasses'
  <2> SUFFICES ASSUME pc' # "done", NEW n \in DOMAIN image, image'[n] # Missing
               PROVE  PassOf(n % width, n \div width) < pass + 1
    BY <1>1 DEF EarlierPasses
  <2>1. PassOf(n % width, n \div width) = pass
        \/ PassOf(n % width, n \div width) < pass
    BY <1>1, MergeWrites DEF EarlierPasses
  <2> QED
    BY <1>1, <1>2, <2>1 DEF Passes
<1>5. IsSequence(passImage')
  <2>1. <<>> \in Seq({})
    OBVIOUS
  <2> QED
    BY <1>1, <2>1 DEF IsSequence
<1>6. pc' = "row" => pass' \in Passes
  BY <1>1 DEF Passes
<1> QED
  BY <1>1, <1>3, <1>4, <1>5, <1>6 DEF ImageInv, Reading

\* One step, and what it may do to the image
WriteOnce == \A n \in DOMAIN image : image[n] # Missing => image'[n] = image[n]

\* Every step keeps the passes apart, and writes a pixel at most once.
LEMMA NextImage == ImageInv /\ [Next]_vars => ImageInv' /\ (WriteOnce \/ UNCHANGED vars)
<1> SUFFICES ASSUME ImageInv, [Next]_vars
             PROVE  ImageInv' /\ (WriteOnce \/ UNCHANGED vars)
  OBVIOUS
<1>1. CASE PackIndex \/ PackSamples \/ PackEnd \/ ReadHeader \/ ReadRow
             \/ UnpackBits \/ UnpackBytes \/ UnpackEnd
  BY <1>1, OtherSteps DEF WriteOnce
<1>2. CASE ImageRead
  <2>1. /\ pc = "row" /\ ~interlaced /\ pc' = "done" /\ DOMAIN image' = DOMAIN image
        /\ UNCHANGED <<width, height, interlaced, out, passImage>>
    BY <1>2 DEF ImageRead, picture
  <2>2. Untouched
    BY <2>1 DEF ImageInv, Reading
  <2> QED
    BY <2>1, <2>2 DEF ImageInv, Untouched, Reading, WriteOnce
<1>3. CASE mergePassInto
  BY <1>3, MergeOnce DEF WriteOnce
<1>4. CASE UNCHANGED vars
  <2>1. UNCHANGED <<width, height, interlaced, pc, image, out, passImage, pass>>
    BY <1>4 DEF vars, picture, unpacking
  <2>2. PassWidth' = PassWidth
    BY <2>1 DEF PassWidth
  <2> QED
    BY <1>4, <2>1, <2>2 DEF ImageInv, Untouched, Reading, EarlierPasses
<1> QED
  BY <1>1, <1>2, <1>3, <1>4 DEF Next

\* No pixel of the image is written twice, interlaced or not, whatever the format,
\* the size and the file: mergePassInto (reader.go:495) keeps to its pass.
THEOREM PixelsWrittenOnce == Spec => WrittenOnce
<1>1. ImageInv /\ [Next]_vars
        => [\A n \in DOMAIN image : image[n] # Missing => image'[n] = image[n]]_vars
  BY NextImage DEF WriteOnce
<1>2. ImageInv /\ [Next]_vars => ImageInv'
  BY NextImage
<1> QED
  BY <1>1, <1>2, InitImage, PTL DEF Spec, WrittenOnce

\* Powers of two, one after another
LEMMA PowerDouble ==
  ASSUME NEW n \in Nat
  PROVE  2^n \in Nat /\ 2^(n + 1) = 2^n + 2^n
<1>. DEFINE A == SUBSET (1..n)
            B == {T \cup {n + 1} : T \in A}
            f == [T \in A |-> T \cup {n + 1}]
<1>1. IsFiniteSet(A) /\ Cardinality(A) = 2^n
  <2>1. IsFiniteSet(1..n) /\ Cardinality(1..n) = n
    BY FS_Interval
  <2> QED
    BY <2>1, FS_SUBSET
<1>2. IsFiniteSet(SUBSET (1..(n + 1))) /\ Cardinality(SUBSET (1..(n + 1))) = 2^(n + 1)
  <2>1. IsFiniteSet(1..(n + 1)) /\ Cardinality(1..(n + 1)) = n + 1
    BY FS_Interval
  <2> QED
    BY <2>1, FS_SUBSET
<1>3. 1..(n + 1) = (1..n) \cup {n + 1} /\ n + 1 \notin 1..n
  OBVIOUS
<1>4. SUBSET (1..(n + 1)) = A \cup B /\ A \cap B = {}
  <2>1. ASSUME NEW T \in SUBSET (1..(n + 1)), n + 1 \in T
        PROVE  T \ {n + 1} \in A /\ T = (T \ {n + 1}) \cup {n + 1}
    BY <1>3, <2>1
  <2>2. ASSUME NEW T \in SUBSET (1..(n + 1)) PROVE T \in A \cup B
    <3>1. CASE n + 1 \in T
      <4>1. T \ {n + 1} \in A /\ T = (T \ {n + 1}) \cup {n + 1}
        BY <2>1, <3>1
      <4> QED
        BY <4>1
    <3>2. CASE n + 1 \notin T
      BY <1>3, <3>2
    <3> QED
      BY <3>1, <3>2
  <2>3. A \cup B \subseteq SUBSET (1..(n + 1))
    BY <1>3
  <2>4. A \cap B = {}
    BY <1>3
  <2>5. SUBSET (1..(n + 1)) \subseteq A \cup B
    BY <2>2
  <2>. HIDE DEF A, B
  <2> QED
    BY <2>3, <2>4, <2>5
<1>5. f \in Bijection(A, B)
  <2>1. \A T, U \in A : f[T] = f[U] => T = U
    BY <1>3
  <2>2. f \in [A -> B] /\ \A U \in B : \E T \in A : f[T] = U
    OBVIOUS
  <2> QED
    BY <2>1, <2>2 DEF Bijection, Injection, Surjection, IsInjective
<1>6. IsFiniteSet(B) /\ Cardinality(B) = 2^n
  BY <1>1, <1>5, FS_Bijection DEF ExistsBijection
<1>. HIDE DEF A, B
<1>7. Cardinality(A \cup B) = Cardinality(A) + Cardinality(B) - Cardinality(A \cap B)
  BY <1>1, <1>6, FS_Union
<1>8. Cardinality(A \cap B) = 0 /\ Cardinality(A) \in Nat
  BY <1>1, <1>4, FS_EmptySet, FS_CardinalityType
<1>9. 2^n \in Nat /\ Cardinality(A \cup B) = 2^n + 2^n
  <2>1. \A k, l \in Nat : l = 0 => k + k - l = k + k
    OBVIOUS
  <2> QED
    BY <1>1, <1>6, <1>7, <1>8, <2>1
<1> QED
  BY <1>2, <1>4, <1>9

Less == {pair \in Nat \X Nat : pair[1] < pair[2]}

\* A set of naturals that is not empty has a least element, ...
LEMMA LeastElement ==
  ASSUME NEW S, S \subseteq Nat, S # {}
  PROVE  \E l \in S : \A m \in S : ~(m < l)
<1>1. IsWellFoundedOn(Less, Nat)
  BY NatLessThanWellFounded DEF OpToRel, Less
<1>2. \E l \in S : \A m \in S : ~(<<m, l>> \in Less)
  BY <1>1, WFMin
<1> QED
  BY <1>2 DEF Less

\* ... which gives induction, for a set instead of an operator.
LEMMA SetInduction ==
  ASSUME NEW S, 0 \in S, \A n \in S : n + 1 \in S
  PROVE  Nat \subseteq S
<1> SUFFICES ASSUME Nat \ S # {} PROVE FALSE
  OBVIOUS
<1>1. PICK l \in Nat \ S : \A m \in Nat \ S : ~(m < l)
  BY LeastElement
<1>2. l - 1 \in Nat /\ l - 1 < l /\ (l - 1) + 1 = l
  OBVIOUS
<1>3. l - 1 \in S
  BY <1>1, <1>2
<1> QED
  BY <1>2, <1>3

\* The first powers
LEMMA PowerOne == 2^0 = 1 /\ 2^1 = 2
<1>1. 2^0 = 1
  <2>1. IsFiniteSet(SUBSET {}) /\ Cardinality(SUBSET {}) = 2^0
    BY FS_EmptySet, FS_SUBSET
  <2>2. SUBSET {} = {{}}
    OBVIOUS
  <2> QED
    BY <2>1, <2>2, FS_Singleton
<1>2. 2^(0 + 1) = 2^0 + 2^0
  BY PowerDouble
<1> QED
  BY <1>1, <1>2

\* The power of a sum is the product of the powers.
LEMMA PowerSum ==
  ASSUME NEW k0 \in Nat, NEW n0 \in Nat
  PROVE  2^(k0 + n0) = 2^k0 * 2^n0
<1> DEFINE S == {n \in Nat : 2^(k0 + n) = 2^k0 * 2^n}
<1>1. 0 \in S
  <2>1. 2^k0 * 2^0 = 2^k0
    BY PowerOne, PowerDouble
  <2> QED
    BY <2>1
<1>2. ASSUME NEW n \in S PROVE n + 1 \in S
  <2>1. n \in Nat /\ 2^(k0 + n) = 2^k0 * 2^n
    OBVIOUS
  <2>2. 2^((k0 + n) + 1) = 2^(k0 + n) + 2^(k0 + n)
    <3>1. k0 + n \in Nat
      BY <2>1
    <3> QED
      BY <3>1, PowerDouble
  <2>3. 2^(n + 1) = 2^n + 2^n /\ 2^n \in Nat /\ 2^k0 \in Nat
    BY <2>1, PowerDouble
  <2>4. 2^k0 * (2^n + 2^n) = 2^k0 * 2^n + 2^k0 * 2^n
    BY <2>3
  <2>5. k0 + (n + 1) = (k0 + n) + 1
    BY <2>1
  <2>6. 2^(k0 + (n + 1)) = 2^k0 * 2^(n + 1)
    BY <2>1, <2>2, <2>3, <2>4, <2>5
  <2> QED
    BY <2>1, <2>6
<1>3. n0 \in S
  BY <1>1, <1>2, SetInduction
<1> QED
  BY <1>3

\* No power is zero.
LEMMA PowerPositive ==
  ASSUME NEW n \in Nat
  PROVE  2^n \in Nat \ {0}
<1> DEFINE S == {m \in Nat : 2^m > 0}
<1>1. 0 \in S
  BY PowerOne
<1>2. ASSUME NEW m \in S PROVE m + 1 \in S
  BY PowerDouble
<1>3. n \in S
  BY <1>1, <1>2, SetInduction
<1> QED
  BY <1>3, PowerDouble

\* The powers that formats and bytes need
LEMMA Powers ==
  /\ 2^0 = 1 /\ 2^1 = 2 /\ 2^2 = 4 /\ 2^3 = 8 /\ 2^4 = 16
  /\ 2^5 = 32 /\ 2^6 = 64 /\ 2^7 = 128 /\ 2^8 = 256 /\ 2^16 = 65536
<1>1. 2^(1 + 1) = 2^1 + 2^1 /\ 2^(2 + 1) = 2^2 + 2^2
  BY PowerDouble
<1>2. 2^(3 + 1) = 2^3 + 2^3 /\ 2^(4 + 1) = 2^4 + 2^4 /\ 2^(5 + 1) = 2^5 + 2^5
  BY PowerDouble
<1>3. 2^(6 + 1) = 2^6 + 2^6 /\ 2^(7 + 1) = 2^7 + 2^7
  BY PowerDouble
<1>4. 2^(8 + 8) = 2^8 * 2^8
  BY PowerSum
<1>5. 1 + 1 = 2 /\ 2 + 1 = 3 /\ 3 + 1 = 4 /\ 4 + 1 = 5 /\ 5 + 1 = 6 /\ 6 + 1 = 7
      /\ 7 + 1 = 8 /\ 8 + 8 = 16
  OBVIOUS
<1> QED
  BY <1>1, <1>2, <1>3, <1>4, <1>5, PowerOne

\* Bits that are moved up do not change the quotient, if it is by as much more.
LEMMA DivShift ==
  ASSUME NEW v \in Nat, NEW b0 \in Nat \ {0}, NEW q \in Nat \ {0}, NEW u \in 0..(b0 - 1)
  PROVE  (v * b0 + u) \div (b0 * q) = v \div q
<1> DEFINE l == v \div q
           r == v % q
<1>1. l \in Nat /\ r \in 0..(q - 1) /\ v = q * l + r
  OBVIOUS
<1> HIDE DEF l, r
<1>2. b0 * q \in Nat \ {0}
  OBVIOUS
<1>3. v * b0 + u = l * (b0 * q) + (r * b0 + u)
  BY <1>1
<1>4. r * b0 + u \in 0..(b0 * q - 1)
  <2>1. r * b0 \in Nat /\ r * b0 <= (q - 1) * b0
    BY <1>1
  <2>2. (q - 1) * b0 = b0 * q - b0
    OBVIOUS
  <2>3. b0 * q \in Nat
    OBVIOUS
  <2> QED
    BY <2>1, <2>2, <2>3
<1>5. (l * (b0 * q) + (r * b0 + u)) \div (b0 * q) = l
  <2> DEFINE w == b0 * q
             cl == r * b0 + u
  <2>1. w \in Nat \ {0} /\ cl \in 0..(w - 1)
    BY <1>2, <1>4
  <2> HIDE DEF w, cl
  <2>2. (l * w + cl) \div w = l
    BY <1>1, <2>1, RowMajor
  <2> QED
    BY <2>2 DEF w, cl
<1> QED
  BY <1>3, <1>5 DEF l

-----------------------------------------------------------------------------
(* Samples of less than a byte are digits of one, to the base 2^d. *)

\* Digit k, from the low end
Digit(d, v, k) == (v \div 2^(d * k)) % 2^d

Bits == {1, 2, 4}

\* Depths of less than a byte divide it.
LEMMA BitsAre ==
  ASSUME NEW d \in Bits
  PROVE  /\ d \in Nat /\ d > 0 /\ 8 \div d \in Nat /\ 8 \div d > 1 /\ d * (8 \div d) = 8
         /\ 2^d \in Nat /\ 2^d > 1
<1>1. CASE d = 1
  BY <1>1, Powers
<1>2. CASE d = 2
  BY <1>2, Powers
<1>3. CASE d = 4
  BY <1>3, Powers
<1> QED
  BY <1>1, <1>2, <1>3 DEF Bits

\* The sample of a row that the standard names is a digit of its byte, ...
LEMMA SampleIsDigit ==
  ASSUME NEW d \in Bits, NEW k \in Nat, NEW bytes
  PROVE  /\ SampleAt(bytes, d, k)
              = Digit(d, bytes[k \div (8 \div d)], (8 \div d) - 1 - (k % (8 \div d)))
         /\ k \div (8 \div d) \in Nat /\ k % (8 \div d) \in 0..((8 \div d) - 1)
<1>1. CASE d = 1
  <2>1. (k * 1) \div 8 = k \div 8 /\ (8 - 1) - ((k * 1) % 8) = 1 * (8 - 1 - (k % 8))
    OBVIOUS
  <2>2. 8 \div d = 8 /\ k \div 8 \in Nat /\ k % 8 \in 0..7
    BY <1>1
  <2> QED
    BY <1>1, <2>1, <2>2 DEF SampleAt, Digit
<1>2. CASE d = 2
  <2>1. (k * 2) \div 8 = k \div 4 /\ (8 - 2) - ((k * 2) % 8) = 2 * (4 - 1 - (k % 4))
    OBVIOUS
  <2>2. 8 \div d = 4 /\ k \div 4 \in Nat /\ k % 4 \in 0..3
    BY <1>2
  <2> QED
    BY <1>2, <2>1, <2>2 DEF SampleAt, Digit
<1>3. CASE d = 4
  <2>1. (k * 4) \div 8 = k \div 2 /\ (8 - 4) - ((k * 4) % 8) = 4 * (2 - 1 - (k % 2))
    OBVIOUS
  <2>2. 8 \div d = 2 /\ k \div 2 \in Nat /\ k % 2 \in 0..1
    BY <1>3
  <2> QED
    BY <1>3, <2>1, <2>2 DEF SampleAt, Digit
<1> QED
  BY <1>1, <1>2, <1>3 DEF Bits

\* ... or the byte, if the depth is 8.
LEMMA SampleIsByte ==
  ASSUME NEW k \in Nat, NEW bytes, bytes[k] \in Nat, bytes[k] < 256
  PROVE  SampleAt(bytes, 8, k) = bytes[k]
<1>1. (k * 8) \div 8 = k /\ (8 - 8) - ((k * 8) % 8) = 0
  OBVIOUS
<1>2. (bytes[k] \div 1) % 256 = bytes[k]
  OBVIOUS
<1>3. SampleAt(bytes, 8, k) = (bytes[(k * 8) \div 8] \div 2^((8 - 8) - ((k * 8) % 8))) % 2^8
  BY DEF SampleAt
<1>4. SampleAt(bytes, 8, k) = (bytes[k] \div 2^0) % 2^8
  BY <1>1, <1>3
<1> HIDE DEF SampleAt
<1>5. 2^0 = 1 /\ 2^8 = 256
  BY Powers
<1> QED
  BY <1>2, <1>4, <1>5

\* A digit that comes in from the low end moves the others up.
LEMMA DigitIn ==
  ASSUME NEW d \in Bits, NEW v \in Nat, NEW p \in 0..(2^d - 1)
  PROVE  /\ v * 2^d + p \in Nat
         /\ Digit(d, v * 2^d + p, 0) = p
         /\ \A k \in Nat : Digit(d, v * 2^d + p, k + 1) = Digit(d, v, k)
         /\ \A c0 \in Nat : v < 2^(d * c0) => v * 2^d + p < 2^(d * (c0 + 1))
<1> DEFINE b0 == 2^d
<1>1. d \in Nat /\ b0 \in Nat \ {0}
  BY BitsAre
<1>2. v * b0 + p \in Nat
  BY <1>1
<1>3. Digit(d, v * b0 + p, 0) = p
  <2>1. d * 0 = 0 /\ (v * b0 + p) \div 1 = v * b0 + p
    BY <1>1, <1>2
  <2>2. (v * b0 + p) % b0 = p
    <3> HIDE DEF b0
    <3> QED
      BY <1>1, RowMajor DEF b0
  <2> HIDE DEF b0
  <2> QED
    BY <2>1, <2>2, PowerOne DEF Digit, b0
<1>4. ASSUME NEW k \in Nat
      PROVE  /\ d * k \in Nat /\ 2^(d * k) \in Nat \ {0}
             /\ 2^(d * (k + 1)) = b0 * 2^(d * k)
  <2>1. d * k \in Nat /\ d * (k + 1) = d + d * k
    BY <1>1
  <2> QED
    BY <1>1, <2>1, PowerSum, PowerPositive
<1>5. ASSUME NEW k \in Nat PROVE Digit(d, v * b0 + p, k + 1) = Digit(d, v, k)
  <2>1. (v * b0 + p) \div (b0 * 2^(d * k)) = v \div 2^(d * k)
    <3> DEFINE q == 2^(d * k)
    <3>1. q \in Nat \ {0} /\ p \in 0..(b0 - 1)
      BY <1>4
    <3> HIDE DEF b0, q
    <3>2. (v * b0 + p) \div (b0 * q) = v \div q
      BY <1>1, <3>1, DivShift
    <3> QED
      BY <3>2 DEF q
  <2> HIDE DEF b0
  <2> QED
    BY <1>4, <2>1 DEF Digit
<1>6. ASSUME NEW c0 \in Nat, v < 2^(d * c0)
      PROVE  v * b0 + p < 2^(d * (c0 + 1))
  <2> DEFINE q == 2^(d * c0)
  <2>1. q \in Nat /\ 2^(d * (c0 + 1)) = b0 * q /\ v <= q - 1
    BY <1>4, <1>6
  <2> HIDE DEF q
  <2>2. v * b0 <= (q - 1) * b0
    <3> HIDE DEF b0
    <3> QED
      BY <1>1, <2>1
  <2>3. (q - 1) * b0 = b0 * q - b0
    <3> HIDE DEF b0
    <3> QED
      BY <1>1, <2>1
  <2>4. p < b0 /\ v * b0 \in Nat /\ b0 * q \in Nat
    BY <1>1, <2>1
  <2> HIDE DEF b0
  <2> QED
    BY <1>1, <2>1, <2>2, <2>3, <2>4
<1> QED
  BY <1>2, <1>3, <1>5, <1>6

\* The digits of a byte that is filled up from the low end
LEMMA DigitUp ==
  ASSUME NEW d \in Bits, NEW v \in Nat, NEW m \in Nat, NEW k \in Nat
  PROVE  /\ v * 2^(m * d) \in Nat
         /\ Digit(d, v * 2^(m * d), k + m) = Digit(d, v, k)
         /\ v < 2^(d * k) => v * 2^(m * d) < 2^(d * (k + m))
<1> DEFINE b0 == 2^(m * d)
           q == 2^(d * k)
<1>1. d \in Nat
  BY BitsAre
<1>2. m * d \in Nat /\ d * k \in Nat /\ d * (k + m) = m * d + d * k
  BY <1>1
<1>3. b0 \in Nat \ {0} /\ q \in Nat \ {0} /\ 2^(d * (k + m)) = b0 * q
  BY <1>2, PowerSum, PowerPositive
<1> HIDE DEF b0, q
<1>4. (v * b0) \div (b0 * q) = v \div q
  <2>1. v * b0 + 0 = v * b0 /\ 0 \in 0..(b0 - 1)
    BY <1>3
  <2>2. (v * b0 + 0) \div (b0 * q) = v \div q
    BY <1>3, <2>1, DivShift
  <2> QED
    BY <2>1, <2>2
<1>5. Digit(d, v * b0, k + m) = Digit(d, v, k)
  BY <1>3, <1>4 DEF Digit, q
<1>6. v < q => v * b0 < b0 * q
  BY <1>3
<1> QED
  BY <1>3, <1>5, <1>6 DEF b0, q

-----------------------------------------------------------------------------
(* The formats that are written, and the pixels they are chosen for *)

\* The tables of writer.go agree with one another and with the standard.
LEMMA Formats ==
  ASSUME NEW f \in DOMAIN Written
  PROVE  /\ f \in DOMAIN Parsed /\ Written[f] = Parsed[f]
         /\ WriterBits[f] = Depth(f) * Channels(f)
         /\ Depth(f) \in {1, 2, 4, 8, 16} /\ Channels(f) \in {1, 3, 4}
         /\ Depth(f) < 8 => Channels(f) = 1
         /\ f \in {"cbTC8", "cbTC16"} <=> Channels(f) = 3
         /\ f \in {"cbG16", "cbTC16", "cbTCA16"} <=> Depth(f) = 16
<1>1. f \in {"cbG8", "cbG16", "cbTC8", "cbTC16", "cbTCA8", "cbTCA16", "cbP1", "cbP2",
             "cbP4", "cbP8"}
  BY DEF Written
<1> USE DEF Written, Parsed, WriterBits, Depth, Channels, ctGrayscale, ctTrueColor,
            ctPaletted, ctTrueColorAlpha, ctGrayscaleAlpha
<1>2. CASE f = "cbG8"
  BY <1>2
<1>3. CASE f = "cbG16"
  BY <1>3
<1>4. CASE f = "cbTC8"
  BY <1>4
<1>5. CASE f = "cbTC16"
  BY <1>5
<1>6. CASE f = "cbTCA8"
  BY <1>6
<1>7. CASE f = "cbTCA16"
  BY <1>7
<1>8. CASE f = "cbP1"
  BY <1>8
<1>9. CASE f = "cbP2"
  BY <1>9
<1>10. CASE f = "cbP4"
  BY <1>10
<1>11. CASE f = "cbP8"
  BY <1>11
<1> QED
  BY <1>1, <1>2, <1>3, <1>4, <1>5, <1>6, <1>7, <1>8, <1>9, <1>10, <1>11

\* Powers rise.
LEMMA PowerLE ==
  ASSUME NEW m \in Nat, NEW n \in Nat, m <= n
  PROVE  2^m <= 2^n
<1>1. n - m \in Nat /\ n = m + (n - m)
  OBVIOUS
<1>2. 2^n = 2^m * 2^(n - m) /\ 2^m \in Nat \ {0} /\ 2^(n - m) \in Nat \ {0}
  BY <1>1, PowerSum, PowerPositive
<1>3. \A k, l \in Nat \ {0} : k <= k * l
  OBVIOUS
<1> QED
  BY <1>2, <1>3

\* A pixel that Encode chooses a cb for: the samples that are written, and of an
\* opaque one the alpha
LEMMA ValuesAre ==
  ASSUME NEW d \in Nat, NEW s \in Values(d)
  PROVE  s \in Nat /\ s < 2^d
BY SampleAssumption DEF Values

\* A function on 1..m is a sequence.
LEMMA FunctionIsSeq ==
  ASSUME NEW S, NEW n \in Nat, NEW f \in [1..n -> S]
  PROVE  f \in Seq(S) /\ Len(f) = n
<1>1. f \in Seq(S)
  BY SeqDef
<1>2. Len(f) \in Nat /\ DOMAIN f = 1..Len(f) /\ DOMAIN f = 1..n
  BY <1>1, LenProperties
<1> QED
  BY <1>1, <1>2

\* A pixel has its samples, and they fit the depth.
LEMMA EncodablePixel ==
  ASSUME NEW f \in DOMAIN Written, NEW p \in Encodable(f)
  PROVE  /\ p \in Seq(Nat) /\ Len(p) >= Channels(f)
         /\ \A k \in 1..Channels(f) : p[k] \in Nat /\ p[k] < 2^Depth(f)
         /\ IF f \in {"cbTC8", "cbTC16"} THEN Len(p) = 4 /\ p[4] = 2^Depth(f) - 1
            ELSE Len(p) = Channels(f)
<1> DEFINE d == Written[f][1]
           v == Values(d)
<1>1. d = Depth(f) /\ 2^d \in Nat /\ 2^d > 0
  <2>1. d = Depth(f) /\ d \in Nat
    BY Formats DEF Depth
  <2> QED
    BY <2>1, PowerPositive
<1>2. \A s \in v : s \in Nat /\ s < 2^d
  <2>1. d \in Nat
    BY <1>1, Formats
  <2> HIDE DEF d
  <2> QED
    BY <2>1, ValuesAre
<1>3. ASSUME NEW m \in {1, 4}, p \in [1..m -> v]
      PROVE  /\ p \in Seq(Nat) /\ Len(p) = m
             /\ \A k \in 1..m : p[k] \in Nat /\ p[k] < 2^d
  <2>1. m \in Nat
    OBVIOUS
  <2> HIDE DEF v, d
  <2>2. p \in [1..m -> Nat] /\ \A k \in 1..m : p[k] \in Nat /\ p[k] < 2^d
    BY <1>2, <1>3
  <2>3. p \in Seq(Nat) /\ Len(p) = m
    BY <2>1, <2>2, FunctionIsSeq
  <2> QED
    BY <2>2, <2>3
<1>4. CASE Written[f][2] \in {ctGrayscale, ctPaletted}
  <2>1. p \in [1..1 -> v]
    BY <1>4 DEF Encodable
  <2>2. Channels(f) = 1
    BY <1>4, Formats DEF Channels, ctGrayscale, ctPaletted, ctTrueColor, ctGrayscaleAlpha,
                         ctTrueColorAlpha
  <2>3. f \notin {"cbTC8", "cbTC16"}
    BY <2>2, Formats
  <2> DEFINE m == 1
  <2>4. m \in {1, 4} /\ p \in [1..m -> v]
    BY <2>1
  <2> HIDE DEF v, d, m
  <2>5. p \in Seq(Nat) /\ Len(p) = m /\ \A k \in 1..m : p[k] \in Nat /\ p[k] < 2^d
    BY <1>3, <2>4
  <2> QED
    BY <1>1, <2>1, <2>2, <2>3, <2>5 DEF m
<1>5. CASE Written[f][2] = ctTrueColor
  <2>1. p \in [1..4 -> v] /\ p[4] = 2^d - 1
    BY <1>5 DEF Encodable, ctGrayscale, ctPaletted, ctTrueColor
  <2>2. Channels(f) = 3
    BY <1>5, Formats DEF Channels, ctGrayscale, ctPaletted, ctTrueColor, ctGrayscaleAlpha,
                         ctTrueColorAlpha
  <2>3. f \in {"cbTC8", "cbTC16"}
    BY <2>2, Formats
  <2> DEFINE m == 4
  <2>4. m \in {1, 4} /\ p \in [1..m -> v]
    BY <2>1
  <2> HIDE DEF v, d, m
  <2>5. p \in Seq(Nat) /\ Len(p) = m /\ \A k \in 1..m : p[k] \in Nat /\ p[k] < 2^d
    BY <1>3, <2>4
  <2> QED
    BY <1>1, <2>1, <2>2, <2>3, <2>5 DEF m
<1>6. CASE Written[f][2] = ctTrueColorAlpha
  <2>1. p \in [1..4 -> v]
    BY <1>6 DEF Encodable, ctGrayscale, ctPaletted, ctTrueColor, ctTrueColorAlpha
  <2>2. Channels(f) = 4
    BY <1>6, Formats DEF Channels, ctGrayscale, ctPaletted, ctTrueColor, ctGrayscaleAlpha,
                         ctTrueColorAlpha
  <2>3. f \notin {"cbTC8", "cbTC16"}
    BY <2>2, Formats
  <2> DEFINE m == 4
  <2>4. m \in {1, 4} /\ p \in [1..m -> v]
    BY <2>1
  <2> HIDE DEF v, d, m
  <2>5. p \in Seq(Nat) /\ Len(p) = m /\ \A k \in 1..m : p[k] \in Nat /\ p[k] < 2^d
    BY <1>3, <2>4
  <2> QED
    BY <1>1, <2>1, <2>2, <2>3, <2>5 DEF m
<1>7. Written[f][2] \in {ctGrayscale, ctPaletted, ctTrueColor, ctTrueColorAlpha}
  BY DEF Written, ctGrayscale, ctPaletted, ctTrueColor, ctTrueColorAlpha
<1> QED
  BY <1>4, <1>5, <1>6, <1>7

-----------------------------------------------------------------------------
(* writeImage: a row of the image becomes the bytes of a row. *)

IsByte(v) == v \in Nat /\ v < 256

Pix(l, n) == pixels[l * width + n]

WriterSize == RowBytes(WriterBits[cb], width)

\* What is encoded is an image of its format.
IsImage ==
  /\ cb \in DOMAIN Written /\ interlaced = FALSE /\ trns = <<>>
  /\ width \in Nat \ {0} /\ height \in Nat \ {0}
  /\ DOMAIN pixels = 0..(width * height - 1)
  /\ \A n \in DOMAIN pixels : pixels[n] \in Encodable(cb)

\* The first m pixels of line l are in bytes.
Holds(bytes, l, m) ==
  \A n \in Nat, k \in 1..Channels(cb) :
    n < m => SampleAt(bytes, Depth(cb), n * Channels(cb) + k - 1) = Pix(l, n)[k]

\* A row in the making: i bytes of it are complete, ...
Part(r, n) == DOMAIN r = 0..(WriterSize - 1) /\ \A k \in Nat : k < n => IsByte(r[k])

\* ... and of the next one, if samples are smaller than a byte, c0 pixels in a0.
Packed(l, x0, i0, a0, c0, r) ==
  LET d   == Depth(cb)
      per == 8 \div d
  IN  /\ x0 \in Nat /\ x0 <= width /\ i0 \in Nat /\ a0 \in Nat /\ c0 \in Nat
      /\ c0 < per /\ x0 = i0 * per + c0 /\ a0 < 2^(d * c0)
      /\ \A j \in Nat : j < c0 => Digit(d, a0, c0 - 1 - j) = Pix(l, i0 * per + j)[1]
      /\ \A n \in Nat : n < i0 * per => SampleAt(r, d, n) = Pix(l, n)[1]
      /\ Part(r, i0)

\* The pixels of a line are in the image.
LEMMA PixelIs ==
  ASSUME IsImage, NEW l \in Nat, l < height, NEW n \in Nat, n < width
  PROVE  /\ l * width + n \in DOMAIN pixels /\ Pix(l, n) \in Encodable(cb)
         /\ \A k \in 1..Channels(cb) : Pix(l, n)[k] \in Nat /\ Pix(l, n)[k] < 2^Depth(cb)
<1>1. l * width + n \in 0..(width * height - 1)
  <2> DEFINE w == width
             h == height
  <2>1. w \in Nat /\ h \in Nat
    BY DEF IsImage
  <2> HIDE DEF w, h
  <2>2. l <= h - 1 /\ n <= w - 1
    BY <2>1 DEF w, h
  <2>3. l * w <= (h - 1) * w
    BY <2>1, <2>2
  <2>4. (h - 1) * w = w * h - w
    BY <2>1
  <2>5. l * w \in Nat /\ w * h \in Nat
    BY <2>1
  <2>6. l * w + n \in 0..(w * h - 1)
    BY <2>1, <2>2, <2>3, <2>4, <2>5
  <2> QED
    BY <2>6 DEF w, h
<1>2. Pix(l, n) \in Encodable(cb)
  BY <1>1 DEF IsImage, Pix
<1> QED
  BY <1>1, <1>2, EncodablePixel DEF IsImage

\* Of which depths are the bits
LEMMA SmallFormat ==
  ASSUME IsImage
  PROVE  /\ WriterBits[cb] < 8 <=> Depth(cb) \in Bits
         /\ WriterBits[cb] < 8 => Channels(cb) = 1 /\ WriterBits[cb] = Depth(cb)
         /\ WriterBits[cb] >= 8 => Depth(cb) \in {8, 16}
         /\ WriterBits[cb] \in Nat
<1>1. /\ WriterBits[cb] = Depth(cb) * Channels(cb)
      /\ Depth(cb) \in {1, 2, 4, 8, 16} /\ Channels(cb) \in {1, 3, 4}
      /\ Depth(cb) < 8 => Channels(cb) = 1
  BY Formats DEF IsImage
<1> QED
  BY <1>1 DEF Bits

\* The byte in the making has its place.
LEMMA SizeBits ==
  ASSUME NEW d \in Bits, NEW w \in Nat, NEW i0 \in Nat, NEW c0 \in Nat, c0 < 8 \div d
  PROVE  /\ i0 * (8 \div d) + c0 < w => i0 < RowBytes(d, w)
         /\ w = i0 * (8 \div d) + c0 =>
              RowBytes(d, w) = IF c0 = 0 THEN i0 ELSE i0 + 1
<1>1. CASE d = 1
  BY <1>1 DEF RowBytes
<1>2. CASE d = 2
  BY <1>2 DEF RowBytes
<1>3. CASE d = 4
  BY <1>3 DEF RowBytes
<1> QED
  BY <1>1, <1>2, <1>3 DEF Bits

\* A turn of the loop over indices
LEMMA PackOne ==
  ASSUME IsImage, WriterBits[cb] < 8, NEW l \in Nat, l < height,
         NEW x0, NEW i0, NEW a0, NEW c0, NEW r, NEW r1,
         Packed(l, x0, i0, a0, c0, r), x0 < width,
         NEW full, full = (a0 * 2^Depth(cb) + Pix(l, x0)[1]) % 256,
         DOMAIN r1 = DOMAIN r, r1[i0] = full, \A k \in Nat : k < i0 => r1[k] = r[k]
  PROVE  /\ IsByte(full) /\ i0 \in DOMAIN r
         /\ c0 + 1 # 8 \div Depth(cb) => Packed(l, x0 + 1, i0, full, c0 + 1, r)
         /\ c0 + 1 = 8 \div Depth(cb) => Packed(l, x0 + 1, i0 + 1, 0, 0, r1)
<1> DEFINE d == Depth(cb)
           per == 8 \div d
           p == Pix(l, x0)[1]
<1>1. d \in Bits /\ Channels(cb) = 1 /\ WriterBits[cb] = d
  BY SmallFormat
<1>2. /\ x0 \in Nat /\ i0 \in Nat /\ a0 \in Nat /\ c0 \in Nat
      /\ c0 < per /\ x0 = i0 * per + c0 /\ a0 < 2^(d * c0)
      /\ \A j \in Nat : j < c0 => Digit(d, a0, c0 - 1 - j) = Pix(l, i0 * per + j)[1]
      /\ \A n \in Nat : n < i0 * per => SampleAt(r, d, n) = Pix(l, n)[1]
      /\ DOMAIN r = 0..(WriterSize - 1) /\ \A k \in Nat : k < i0 => IsByte(r[k])
  BY Zenon DEF Packed, Part
<1>3. d \in Nat /\ d > 0 /\ per \in Nat /\ per > 1 /\ d * per = 8 /\ 2^d \in Nat /\ 2^d > 1
  BY <1>1, BitsAre
<1>4. p \in 0..(2^d - 1)
  <2>1. p \in Nat /\ p < 2^d
    BY <1>1, <1>2, PixelIs
  <2> QED
    BY <1>3, <2>1
<1>5. width \in Nat
  BY DEF IsImage
<1> HIDE DEF d, per, p
<1>6. i0 \in 0..(WriterSize - 1)
  <2>1. i0 * per + c0 < width
    BY <1>2
  <2>2. i0 < RowBytes(d, width)
    BY <1>1, <1>2, <1>5, <2>1, SizeBits DEF per
  <2>3. WriterSize = RowBytes(d, width) /\ RowBytes(d, width) \in Nat
    BY <1>1, <1>3, <1>5 DEF WriterSize, RowBytes
  <2> QED
    BY <1>2, <2>2, <2>3
<1>7. a0 * 2^d + p \in Nat /\ a0 * 2^d + p < 2^(d * (c0 + 1))
  BY <1>1, <1>2, <1>4, DigitIn
<1>8. 2^(d * (c0 + 1)) <= 256
  <2>1. d * (c0 + 1) <= d * per
    BY <1>2, <1>3
  <2>2. d * (c0 + 1) \in Nat
    BY <1>2, <1>3
  <2> QED
    <3>1. 2^(d * (c0 + 1)) <= 2^8
      BY <1>3, <2>1, <2>2, PowerLE
    <3>2. 2^8 = 256
      BY Powers
    <3> QED
      BY <3>1, <3>2
<1>9. full = a0 * 2^d + p
  <2>1. 2^(d * (c0 + 1)) \in Nat
    <3>1. d * (c0 + 1) \in Nat
      BY <1>2, <1>3
    <3> QED
      BY <3>1, PowerPositive
  <2>2. a0 * 2^d + p < 256
    BY <1>7, <1>8, <2>1
  <2>3. full = (a0 * 2^d + p) % 256
    BY DEF d, p
  <2> QED
    BY <1>7, <2>2, <2>3
<1>10. IsByte(full) /\ full < 2^(d * (c0 + 1))
  <2>1. 2^(d * (c0 + 1)) \in Nat
    <3>1. d * (c0 + 1) \in Nat
      BY <1>2, <1>3
    <3> QED
      BY <3>1, PowerPositive
  <2> QED
    BY <1>7, <1>8, <1>9, <2>1 DEF IsByte
\* The digits are the pixels of this byte so far.
<1>11. ASSUME NEW j \in Nat, j < c0 + 1
       PROVE  Digit(d, full, c0 - j) = Pix(l, i0 * per + j)[1]
  <2>1. CASE j = c0
    <3>1. Digit(d, full, 0) = p /\ c0 - j = 0
      BY <1>1, <1>2, <1>4, <1>9, <2>1, DigitIn
    <3> QED
      BY <1>2, <2>1, <3>1 DEF p
  <2>2. CASE j # c0
    <3>1. c0 - 1 - j \in Nat /\ c0 - j = (c0 - 1 - j) + 1 /\ j < c0
      BY <1>2, <1>11, <2>2
    <3>2. Digit(d, full, (c0 - 1 - j) + 1) = Digit(d, a0, c0 - 1 - j)
      BY <1>1, <1>2, <1>4, <1>9, <3>1, DigitIn
    <3> QED
      BY <1>2, <3>1, <3>2
  <2> QED
    BY <2>1, <2>2
<1>12. CASE c0 + 1 # per
  <2>1. /\ x0 + 1 \in Nat /\ x0 + 1 <= width /\ full \in Nat /\ c0 + 1 \in Nat
        /\ c0 + 1 < per
    BY <1>2, <1>3, <1>5, <1>10, <1>12 DEF IsByte
  <2>2. x0 + 1 = i0 * per + (c0 + 1)
    <3>1. i0 * per \in Nat
      BY <1>2, <1>3
    <3> QED
      BY <1>2, <3>1
  <2>3. \A j \in Nat : j < c0 + 1 => Digit(d, full, (c0 + 1) - 1 - j) = Pix(l, i0 * per + j)[1]
    <3>1. \A j \in Nat : (c0 + 1) - 1 - j = c0 - j
      BY <1>2
    <3> QED
      BY <1>11, <3>1
  <2>4. Packed(l, x0 + 1, i0, full, c0 + 1, r)
    BY <1>2, <1>10, <2>1, <2>2, <2>3 DEF Packed, Part, d, per
  <2> QED
    BY <1>6, <1>10, <1>12, <1>2, <2>4 DEF d, per
<1>13. CASE c0 + 1 = per
  <2>1. /\ x0 + 1 \in Nat /\ x0 + 1 <= width /\ i0 + 1 \in Nat
        /\ x0 + 1 = (i0 + 1) * per + 0
    <3>1. i0 * per \in Nat /\ (i0 + 1) * per = i0 * per + per
      BY <1>2, <1>3
    <3> QED
      BY <1>2, <1>3, <1>5, <1>13, <3>1
  <2>2. 0 < per /\ 0 < 2^(d * 0) /\ d * 0 = 0
    <3>1. d * 0 = 0 /\ 0 < per
      BY <1>3
    <3>2. 2^(d * 0) = 1
      BY <3>1, PowerOne
    <3> QED
      BY <3>1, <3>2
  <2>3. \A k \in Nat : k < i0 + 1 => IsByte(r1[k])
    BY <1>2, <1>10
  <2>4. ASSUME NEW n \in Nat, n < (i0 + 1) * per
        PROVE  SampleAt(r1, d, n) = Pix(l, n)[1]
    <3> DEFINE q == n \div per
               j == n % per
    <3>1. n = q * per + j /\ q \in Nat /\ j \in 0..(per - 1)
      <4>1. n = per * q + j /\ q \in Nat /\ j \in 0..(per - 1)
        BY <1>3
      <4>2. per * q = q * per
        BY <1>3, <4>1
      <4> QED
        BY <4>1, <4>2
    <3>2. SampleAt(r1, d, n) = Digit(d, r1[q], per - 1 - j)
      BY <1>1, SampleIsDigit DEF per
    <3>3. SampleAt(r, d, n) = Digit(d, r[q], per - 1 - j)
      BY <1>1, SampleIsDigit DEF per
    <3> HIDE DEF q, j
    <3>4. q < i0 + 1
      <4>1. CASE q >= i0 + 1
        <5>1. q * per >= (i0 + 1) * per
          BY <1>2, <1>3, <3>1, <4>1
        <5>2. q * per \in Nat /\ (i0 + 1) * per \in Nat
          BY <1>2, <1>3, <3>1
        <5> QED
          BY <2>4, <3>1, <5>1, <5>2
      <4> QED
        BY <1>2, <3>1, <4>1
    <3>5. CASE q = i0
      <4>1. Digit(d, full, c0 - j) = Pix(l, i0 * per + j)[1]
        BY <1>2, <1>11, <1>13, <3>1
      <4>2. per - 1 - j = c0 - j
        BY <1>2, <1>13, <3>1
      <4> QED
        BY <3>1, <3>2, <3>5, <4>1, <4>2
    <3>6. CASE q < i0
      <4>1. r1[q] = r[q]
        BY <3>1, <3>6
      <4>2. n < i0 * per
        <5>1. q + 1 <= i0
          BY <1>2, <3>1, <3>6
        <5>2. (q + 1) * per <= i0 * per
          BY <1>2, <1>3, <3>1, <5>1
        <5>3. (q + 1) * per = q * per + per /\ q * per \in Nat /\ i0 * per \in Nat
          BY <1>2, <1>3, <3>1
        <5> QED
          BY <1>3, <3>1, <5>2, <5>3
      <4> QED
        BY <1>2, <3>2, <3>3, <4>1, <4>2
    <3> QED
      BY <1>2, <3>1, <3>4, <3>5, <3>6
  <2>5. Part(r1, i0 + 1)
    BY <1>2, <2>3 DEF Part
  <2>6. Packed(l, x0 + 1, i0 + 1, 0, 0, r1)
    BY <2>1, <2>2, <2>4, <2>5 DEF Packed, d, per
  <2> QED
    BY <1>6, <1>10, <1>13, <1>2, <2>6 DEF d, per
<1> QED
  BY <1>12, <1>13 DEF d, per

\* A row with its pixels, and every byte of it written
Complete(l, bytes) == Part(bytes, WriterSize) /\ Holds(bytes, l, width)

\* The last byte is filled up.
LEMMA PackLast ==
  ASSUME IsImage, WriterBits[cb] < 8, NEW l \in Nat,
         NEW i0, NEW a0, NEW c0, NEW r, Packed(l, width, i0, a0, c0, r)
  PROVE  LET missing == (8 \div WriterBits[cb]) - c0
         IN  Complete(l, IF c0 # 0
                         THEN [r EXCEPT ![i0] = (a0 * 2^(missing * WriterBits[cb])) % 256]
                         ELSE r)
<1> DEFINE d == Depth(cb)
           per == 8 \div d
           missing == per - c0
           last == (a0 * 2^(missing * d)) % 256
           r1 == IF c0 # 0 THEN [r EXCEPT ![i0] = last] ELSE r
<1>1. d \in Bits /\ Channels(cb) = 1 /\ WriterBits[cb] = d
  BY SmallFormat
<1>2. /\ i0 \in Nat /\ a0 \in Nat /\ c0 \in Nat
      /\ c0 < per /\ width = i0 * per + c0 /\ a0 < 2^(d * c0)
      /\ \A j \in Nat : j < c0 => Digit(d, a0, c0 - 1 - j) = Pix(l, i0 * per + j)[1]
      /\ \A n \in Nat : n < i0 * per => SampleAt(r, d, n) = Pix(l, n)[1]
      /\ DOMAIN r = 0..(WriterSize - 1) /\ \A k \in Nat : k < i0 => IsByte(r[k])
  BY Zenon DEF Packed, Part
<1>3. d \in Nat /\ d > 0 /\ per \in Nat /\ per > 1 /\ d * per = 8 /\ 2^d \in Nat /\ 2^d > 1
  BY <1>1, BitsAre
<1>4. width \in Nat
  BY DEF IsImage
<1>5. Complete(l, r1)
  <2> HIDE DEF d, per
  <2>1. WriterSize = IF c0 = 0 THEN i0 ELSE i0 + 1
    BY <1>1, <1>2, <1>4, SizeBits DEF WriterSize, per
  <2>2. missing \in Nat /\ missing * d \in Nat /\ c0 + missing = per
    BY <1>2, <1>3
  <2>3. c0 # 0 => last = a0 * 2^(missing * d) /\ IsByte(last)
    <3>1. a0 * 2^(missing * d) \in Nat /\ a0 * 2^(missing * d) < 2^(d * (c0 + missing))
      BY <1>1, <1>2, <2>2, DigitUp
    <3>2. 2^(d * (c0 + missing)) = 256
      <4>1. d * (c0 + missing) = 8
        BY <1>3, <2>2
      <4>2. 2^8 = 256
        BY Powers
      <4> QED
        BY <4>1, <4>2
    <3> DEFINE v == a0 * 2^(missing * d)
    <3>3. v \in Nat /\ v < 256
      BY <3>1, <3>2
    <3>4. last = v % 256
      OBVIOUS
    <3> HIDE DEF v, last
    <3>5. last = v
      BY <3>3, <3>4
    <3> QED
      BY <3>3, <3>5 DEF IsByte, v
  <2> HIDE DEF last, missing
  <2>4. DOMAIN r1 = DOMAIN r /\ \A k \in Nat : k < i0 => r1[k] = r[k]
    BY <1>2
  <2>5. c0 # 0 => r1[i0] = last
    BY <1>2, <2>1
  <2>6. Part(r1, WriterSize)
    <3>1. ASSUME NEW k \in Nat, k < WriterSize PROVE IsByte(r1[k])
      <4>1. CASE k < i0
        BY <1>2, <2>4, <4>1
      <4>2. CASE k = i0 /\ c0 # 0
        BY <2>3, <2>5, <4>2
      <4> QED
        BY <1>2, <2>1, <3>1, <4>1, <4>2
    <3> HIDE DEF r1
    <3> QED
      BY <1>2, <2>4, <3>1 DEF Part
  <2> HIDE DEF r1
  <2>7. ASSUME NEW n \in Nat, n < width PROVE SampleAt(r1, d, n) = Pix(l, n)[1]
    <3> DEFINE q == n \div per
               j == n % per
    <3>1. n = q * per + j /\ q \in Nat /\ j \in 0..(per - 1)
      <4>1. n = per * q + j /\ q \in Nat /\ j \in 0..(per - 1)
        BY <1>3
      <4>2. per * q = q * per
        BY <1>3, <4>1
      <4> QED
        BY <4>1, <4>2
    <3>2. SampleAt(r1, d, n) = Digit(d, r1[q], per - 1 - j)
      BY <1>1, SampleIsDigit DEF per
    <3>3. SampleAt(r, d, n) = Digit(d, r[q], per - 1 - j)
      BY <1>1, SampleIsDigit DEF per
    <3> HIDE DEF q, j
    <3>4. i0 * per \in Nat /\ q * per \in Nat
      BY <1>2, <1>3, <3>1
    <3>5. CASE q < i0
      <4>1. r1[q] = r[q]
        BY <2>4, <3>1, <3>5
      <4>2. n < i0 * per
        <5>1. q + 1 <= i0
          BY <1>2, <3>1, <3>5
        <5>2. (q + 1) * per <= i0 * per
          BY <1>2, <1>3, <3>1, <5>1
        <5>3. (q + 1) * per = q * per + per
          BY <1>3, <3>1
        <5> QED
          BY <1>3, <3>1, <3>4, <5>2, <5>3
      <4> QED
        BY <1>2, <3>2, <3>3, <4>1, <4>2
    <3>6. CASE q >= i0
      <4>1. q = i0 /\ j < c0
        <5>1. CASE q > i0
          <6>1. q >= i0 + 1
            BY <1>2, <3>1, <5>1
          <6>2. q * per >= (i0 + 1) * per
            BY <1>2, <1>3, <3>1, <6>1
          <6>3. (i0 + 1) * per = i0 * per + per
            BY <1>2, <1>3
          <6>4. q * per >= i0 * per + per
            BY <6>2, <6>3
          <6>5. \A t, u \in Nat : u >= t + per /\ n = u + j /\ n < t + c0 => FALSE
            BY <1>2, <1>3, <3>1
          <6> QED
            BY <1>2, <2>7, <3>1, <3>4, <6>4, <6>5
        <5> QED
          BY <1>2, <2>7, <3>1, <3>4, <3>6, <5>1
      <4>2. c0 # 0 /\ c0 - 1 - j \in Nat
        BY <1>2, <3>1, <4>1
      <4>3. Digit(d, last, (c0 - 1 - j) + missing) = Digit(d, a0, c0 - 1 - j)
        BY <1>1, <1>2, <2>2, <2>3, <4>2, DigitUp
      <4>4. (c0 - 1 - j) + missing = per - 1 - j
        BY <1>2, <1>3, <2>2, <3>1
      <4>5. Digit(d, a0, c0 - 1 - j) = Pix(l, i0 * per + j)[1]
        BY <1>2, <3>1, <4>1
      <4> QED
        BY <2>5, <3>1, <3>2, <4>1, <4>2, <4>3, <4>4, <4>5
    <3> QED
      BY <1>2, <3>1, <3>5, <3>6
  <2>8. Holds(r1, l, width)
    <3> SUFFICES ASSUME NEW n \in Nat, NEW k \in 1..Channels(cb), n < width
                 PROVE  SampleAt(r1, d, n * Channels(cb) + k - 1) = Pix(l, n)[k]
      BY DEF Holds, d
    <3>1. k = 1 /\ n * Channels(cb) + k - 1 = n
      BY <1>1
    <3> QED
      BY <2>7, <3>1
  <2> QED
    BY <2>6, <2>8 DEF Complete
<1> QED
  BY <1>1, <1>5

-----------------------------------------------------------------------------
(* Samples of one or two bytes *)

PackedBytes(l, x0, i0, r) ==
  /\ x0 \in Nat /\ x0 <= width
  /\ i0 = x0 * (Channels(cb) * (Depth(cb) \div 8))
  /\ Part(r, i0) /\ Holds(r, l, x0)

\* The samples of a pixel that are written
Kept(p) == SubSeq(p, 1, Channels(cb))

\* The samples of a pixel that are written: those of its format
LEMMA KeptIs ==
  ASSUME IsImage, NEW p \in Encodable(cb)
  PROVE  /\ Kept(p) = [k \in 1..Channels(cb) |-> p[k]] /\ Len(Kept(p)) = Channels(cb)
         /\ (IF cb \in {"cbTC8", "cbTC16"} THEN SubSeq(p, 1, 3) ELSE p) = Kept(p)
<1>1. /\ p \in Seq(Nat) /\ Len(p) >= Channels(cb)
      /\ cb \notin {"cbTC8", "cbTC16"} => Len(p) = Channels(cb)
  BY EncodablePixel DEF IsImage
<1>2. Channels(cb) \in {1, 3, 4} /\ (cb \in {"cbTC8", "cbTC16"} <=> Channels(cb) = 3)
  BY Formats DEF IsImage
<1>3. Kept(p) = [k \in 1..Channels(cb) |-> p[k]] /\ Len(Kept(p)) = Channels(cb)
  BY <1>1, <1>2 DEF Kept
<1>4. Len(p) = Channels(cb) => p = [k \in 1..Channels(cb) |-> p[k]]
  BY <1>1
<1>5. CASE cb \in {"cbTC8", "cbTC16"}
  BY <1>2, <1>3, <1>5 DEF Kept
<1>6. CASE cb \notin {"cbTC8", "cbTC16"}
  BY <1>1, <1>3, <1>4, <1>6
<1> QED
  BY <1>3, <1>5, <1>6

\* Products rise with their factors.
LEMMA TimesMonotone ==
  ASSUME NEW u \in Nat, NEW v \in Nat, NEW w \in Nat, u <= v
  PROVE  u * w <= v * w /\ u * w \in Nat /\ v * w \in Nat
<1>1. v - u \in Nat /\ (v - u) * w \in Nat /\ (v - u) * w = v * w - u * w
  OBVIOUS
<1>2. u * w \in Nat /\ v * w \in Nat
  OBVIOUS
<1> QED
  BY <1>1, <1>2

Unit == Channels(cb) * (Depth(cb) \div 8)

\* The size of a row whose samples are whole bytes
LEMMA WideFormat ==
  ASSUME IsImage, WriterBits[cb] >= 8
  PROVE  /\ Depth(cb) \in {8, 16} /\ Channels(cb) \in {1, 3, 4}
         /\ Unit \in Nat \ {0} /\ WriterSize = width * Unit
         /\ Unit = IF Depth(cb) = 16 THEN 2 * Channels(cb) ELSE Channels(cb)
<1>1. /\ Depth(cb) \in {8, 16} /\ Channels(cb) \in {1, 3, 4}
      /\ WriterBits[cb] = Depth(cb) * Channels(cb)
  BY Formats, SmallFormat DEF IsImage
<1>2. /\ Unit \in {1, 2, 3, 4, 6, 8} /\ WriterBits[cb] = 8 * Unit
      /\ Unit = IF Depth(cb) = 16 THEN 2 * Channels(cb) ELSE Channels(cb)
  BY <1>1 DEF Unit
<1>3. width \in Nat
  BY DEF IsImage
<1>4. WriterSize = (8 * Unit * width + 7) \div 8
  BY <1>2 DEF WriterSize, RowBytes
<1>5. WriterSize = width * Unit
  <2> HIDE DEF WriterSize, Unit
  <2>1. CASE Unit = 1
    BY <1>3, <1>4, <2>1
  <2>2. CASE Unit = 2
    BY <1>3, <1>4, <2>2
  <2>3. CASE Unit = 3
    BY <1>3, <1>4, <2>3
  <2>4. CASE Unit = 4
    BY <1>3, <1>4, <2>4
  <2>5. CASE Unit = 6
    BY <1>3, <1>4, <2>5
  <2>6. CASE Unit = 8
    BY <1>3, <1>4, <2>6
  <2> QED
    BY <1>2, <2>1, <2>2, <2>3, <2>4, <2>5, <2>6
<1> QED
  BY <1>1, <1>2, <1>5

\* High byte first
BytesHold(r, s, m, d) ==
  /\ Len(r) = (IF d = 16 THEN 2 * m ELSE m)
  /\ \A k \in 1..Len(r) : IsByte(r[k])
  /\ \A k \in 1..m :
       IF d = 16 THEN r[2 * k - 1] * 256 + r[2 * k] = s[k] ELSE r[k] = s[k]

\* The bytes of samples hold them.
LEMMA BytesOfIs ==
  ASSUME NEW m \in Nat, NEW s \in Seq(Nat), Len(s) = m, NEW d \in {8, 16},
         \A k \in 1..m : s[k] < 2^d
  PROVE  BytesHold(BytesOf(s, d), s, m, d)
<1> SUFFICES LET r == BytesOf(s, d)
             IN  /\ Len(r) = (IF d = 16 THEN 2 * m ELSE m)
                 /\ \A k \in 1..Len(r) : IsByte(r[k])
                 /\ \A k \in 1..m :
                      IF d = 16 THEN r[2 * k - 1] * 256 + r[2 * k] = s[k] ELSE r[k] = s[k]
  BY DEF BytesHold
<1>1. CASE d = 8
  <2>1. BytesOf(s, d) = s
    BY <1>1 DEF BytesOf
  <2>2. \A k \in 1..m : s[k] \in Nat /\ s[k] < 256
    BY <1>1, Powers
  <2> QED
    BY <1>1, <2>1, <2>2 DEF IsByte
<1>2. CASE d = 16
  <2> DEFINE r == BytesOf(s, d)
  <2>1. r = [k \in 1..(2 * m) |->
               LET t == s[(k + 1) \div 2] IN IF k % 2 = 1 THEN t \div 256 ELSE t % 256]
    BY <1>2 DEF BytesOf
  <2>2. \A k \in 1..m : s[k] \in Nat /\ s[k] < 65536
    BY <1>2, Powers
  <2> HIDE DEF r
  <2>3. ASSUME NEW k \in 1..(2 * m)
        PROVE  /\ IsByte(r[k])
               /\ (k + 1) \div 2 \in 1..m
               /\ r[k] = IF k % 2 = 1 THEN s[(k + 1) \div 2] \div 256
                         ELSE s[(k + 1) \div 2] % 256
    <3> DEFINE t == s[(k + 1) \div 2]
    <3>1. (k + 1) \div 2 \in 1..m
      OBVIOUS
    <3>2. t \in Nat /\ t < 65536
      BY <2>2, <3>1
    <3>3. r[k] = IF k % 2 = 1 THEN t \div 256 ELSE t % 256
      BY <2>1
    <3> HIDE DEF t
    <3>4. IsByte(t \div 256) /\ IsByte(t % 256)
      BY <3>2 DEF IsByte
    <3> QED
      BY <3>1, <3>3, <3>4 DEF t
  <2>4. Len(r) = 2 * m
    <3>2. r \in [1..(2 * m) -> {n \in Nat : n < 256}]
      <4>1. r = [k \in 1..(2 * m) |-> r[k]]
        BY <2>1
      <4> QED
        BY <2>3, <4>1 DEF IsByte
    <3>3. 2 * m \in Nat
      OBVIOUS
    <3> QED
      BY <3>2, <3>3, FunctionIsSeq
  <2>5. ASSUME NEW k \in 1..m PROVE r[2 * k - 1] * 256 + r[2 * k] = s[k]
    <3>1. /\ 2 * k - 1 \in 1..(2 * m) /\ 2 * k \in 1..(2 * m)
          /\ ((2 * k - 1) + 1) \div 2 = k /\ (2 * k + 1) \div 2 = k
          /\ (2 * k - 1) % 2 = 1 /\ (2 * k) % 2 = 0
      OBVIOUS
    <3>2. r[2 * k - 1] = s[k] \div 256 /\ r[2 * k] = s[k] % 256
      BY <2>3, <3>1
    <3>3. ASSUME NEW t \in Nat PROVE (t \div 256) * 256 + (t % 256) = t
      <4>1. t \div 256 \in Nat /\ t = 256 * (t \div 256) + (t % 256)
        OBVIOUS
      <4>2. \A u \in Nat : u * 256 = 256 * u
        OBVIOUS
      <4> QED
        BY <4>1, <4>2
    <3> QED
      BY <2>2, <3>2, <3>3
  <2> QED
    BY <1>2, <2>3, <2>4, <2>5 DEF r
<1> QED
  BY <1>1, <1>2

\* A turn of the loop over pixels
LEMMA PackPixel ==
  ASSUME IsImage, WriterBits[cb] >= 8, NEW l \in Nat, l < height,
         NEW x0, NEW i0, NEW r, PackedBytes(l, x0, i0, r), x0 < width,
         NEW bytes, bytes = BytesOf(Kept(Pix(l, x0)), Depth(cb)),
         NEW r1, r1 = [k \in DOMAIN r |->
                         IF k \in i0..(i0 + Len(bytes) - 1) THEN bytes[k - i0 + 1] ELSE r[k]]
  PROVE  PackedBytes(l, x0 + 1, i0 + Len(bytes), r1) /\ Len(bytes) = Unit
<1> DEFINE d == Depth(cb)
           ch == Channels(cb)
           p == Pix(l, x0)
<1>1. /\ d \in {8, 16} /\ ch \in {1, 3, 4} /\ Unit \in Nat \ {0} /\ WriterSize = width * Unit
      /\ Unit = IF d = 16 THEN 2 * ch ELSE ch
  BY WideFormat
<1>2. /\ x0 \in Nat /\ i0 = x0 * Unit /\ DOMAIN r = 0..(WriterSize - 1)
      /\ \A k \in Nat : k < i0 => IsByte(r[k])
      /\ Holds(r, l, x0)
  BY DEF PackedBytes, Part, Unit
<1>3. width \in Nat
  BY DEF IsImage
<1>4. p \in Encodable(cb) /\ \A k \in 1..ch : p[k] \in Nat /\ p[k] < 2^d
  BY <1>2, PixelIs
<1>5. Kept(p) \in Seq(Nat) /\ Len(Kept(p)) = ch /\ \A k \in 1..ch : Kept(p)[k] = p[k]
  <2>1. Kept(p) = [k \in 1..ch |-> p[k]] /\ Len(Kept(p)) = ch
    BY <1>4, KeptIs
  <2>2. \A k \in 1..ch : p[k] \in Nat
    BY <1>4
  <2>3. ch \in Nat
    BY <1>1
  <2> HIDE DEF p, ch
  <2>4. Kept(p) \in [1..ch -> Nat] /\ \A k \in 1..ch : Kept(p)[k] = p[k]
    BY <2>1, <2>2
  <2> QED
    BY <2>1, <2>3, <2>4, FunctionIsSeq
<1>6. /\ Len(bytes) = Unit
      /\ \A k \in 1..Unit : IsByte(bytes[k])
      /\ \A k \in 1..ch : IF d = 16 THEN bytes[2 * k - 1] * 256 + bytes[2 * k] = p[k]
                          ELSE bytes[k] = p[k]
  <2> HIDE DEF ch, d
  <2> DEFINE s == Kept(p)
  <2>1. bytes = BytesOf(s, d) /\ ch \in Nat
    BY <1>1 DEF d
  <2>2. s \in Seq(Nat) /\ Len(s) = ch /\ \A k \in 1..ch : s[k] < 2^d /\ s[k] = p[k]
    BY <1>4, <1>5
  <2> HIDE DEF p, s
  <2>3. /\ Len(bytes) = (IF d = 16 THEN 2 * ch ELSE ch)
        /\ \A k \in 1..Len(bytes) : IsByte(bytes[k])
        /\ \A k \in 1..ch : IF d = 16 THEN bytes[2 * k - 1] * 256 + bytes[2 * k] = s[k]
                            ELSE bytes[k] = s[k]
    <3>1. d \in {8, 16} /\ \A k \in 1..ch : s[k] < 2^d
      BY <1>1, <2>2
    <3>2. ch \in Nat /\ s \in Seq(Nat) /\ Len(s) = ch
      BY <2>1, <2>2
    <3>3. BytesHold(bytes, s, ch, d)
      <4>1. BytesHold(BytesOf(s, d), s, ch, d)
        BY <3>1, <3>2, BytesOfIs
      <4> QED
        BY <2>1, <4>1
    <3> QED
      BY <3>3 DEF BytesHold
  <2> QED
    BY <1>1, <2>2, <2>3
<1> HIDE DEF Unit, d, ch, p
<1>7. i0 \in Nat /\ (x0 + 1) * Unit = i0 + Unit /\ i0 + Unit <= WriterSize
  <2>1. x0 + 1 <= width /\ x0 + 1 \in Nat
    BY <1>2, <1>3
  <2>2. (x0 + 1) * Unit <= width * Unit
    BY <1>1, <1>2, <1>3, <2>1, TimesMonotone
  <2>3. (x0 + 1) * Unit = x0 * Unit + Unit /\ x0 * Unit \in Nat
    <3>1. x0 \in Nat /\ Unit \in Nat
      BY <1>1, <1>2
    <3> QED
      BY <3>1
  <2> QED
    BY <1>1, <1>2, <2>2, <2>3
<1>8. /\ DOMAIN r1 = 0..(WriterSize - 1)
      /\ \A k \in Nat : k < i0 => r1[k] = r[k]
      /\ \A k \in 1..Unit : r1[i0 + k - 1] = bytes[k]
  <2>1. WriterSize \in Nat
    BY <1>1, <1>3
  <2>2. \A k \in DOMAIN r : r1[k] = IF k \in i0..(i0 + Len(bytes) - 1)
                                    THEN bytes[k - i0 + 1] ELSE r[k]
    OBVIOUS
  <2>3. ASSUME NEW k \in Nat, k < i0 PROVE r1[k] = r[k]
    <3>1. k \in DOMAIN r /\ ~(k \in i0..(i0 + Len(bytes) - 1))
      BY <1>1, <1>2, <1>6, <1>7, <2>1, <2>3
    <3> QED
      BY <2>2, <3>1
  <2>4. ASSUME NEW k \in 1..Unit PROVE r1[i0 + k - 1] = bytes[k]
    <3>1. i0 + k - 1 \in DOMAIN r /\ i0 + k - 1 \in i0..(i0 + Len(bytes) - 1)
          /\ (i0 + k - 1) - i0 + 1 = k
      BY <1>1, <1>2, <1>6, <1>7, <2>1
    <3> QED
      BY <2>2, <3>1
  <2> QED
    BY <1>2, <2>3, <2>4
<1>9. Part(r1, i0 + Unit)
  <2>1. ASSUME NEW k \in Nat, k < i0 + Unit PROVE IsByte(r1[k])
    <3>1. CASE k < i0
      BY <1>2, <1>8, <3>1
    <3>2. CASE k >= i0
      <4>1. (k - i0 + 1) \in 1..Unit /\ i0 + (k - i0 + 1) - 1 = k
        BY <1>1, <1>7, <2>1, <3>2
      <4> QED
        BY <1>6, <1>8, <4>1
    <3> QED
      BY <1>7, <3>1, <3>2
  <2> QED
    BY <1>8, <2>1 DEF Part
<1>10. ASSUME NEW n \in Nat, NEW k \in 1..ch, n < x0 + 1
       PROVE  SampleAt(r1, d, n * ch + k - 1) = Pix(l, n)[k]
  <2> DEFINE t == n * ch + k - 1
  <2>1. t \in Nat /\ t < (x0 + 1) * ch /\ (n < x0 => t < x0 * ch) /\ x0 * ch \in Nat
    <3>1. k \in Nat /\ k >= 1 /\ k <= ch /\ ch \in Nat /\ n * ch \in Nat
      BY <1>1
    <3>2. (n + 1) * ch <= (x0 + 1) * ch
      BY <1>1, <1>2, <1>10, TimesMonotone
    <3>3. n < x0 => (n + 1) * ch <= x0 * ch
      BY <1>1, <1>2, <1>10, TimesMonotone
    <3>4. x0 * ch \in Nat /\ (x0 + 1) * ch \in Nat /\ (n + 1) * ch = n * ch + ch
      BY <1>1, <1>2
    <3> QED
      BY <1>1, <3>1, <3>2, <3>3, <3>4
  <2>2. n = x0 => t = x0 * ch + k - 1
    OBVIOUS
  <2>3. n < x0 => SampleAt(r, d, t) = Pix(l, n)[k]
    BY <1>2 DEF Holds, d, ch
  <2> SUFFICES SampleAt(r1, d, t) = Pix(l, n)[k]
    OBVIOUS
  <2> HIDE DEF t
  <2>4. CASE d = 8
    <3>1. Unit = ch /\ i0 = x0 * ch
      BY <1>1, <1>2, <2>4
    <3>2. t < i0 + Unit /\ IsByte(r1[t])
      <4>1. t < i0 + Unit
        BY <1>7, <2>1, <3>1
      <4> QED
        BY <1>9, <2>1, <4>1 DEF Part
    <3>3. SampleAt(r1, d, t) = r1[t]
      BY <2>1, <2>4, <3>2, SampleIsByte DEF IsByte
    <3>4. CASE n < x0
      <4>1. t < i0 /\ IsByte(r[t])
        BY <1>2, <2>1, <3>1, <3>4
      <4>2. SampleAt(r, d, t) = r[t]
        BY <2>1, <2>4, <4>1, SampleIsByte DEF IsByte
      <4> QED
        BY <1>8, <2>1, <2>3, <3>3, <3>4, <4>1, <4>2
    <3>5. CASE n = x0
      <4>1. t = i0 + k - 1 /\ k \in 1..Unit
        BY <2>2, <3>1, <3>5
      <4> QED
        BY <1>6, <1>8, <2>4, <3>3, <3>5, <4>1 DEF p
    <3> QED
      BY <1>2, <1>10, <3>4, <3>5
  <2>5. CASE d = 16
    <3>1. Unit = 2 * ch /\ i0 = 2 * (x0 * ch)
      <4>1. x0 * (2 * ch) = 2 * (x0 * ch)
        BY <1>1, <1>2
      <4> QED
        BY <1>1, <1>2, <2>5, <4>1
    <3>2. \A r2 : SampleAt(r2, d, t) = r2[2 * t] * 256 + r2[2 * t + 1]
      BY <2>5 DEF SampleAt
    <3>3. CASE n < x0
      <4>1. 2 * t < i0 /\ 2 * t + 1 < i0 /\ 2 * t \in Nat /\ 2 * t + 1 \in Nat
        BY <2>1, <3>1, <3>3
      <4>2. r1[2 * t] = r[2 * t] /\ r1[2 * t + 1] = r[2 * t + 1]
        BY <1>8, <4>1
      <4> QED
        BY <2>3, <3>2, <3>3, <4>2
    <3>4. CASE n = x0
      <4>1. /\ 2 * t = i0 + (2 * k - 1) - 1 /\ 2 * t + 1 = i0 + (2 * k) - 1
            /\ 2 * k - 1 \in 1..Unit /\ 2 * k \in 1..Unit
        BY <1>1, <2>1, <2>2, <3>1, <3>4
      <4>2. r1[2 * t] = bytes[2 * k - 1] /\ r1[2 * t + 1] = bytes[2 * k]
        BY <1>8, <4>1
      <4>3. bytes[2 * k - 1] * 256 + bytes[2 * k] = p[k]
        BY <1>6, <2>5
      <4>4. SampleAt(r1, d, t) = r1[2 * t] * 256 + r1[2 * t + 1]
        BY <3>2
      <4>5. SampleAt(r1, d, t) = p[k]
        BY <4>2, <4>3, <4>4
      <4> QED
        BY <3>4, <4>5 DEF p
    <3> QED
      BY <1>2, <1>10, <3>3, <3>4
  <2> QED
    BY <1>1, <2>4, <2>5
<1>11. Holds(r1, l, x0 + 1)
  BY <1>10 DEF Holds, d, ch
<1>12. x0 + 1 \in Nat /\ x0 + 1 <= width /\ i0 + Len(bytes) = (x0 + 1) * Unit
  BY <1>2, <1>3, <1>6, <1>7
<1> QED
  BY <1>6, <1>9, <1>11, <1>12 DEF PackedBytes, Unit

-----------------------------------------------------------------------------
(* The rows of an encoded image *)

WrittenRows(n) ==
  /\ IsSequence(file) /\ Len(file) = n
  /\ \A r \in 1..n : file[r].pass = 0 /\ file[r].line = r - 1 /\ Complete(r - 1, file[r].bytes)

Packing ==
  /\ y \in Nat /\ y < height /\ Part(prev, 0)
  /\ IF WriterBits[cb] < 8 THEN Packed(y, x, i, a, c, row)
     ELSE PackedBytes(y, x, i, row) /\ a = 0 /\ c = 0

EncoderInv ==
  /\ pixels # <<>> => IsImage /\ WrittenRows(IF pc = "pack" THEN y ELSE height)
  /\ pc = "pack" => pixels # <<>> /\ Packing

\* What is said of rows depends on the picture alone.
LEMMA SamePicture ==
  ASSUME UNCHANGED picture
  PROVE  /\ IsImage' <=> IsImage
         /\ \A l, r : Complete(l, r)' <=> Complete(l, r)
         /\ \A l, r : \A x0, i0 : PackedBytes(l, x0, i0, r)' <=> PackedBytes(l, x0, i0, r)
         /\ \A l, r : \A x0, i0, a0, c0 :
              Packed(l, x0, i0, a0, c0, r)' <=> Packed(l, x0, i0, a0, c0, r)
         /\ \A r, n : Part(r, n)' <=> Part(r, n)
<1>1. UNCHANGED <<cb, width, height, interlaced, pixels, trns>>
  BY DEF picture
<1>2. IsImage' <=> IsImage
  BY <1>1 DEF IsImage
<1>3. UNCHANGED WriterSize
  BY <1>1 DEF WriterSize
<1>4. \A r, n : Part(r, n)' <=> Part(r, n)
  BY <1>3 DEF Part
<1>5. \A l, n : Pix(l, n)' = Pix(l, n)
  BY <1>1 DEF Pix
<1>6. \A l, r, m : Holds(r, l, m)' <=> Holds(r, l, m)
  BY <1>1, <1>5 DEF Holds
<1>7. \A l, r : Complete(l, r)' <=> Complete(l, r)
  BY <1>1, <1>3, <1>4, <1>6 DEF Complete
<1>8. \A l, r : \A x0, i0 : PackedBytes(l, x0, i0, r)' <=> PackedBytes(l, x0, i0, r)
  BY <1>1, <1>4, <1>6 DEF PackedBytes
<1>9. \A l, r : \A x0, i0, a0, c0 :
        Packed(l, x0, i0, a0, c0, r)' <=> Packed(l, x0, i0, a0, c0, r)
  BY <1>1, <1>4, <1>5 DEF Packed
<1> QED
  BY <1>2, <1>4, <1>7, <1>8, <1>9

\* An encoder starts with an empty row, whatever its buffers hold.
LEMMA InitEncoder == Init => EncoderInv
<1> SUFFICES ASSUME Init PROVE EncoderInv
  OBVIOUS
<1>1. CASE InitForeign
  BY <1>1 DEF InitForeign, EncoderInv
<1>2. CASE InitEncode
  <2>1. /\ cb \in DOMAIN Written /\ interlaced = FALSE /\ trns = <<>> /\ file = <<>>
        /\ pc = "pack" /\ y = 0 /\ x = 0 /\ i = 0 /\ a = 0 /\ c = 0
    BY <1>2 DEF InitEncode, Init, Start
  <2>2. width \in Nat \ {0} /\ height \in Nat \ {0}
    BY InitImage DEF ImageInv
  <2>3. DOMAIN row = 0..(WriterSize - 1) /\ DOMAIN prev = 0..(WriterSize - 1)
    BY <1>2 DEF InitEncode, WriterSize
  <2>4. DOMAIN pixels = 0..(width * height - 1)
    BY <1>2 DEF InitEncode
  <2>5. \A n \in DOMAIN pixels : pixels[n] \in Encodable(cb)
    BY <1>2 DEF InitEncode
  <2>6. pixels # <<>>
    <3>1. width * height >= 1 /\ width * height \in Nat
      <4>1. 1 * height <= width * height
        BY <2>2, TimesMonotone
      <4>2. width * height \in Nat
        BY <2>2
      <4> QED
        BY <2>2, <4>1, <4>2
    <3>2. 0 \in DOMAIN pixels
      BY <2>4, <3>1
    <3>3. 0 \notin DOMAIN <<>>
      OBVIOUS
    <3> QED
      BY <3>2, <3>3
  <2>7. IsImage
    BY <2>1, <2>2, <2>4, <2>5 DEF IsImage
  <2>8. WrittenRows(0)
    <3>1. file = <<>> /\ Len(file) = 0
      BY <2>1
    <3>2. <<>> \in Seq({})
      OBVIOUS
    <3>3. \A r \in 1..0 : FALSE
      OBVIOUS
    <3> QED
      BY <3>1, <3>2, <3>3 DEF WrittenRows, IsSequence
  <2>9. Part(row, 0) /\ Part(prev, 0)
    BY <2>3 DEF Part
  <2>10. CASE WriterBits[cb] < 8
    <3>1. Depth(cb) \in Bits
      BY <2>7, <2>10, SmallFormat
    <3> DEFINE d == Depth(cb)
               per == 8 \div d
    <3>2. per \in Nat /\ per > 1 /\ d \in Nat
      BY <3>1, BitsAre
    <3>3. 2^(d * 0) = 1 /\ 0 = 0 * per + 0 /\ 0 * per = 0
      <4>1. d * 0 = 0
        BY <3>2
      <4>2. 2^(d * 0) = 1
        BY <4>1, PowerOne
      <4> HIDE DEF d, per
      <4>3. 0 * per = 0
        BY <3>2
      <4> QED
        BY <4>2, <4>3
    <3>4. Packed(0, 0, 0, 0, 0, row)
      <4> HIDE DEF per, d
      <4>1. \A n \in Nat : n < 0 => FALSE
        OBVIOUS
      <4> QED
        BY <2>2, <2>9, <3>2, <3>3, <4>1 DEF Packed, per, d
    <3> QED
      BY <2>1, <2>2, <2>6, <2>7, <2>8, <2>9, <2>10, <3>4 DEF EncoderInv, Packing
  <2>11. CASE ~(WriterBits[cb] < 8)
    <3>1. Holds(row, 0, 0)
      BY DEF Holds
    <3>2. 0 = 0 * Unit
      <4>1. WriterBits[cb] >= 8
        BY <2>7, <2>11, SmallFormat
      <4>2. Unit \in Nat
        BY <2>7, <4>1, WideFormat
      <4> QED
        BY <4>2
    <3>3. PackedBytes(0, 0, 0, row)
      BY <2>2, <2>9, <3>1, <3>2 DEF PackedBytes, Unit
    <3> QED
      BY <2>1, <2>2, <2>6, <2>7, <2>8, <2>9, <2>11, <3>3 DEF EncoderInv, Packing
  <2> QED
    BY <2>10, <2>11
<1> QED
  BY <1>1, <1>2 DEF Init

\* Rows that are written stay as they are.
LEMMA SameRows ==
  ASSUME UNCHANGED <<picture, file>>
  PROVE  \A n : WrittenRows(n)' <=> WrittenRows(n)
<1>1. \A l, r : Complete(l, r)' <=> Complete(l, r)
  BY SamePicture
<1> QED
  BY <1>1 DEF WrittenRows

\* The next byte of a row in the making is in the row.
LEMMA InRow ==
  ASSUME IsImage, WriterBits[cb] < 8, NEW l, NEW x0, NEW i0, NEW a0, NEW c0, NEW r,
         Packed(l, x0, i0, a0, c0, r), x0 < width
  PROVE  i0 \in 0..(WriterSize - 1) /\ WriterSize \in Nat
<1> DEFINE d == Depth(cb)
<1>1. d \in Bits /\ WriterBits[cb] = d
  BY SmallFormat
<1>2. i0 \in Nat /\ c0 \in Nat /\ c0 < 8 \div d /\ x0 = i0 * (8 \div d) + c0
  BY DEF Packed
<1>3. width \in Nat /\ d \in Nat
  BY <1>1, BitsAre DEF IsImage
<1>4. WriterSize = RowBytes(d, width) /\ RowBytes(d, width) \in Nat
  BY <1>1, <1>3 DEF WriterSize, RowBytes
<1> HIDE DEF d
<1>5. i0 < RowBytes(d, width)
  BY <1>1, <1>2, <1>3, SizeBits
<1> QED
  BY <1>2, <1>4, <1>5

\* A turn of the loop over indices: a digit more is in hand, or a byte is complete.
LEMMA PackIndexStep == EncoderInv /\ PackIndex => EncoderInv'
<1> SUFFICES ASSUME EncoderInv, PackIndex PROVE EncoderInv'
  OBVIOUS
<1> DEFINE bits == WriterBits[cb]
           full == (a * 2^bits + pixels[y * width + x][1]) % 256
           r1 == [k \in DOMAIN row |-> IF k \in i..(i + Len(<<full>>) - 1)
                                       THEN <<full>>[k - i + 1] ELSE row[k]]
<1>1. /\ pc = "pack" /\ x < width /\ WriterBits[cb] < 8 /\ x' = x + 1
      /\ \/ c + 1 = 8 \div bits /\ row' = r1 /\ i' = i + Len(<<full>>) /\ a' = 0 /\ c' = 0
         \/ c + 1 # 8 \div bits /\ a' = full /\ c' = c + 1 /\ row' = row /\ i' = i
      /\ UNCHANGED <<picture, file, pc, y, prev>>
  BY Zenon DEF PackIndex, Put
<1>2. IsImage /\ WrittenRows(y) /\ Packing /\ pixels # <<>>
  BY <1>1 DEF EncoderInv
<1>3. Packed(y, x, i, a, c, row) /\ y \in Nat /\ y < height /\ Part(prev, 0)
  BY <1>1, <1>2 DEF Packing
<1>4. bits = Depth(cb) /\ bits \in Bits
  BY <1>1, <1>2, SmallFormat
<1>5. full = (a * 2^Depth(cb) + Pix(y, x)[1]) % 256
  BY <1>4 DEF Pix
<1> HIDE DEF full
<1>6. i \in 0..(WriterSize - 1) /\ DOMAIN row = 0..(WriterSize - 1) /\ WriterSize \in Nat
  <2>1. DOMAIN row = 0..(WriterSize - 1)
    BY <1>3 DEF Packed, Part
  <2>2. i \in 0..(WriterSize - 1) /\ WriterSize \in Nat
    BY <1>1, <1>2, <1>3, InRow
  <2> QED
    BY <2>1, <2>2
<1>7. Len(<<full>>) = 1 /\ \A k \in i..i : <<full>>[k - i + 1] = full
  BY <1>6
<1>8. DOMAIN r1 = DOMAIN row /\ r1[i] = full /\ \A k \in Nat : k < i => r1[k] = row[k]
  <2>1. DOMAIN r1 = DOMAIN row
    OBVIOUS
  <2>2. ASSUME NEW k \in Nat, k < i PROVE r1[k] = row[k]
    BY <1>6, <2>2
  <2>3. r1[i] = full
    BY <1>6, <1>7
  <2> QED
    BY <2>1, <2>2, <2>3
<1> HIDE DEF r1
<1>9. /\ c + 1 # 8 \div bits => Packed(y, x + 1, i, full, c + 1, row)
      /\ c + 1 = 8 \div bits => Packed(y, x + 1, i + 1, 0, 0, r1)
  BY <1>1, <1>2, <1>3, <1>4, <1>5, <1>8, PackOne
<1>10. Packed(y', x', i', a', c', row')
  <2>1. y' = y
    BY <1>1
  <2>2. CASE c + 1 = 8 \div bits
    BY <1>1, <1>7, <1>9, <2>1, <2>2
  <2>3. CASE c + 1 # 8 \div bits
    BY <1>1, <1>9, <2>1, <2>3
  <2> QED
    BY <2>2, <2>3
<1>11. Packed(y, x, i, a, c, row)'
  BY <1>1, <1>10, SamePicture
<1>12. IsImage' /\ WrittenRows(y)' /\ Part(prev, 0)' /\ UNCHANGED <<cb, height, pixels>>
  BY <1>1, <1>2, <1>3, SamePicture, SameRows DEF picture
<1> QED
  BY <1>1, <1>2, <1>3, <1>11, <1>12 DEF EncoderInv, Packing

\* A turn of the other loops: the bytes of a pixel are complete.
LEMMA PackSamplesStep == EncoderInv /\ PackSamples => EncoderInv'
<1> SUFFICES ASSUME EncoderInv, PackSamples PROVE EncoderInv'
  OBVIOUS
<1> DEFINE p == pixels[y * width + x]
           wide == cb \in {"cbG16", "cbTC16", "cbTCA16"}
           bytes == BytesOf(IF cb \in {"cbTC8", "cbTC16"} THEN SubSeq(p, 1, 3) ELSE p,
                            IF wide THEN 16 ELSE 8)
           r1 == [k \in DOMAIN row |-> IF k \in i..(i + Len(bytes) - 1)
                                       THEN bytes[k - i + 1] ELSE row[k]]
<1>1. /\ pc = "pack" /\ x < width /\ WriterBits[cb] >= 8 /\ x' = x + 1
      /\ row' = r1 /\ i' = i + Len(bytes)
      /\ UNCHANGED <<picture, file, pc, y, a, c, prev>>
  BY Zenon DEF PackSamples, Put
<1>2. IsImage /\ WrittenRows(y) /\ Packing /\ pixels # <<>>
  BY <1>1 DEF EncoderInv
<1>3. ~(WriterBits[cb] < 8) /\ Depth(cb) \in {8, 16}
  BY <1>1, <1>2, SmallFormat
<1>4. /\ PackedBytes(y, x, i, row) /\ a = 0 /\ c = 0
      /\ y \in Nat /\ y < height /\ Part(prev, 0) /\ x \in Nat
  BY <1>2, <1>3 DEF Packing, PackedBytes
<1>5. bytes = BytesOf(Kept(Pix(y, x)), Depth(cb))
  <2>1. p = Pix(y, x) /\ p \in Encodable(cb)
    <3>1. p = Pix(y, x)
      BY DEF Pix
    <3> QED
      BY <1>1, <1>2, <1>4, <3>1, PixelIs
  <2>2. (IF cb \in {"cbTC8", "cbTC16"} THEN SubSeq(p, 1, 3) ELSE p) = Kept(Pix(y, x))
    BY <1>2, <2>1, KeptIs
  <2>3. (IF wide THEN 16 ELSE 8) = Depth(cb)
    BY <1>2, <1>3, Formats DEF IsImage
  <2> QED
    BY <2>2, <2>3
<1> HIDE DEF bytes
<1>6. PackedBytes(y, x + 1, i + Len(bytes), r1)
  BY <1>1, <1>2, <1>4, <1>5, PackPixel
<1> HIDE DEF r1
<1>7. PackedBytes(y, x, i, row)'
  BY <1>1, <1>6, SamePicture
<1>8. IsImage' /\ WrittenRows(y)' /\ Part(prev, 0)' /\ UNCHANGED <<cb, height, pixels>>
  BY <1>1, <1>2, <1>4, SamePicture, SameRows DEF picture
<1> QED
  BY <1>1, <1>2, <1>3, <1>4, <1>7, <1>8 DEF EncoderInv, Packing

\* The end of a row
LEMMA RowComplete ==
  ASSUME EncoderInv, PackEnd
  PROVE  \E bytes : RowWritten(bytes) /\ Complete(y, bytes)
<1> DEFINE missing == (8 \div WriterBits[cb]) - c
           bytes == IF c # 0
                    THEN [row EXCEPT ![i] = (a * 2^(missing * WriterBits[cb])) % 256]
                    ELSE row
<1>1. pc = "pack" /\ x = width /\ RowWritten(bytes)
  BY Zenon DEF PackEnd
<1>2. IsImage /\ Packing
  BY <1>1 DEF EncoderInv
<1>3. CASE WriterBits[cb] < 8
  <2>1. Packed(y, width, i, a, c, row) /\ y \in Nat
    BY <1>1, <1>2, <1>3 DEF Packing
  <2>2. Complete(y, bytes)
    BY <1>2, <1>3, <2>1, PackLast
  <2> HIDE DEF bytes
  <2> QED
    BY <1>1, <2>2
<1>4. CASE ~(WriterBits[cb] < 8)
  <2>1. PackedBytes(y, width, i, row) /\ c = 0
    BY <1>1, <1>2, <1>4 DEF Packing
  <2>2. bytes = row
    BY <2>1
  <2>3. Unit \in Nat /\ WriterSize = width * Unit
    <3>1. WriterBits[cb] >= 8
      BY <1>2, <1>4, SmallFormat
    <3> QED
      BY <1>2, <3>1, WideFormat
  <2>4. i = WriterSize /\ Part(row, i) /\ Holds(row, y, width)
    BY <2>1, <2>3 DEF PackedBytes, Unit
  <2>5. Complete(y, bytes)
    BY <2>2, <2>4 DEF Complete
  <2> HIDE DEF bytes
  <2> QED
    BY <1>1, <2>5
<1> QED
  BY <1>3, <1>4

\* The next row begins with the buffer of the row before.
LEMMA FreshRow ==
  ASSUME IsImage, NEW l \in Nat, l < height, NEW r, Part(r, 0)
  PROVE  IF WriterBits[cb] < 8 THEN Packed(l, 0, 0, 0, 0, r) ELSE PackedBytes(l, 0, 0, r)
<1>1. width \in Nat
  BY DEF IsImage
<1>2. CASE WriterBits[cb] < 8
  <2> DEFINE d == Depth(cb)
             per == 8 \div d
  <2>1. d \in Bits
    BY <1>2, SmallFormat
  <2>2. per \in Nat /\ per > 1 /\ d \in Nat
    BY <2>1, BitsAre
  <2>3. d * 0 = 0
    BY <2>2
  <2>4. 2^(d * 0) = 1
    BY <2>3, PowerOne
  <2> HIDE DEF d, per
  <2>5. 0 * per = 0
    BY <2>2
  <2>6. \A n \in Nat : n < 0 => FALSE
    OBVIOUS
  <2>7. Packed(l, 0, 0, 0, 0, r)
    BY <1>1, <2>2, <2>4, <2>5, <2>6 DEF Packed, per, d
  <2> QED
    BY <1>2, <2>7
<1>3. CASE ~(WriterBits[cb] < 8)
  <2>1. Holds(r, l, 0)
    BY DEF Holds
  <2>2. 0 = 0 * Unit
    <3>1. WriterBits[cb] >= 8
      BY <1>3, SmallFormat
    <3>2. Unit \in Nat
      BY <3>1, WideFormat
    <3> QED
      BY <3>2
  <2>3. PackedBytes(l, 0, 0, r)
    BY <1>1, <2>1, <2>2 DEF PackedBytes, Unit
  <2> QED
    BY <1>3, <2>3
<1> QED
  BY <1>2, <1>3

\* The end of a row: all of it is written, and the row before is reused.
LEMMA PackEndStep == EncoderInv /\ PackEnd => EncoderInv'
<1> SUFFICES ASSUME EncoderInv, PackEnd PROVE EncoderInv'
  OBVIOUS
<1>1. PICK bytes : RowWritten(bytes) /\ Complete(y, bytes)
  BY RowComplete
<1>2. /\ pc = "pack" /\ file' = Append(file, [pass |-> 0, line |-> y, bytes |-> bytes])
      /\ row' = prev /\ prev' = bytes /\ y' = y + 1
      /\ pc' = IF y + 1 < height THEN "pack" ELSE "header"
      /\ x' = 0 /\ i' = 0 /\ a' = 0 /\ c' = 0
      /\ UNCHANGED picture
  BY <1>1 DEF RowWritten, PackEnd
<1>3. IsImage /\ WrittenRows(y) /\ Packing /\ pixels # <<>>
  BY <1>2 DEF EncoderInv
<1>4. y \in Nat /\ y < height /\ Part(prev, 0) /\ height \in Nat
  BY <1>3 DEF Packing, IsImage
<1>5. IsImage' /\ UNCHANGED <<cb, width, height, pixels>>
  BY <1>2, <1>3, SamePicture DEF picture
<1>6. WrittenRows(y)'
  <2> DEFINE last == [pass |-> 0, line |-> y, bytes |-> bytes]
  <2>1. PICK S : file \in Seq(S)
    BY <1>3 DEF WrittenRows, IsSequence
  <2>2. /\ file \in Seq(S \cup {last}) /\ Len(file) = y
        /\ \A r \in 1..y : file[r].pass = 0 /\ file[r].line = r - 1
                           /\ Complete(r - 1, file[r].bytes)
    BY <1>3, <2>1, WiderSeq DEF WrittenRows
  <2>3. last.pass = 0 /\ last.line = y /\ Complete(y, last.bytes)
    BY <1>1
  <2>4. file' = Append(file, last)
    BY <1>2
  <2> HIDE DEF last
  <2>5. /\ file' \in Seq(S \cup {last}) /\ Len(file') = y + 1 /\ file'[y + 1] = last
        /\ \A r \in 1..y : file'[r] = file[r]
    BY <2>2, <2>4
  <2>6. \A r \in 1..(y + 1) : file'[r].pass = 0 /\ file'[r].line = r - 1
                              /\ Complete(r - 1, file'[r].bytes)
    <3> SUFFICES ASSUME NEW r \in 1..(y + 1)
                 PROVE  file'[r].pass = 0 /\ file'[r].line = r - 1
                        /\ Complete(r - 1, file'[r].bytes)
      OBVIOUS
    <3>1. CASE r = y + 1
      BY <1>4, <2>3, <2>5, <3>1
    <3>2. CASE r # y + 1
      <4>1. r \in 1..y
        BY <1>4, <3>2
      <4> QED
        BY <2>2, <2>5, <4>1
    <3> QED
      BY <3>1, <3>2
  <2>7. \A l, r : Complete(l, r)' <=> Complete(l, r)
    BY <1>2, SamePicture
  <2> QED
    BY <1>2, <2>5, <2>6, <2>7 DEF WrittenRows, IsSequence
<1>7. Part(row, 0)' /\ Part(prev, 0)'
  <2>1. Part(bytes, 0)
    BY <1>1 DEF Complete, Part
  <2> QED
    BY <1>2, <1>4, <2>1, SamePicture
<1>8. CASE y + 1 < height
  <2>1. pc' = "pack" /\ y + 1 \in Nat /\ Part(row', 0)
    BY <1>2, <1>4, <1>8
  <2>2. IF WriterBits[cb] < 8 THEN Packed(y + 1, 0, 0, 0, 0, row')
        ELSE PackedBytes(y + 1, 0, 0, row')
    BY <1>3, <1>8, <2>1, FreshRow
  <2>3. IF WriterBits[cb] < 8 THEN Packed(y, x, i, a, c, row)'
        ELSE PackedBytes(y, x, i, row)'
    <3>1. CASE WriterBits[cb] < 8
      <4>1. Packed(y', x', i', a', c', row')
        BY <1>2, <2>2, <3>1
      <4> QED
        BY <1>2, <3>1, <4>1, SamePicture
    <3>2. CASE ~(WriterBits[cb] < 8)
      <4>1. PackedBytes(y', x', i', row')
        BY <1>2, <2>2, <3>2
      <4> QED
        BY <1>2, <3>2, <4>1, SamePicture
    <3> QED
      BY <3>1, <3>2
  <2> QED
    BY <1>2, <1>3, <1>4, <1>5, <1>6, <1>7, <1>8, <2>1, <2>3 DEF EncoderInv, Packing
<1>9. CASE ~(y + 1 < height)
  <2>1. pc' = "header" /\ y' = height'
    BY <1>2, <1>4, <1>5, <1>9
  <2> QED
    BY <1>5, <1>6, <2>1 DEF EncoderInv
<1> QED
  BY <1>8, <1>9

\* The rows in the making, in every step
LEMMA NextEncoder == EncoderInv /\ [Next]_vars => EncoderInv'
<1> SUFFICES ASSUME EncoderInv, [Next]_vars PROVE EncoderInv'
  OBVIOUS
<1>1. CASE PackIndex
  BY <1>1, PackIndexStep
<1>2. CASE PackSamples
  BY <1>2, PackSamplesStep
<1>3. CASE PackEnd
  BY <1>3, PackEndStep
<1>4. CASE ReadHeader \/ ReadRow \/ UnpackBits \/ UnpackBytes \/ UnpackEnd
             \/ ImageRead \/ mergePassInto
  <2>1. pc # "pack" /\ pc' # "pack" /\ UNCHANGED <<picture, file>>
    <3>1. CASE ReadHeader
      BY <3>1 DEF ReadHeader
    <3>2. CASE ReadRow
      BY <3>2 DEF ReadRow
    <3>3. CASE UnpackBits
      BY <3>3, Zenon DEF UnpackBits
    <3>4. CASE UnpackBytes
      BY <3>4, Zenon DEF UnpackBytes
    <3>5. CASE UnpackEnd
      BY <3>5 DEF UnpackEnd
    <3>6. CASE ImageRead
      BY <3>6 DEF ImageRead
    <3>7. CASE mergePassInto
      BY <3>7 DEF mergePassInto
    <3> QED
      BY <1>4, <3>1, <3>2, <3>3, <3>4, <3>5, <3>6, <3>7
  <2>2. UNCHANGED <<pixels, height>>
    BY <2>1 DEF picture
  <2> QED
    BY <2>1, <2>2, SamePicture, SameRows DEF EncoderInv
<1>5. CASE UNCHANGED vars
  <2>1. UNCHANGED <<picture, file, pc, y, x, i, a, c, row, prev>>
    BY <1>5 DEF vars, packing
  <2>2. UNCHANGED <<cb, pixels, height>>
    BY <2>1 DEF picture
  <2>3. Packing' <=> Packing
    <3>1. Packed(y, x, i, a, c, row)' <=> Packed(y, x, i, a, c, row)
      BY <2>1, SamePicture
    <3>2. PackedBytes(y, x, i, row)' <=> PackedBytes(y, x, i, row)
      BY <2>1, SamePicture
    <3>3. Part(prev, 0)' <=> Part(prev, 0)
      BY <2>1, SamePicture
    <3> QED
      BY <2>1, <2>2, <3>1, <3>2, <3>3 DEF Packing
  <2> QED
    BY <2>1, <2>2, <2>3, SamePicture, SameRows DEF EncoderInv
<1> QED
  BY <1>1, <1>2, <1>3, <1>4, <1>5 DEF Next

\* An encoded row holds its pixels and nothing of what the buffers held before.
LEMMA RowsHold == EncoderInv => RowIsPixels
<1> SUFFICES ASSUME EncoderInv, pixels # <<>>, NEW r \in DOMAIN file
             PROVE  LET bytes == file[r].bytes
                    IN  /\ \A k \in DOMAIN bytes : bytes[k] # Stale
                        /\ \A n \in 0..(width - 1) :
                             SamplesAt(bytes, cb, n)
                               = SubSeq(pixels[(r - 1) * width + n], 1, Channels(cb))
  BY DEF RowIsPixels
<1> DEFINE bytes == file[r].bytes
<1>1. IsImage /\ \E m \in Nat : m <= height /\ WrittenRows(m)
  BY DEF EncoderInv, Packing, IsImage
<1>2. PICK m \in Nat : m <= height /\ WrittenRows(m)
  BY <1>1
<1>3. r \in 1..m
  <2>1. DOMAIN file = 1..m
    BY <1>2, LenProperties DEF WrittenRows, IsSequence
  <2> QED
    BY <2>1
<1>4. Complete(r - 1, bytes) /\ r - 1 \in Nat /\ r - 1 < height /\ height \in Nat
  BY <1>1, <1>2, <1>3 DEF WrittenRows, IsImage
<1> HIDE DEF bytes
<1>5. \A k \in DOMAIN bytes : bytes[k] # Stale
  <2> SUFFICES ASSUME NEW k \in DOMAIN bytes PROVE bytes[k] # Stale
    OBVIOUS
  <2>1. WriterSize \in Nat
    <3>1. WriterBits[cb] \in Nat /\ width \in Nat
      BY <1>1, SmallFormat DEF IsImage
    <3>2. \A t \in Nat : (t + 7) \div 8 \in Nat
      OBVIOUS
    <3>3. WriterBits[cb] * width \in Nat
      BY <3>1
    <3> QED
      BY <3>2, <3>3 DEF WriterSize, RowBytes
  <2>2. k \in Nat /\ k < WriterSize
    BY <1>4, <2>1 DEF Complete, Part
  <2> QED
    BY <1>4, <2>2 DEF Complete, Part, IsByte, Stale
<1>6. ASSUME NEW n \in 0..(width - 1)
      PROVE  SamplesAt(bytes, cb, n) = SubSeq(pixels[(r - 1) * width + n], 1, Channels(cb))
  <2>1. n \in Nat /\ n < width
    BY <1>1 DEF IsImage
  <2>2. Pix(r - 1, n) \in Encodable(cb)
    BY <1>1, <1>4, <2>1, PixelIs
  <2>3. Kept(Pix(r - 1, n)) = [k \in 1..Channels(cb) |-> Pix(r - 1, n)[k]]
    BY <1>1, <2>2, KeptIs
  <2>4. SamplesAt(bytes, cb, n) = [k \in 1..Channels(cb) |-> Pix(r - 1, n)[k]]
    BY <1>4, <2>1 DEF Complete, Holds, SamplesAt
  <2> QED
    BY <2>3, <2>4 DEF Kept, Pix
<1> QED
  BY <1>5, <1>6 DEF bytes

\* An encoded row holds its pixels and nothing of what its buffer held before: the
\* loops of writeImage write every byte, also the last one of a width that does not
\* fill it (writer.go:427, 441).
THEOREM RowsArePixels == Spec => []RowIsPixels
<1> QED
  BY InitEncoder, NextEncoder, RowsHold, PTL DEF Spec

-----------------------------------------------------------------------------
(* The pixels of a pass, and of an image that is not interlaced, are a     *)
(* grid.                                                                   *)

Sized == width \in Nat \ {0} /\ height \in Nat \ {0} /\ interlaced \in BOOLEAN

PassSet == IF interlaced THEN Passes ELSE {0}

Wide(ps) == IF interlaced THEN passWidth(width, ps) ELSE width
High(ps) == IF interlaced THEN passHeight(height, ps) ELSE height

Col(ps, k) == IF interlaced THEN ColumnOf(ps, k) ELSE k
Lin(ps, l) == IF interlaced THEN LineOf(ps, l) ELSE l

\* A number is a multiple and a remainder, in one way, ...
LEMMA Multiples ==
  ASSUME NEW f \in Nat \ {0}, NEW o \in 0..(f - 1)
  PROVE  /\ \A k \in Nat : k * f + o \in Nat /\ o + k * f = k * f + o
         /\ \A k, m \in Nat : k < m => k * f + o < m * f + o
         /\ \A k \in Nat : (k * f + o) % f = o
         /\ \A n \in Nat : n % f = o => \E k \in Nat : n = k * f + o
<1>1. \A k \in Nat : k * f + o \in Nat /\ o + k * f = k * f + o
  OBVIOUS
<1>2. ASSUME NEW k \in Nat, NEW m \in Nat, k < m PROVE k * f + o < m * f + o
  <2>1. (k + 1) * f <= m * f
    BY <1>2, TimesMonotone
  <2>2. (k + 1) * f = k * f + f /\ k * f \in Nat /\ m * f \in Nat
    OBVIOUS
  <2> QED
    BY <2>1, <2>2
<1>3. \A k \in Nat : (k * f + o) % f = o
  BY RowMajor
<1>4. ASSUME NEW n \in Nat, n % f = o PROVE \E k \in Nat : n = k * f + o
  <2>1. n \div f \in Nat /\ n = f * (n \div f) + o
    BY <1>4
  <2>2. \A u \in Nat : f * u = u * f
    OBVIOUS
  <2> QED
    BY <2>1, <2>2
<1> QED
  BY <1>1, <1>2, <1>3, <1>4

\* ... so the numbers with a remainder are a grid.
LEMMA Residues ==
  ASSUME NEW f \in Nat \ {0}, NEW o \in 0..(f - 1), NEW n \in Nat
  PROVE  n % f = o <=> \E k \in Nat : n = k * f + o
<1>1. ASSUME NEW k \in Nat, n = k * f + o PROVE n % f = o
  <2>1. (k * f + o) % f = o
    BY Multiples
  <2> QED
    BY <1>1, <2>1
<1>2. ASSUME n % f = o PROVE \E k \in Nat : n = k * f + o
  BY <1>2, Multiples
<1> QED
  BY <1>1, <1>2

\* The grid has a size.
LEMMA GridBound ==
  ASSUME Sized, NEW ps \in PassSet
  PROVE  /\ Wide(ps) \in Nat /\ High(ps) \in Nat
         /\ \A k \in Nat : Col(ps, k) \in Nat /\ (Col(ps, k) < width <=> k < Wide(ps))
         /\ \A l \in Nat : Lin(ps, l) \in Nat /\ (Lin(ps, l) < height <=> l < High(ps))
<1>1. CASE interlaced
  <2> DEFINE p == interlacing[ps]
  <2>1. ps \in Passes /\ width \in Nat /\ height \in Nat
    BY <1>1 DEF PassSet, Sized
  <2>2. /\ p.xFactor \in Nat \ {0} /\ p.yFactor \in Nat \ {0}
        /\ p.xOffset \in 0..(p.xFactor - 1) /\ p.yOffset \in 0..(p.yFactor - 1)
    BY <2>1, Factors
  <2>3. /\ passWidth(width, ps) \in Nat
        /\ \A k \in Nat : k < passWidth(width, ps) <=> p.xOffset + k * p.xFactor < width
    BY <2>1, PassColumns
  <2>4. /\ passHeight(height, ps) \in Nat
        /\ \A l \in Nat : l < passHeight(height, ps) <=> p.yOffset + l * p.yFactor < height
    BY <2>1, PassColumns
  <2>5. \A k : Col(ps, k) = k * p.xFactor + p.xOffset
    BY <1>1 DEF Col, ColumnOf
  <2>6. \A l : Lin(ps, l) = l * p.yFactor + p.yOffset
    BY <1>1 DEF Lin, LineOf
  <2>7. Wide(ps) = passWidth(width, ps) /\ High(ps) = passHeight(height, ps)
    BY <1>1 DEF Wide, High
  <2>8. \A k \in Nat : k * p.xFactor + p.xOffset \in Nat
                       /\ p.xOffset + k * p.xFactor = k * p.xFactor + p.xOffset
    BY <2>2, Multiples
  <2>9. \A k \in Nat : k * p.yFactor + p.yOffset \in Nat
                       /\ p.yOffset + k * p.yFactor = k * p.yFactor + p.yOffset
    BY <2>2, Multiples
  <2> HIDE DEF p
  <2>10. \A k \in Nat : Col(ps, k) \in Nat /\ (Col(ps, k) < width <=> k < Wide(ps))
    BY <2>3, <2>5, <2>7, <2>8
  <2>11. \A l \in Nat : Lin(ps, l) \in Nat /\ (Lin(ps, l) < height <=> l < High(ps))
    BY <2>4, <2>6, <2>7, <2>9
  <2> QED
    BY <2>3, <2>4, <2>7, <2>10, <2>11
<1>2. CASE ~interlaced
  BY <1>2 DEF Sized, Wide, High, Col, Lin
<1> QED
  BY <1>1, <1>2

\* Its columns and its lines rise.
LEMMA GridRises ==
  ASSUME Sized, NEW ps \in PassSet, NEW k \in Nat, NEW m \in Nat, k < m
  PROVE  Col(ps, k) < Col(ps, m) /\ Lin(ps, k) < Lin(ps, m)
<1>1. CASE interlaced
  <2> DEFINE p == interlacing[ps]
  <2>1. /\ p.xFactor \in Nat \ {0} /\ p.yFactor \in Nat \ {0}
        /\ p.xOffset \in 0..(p.xFactor - 1) /\ p.yOffset \in 0..(p.yFactor - 1)
    BY <1>1, Factors DEF PassSet
  <2>2. k * p.xFactor + p.xOffset < m * p.xFactor + p.xOffset
    BY <2>1, Multiples
  <2>3. k * p.yFactor + p.yOffset < m * p.yFactor + p.yOffset
    BY <2>1, Multiples
  <2> QED
    BY <1>1, <2>2, <2>3 DEF Col, Lin, ColumnOf, LineOf
<1>2. CASE ~interlaced
  BY <1>2 DEF Col, Lin
<1> QED
  BY <1>1, <1>2

\* A pixel is in the pass by the pattern whose grid it is on, ...
LEMMA GridIsPass ==
  ASSUME Sized, NEW column \in Nat, NEW line \in Nat
  PROVE  /\ PassAt(column, line) \in PassSet
         /\ \A ps \in PassSet :
              PassAt(column, line) = ps
                <=> \E k, l \in Nat : column = Col(ps, k) /\ line = Lin(ps, l)
<1>1. CASE interlaced
  <2>1. PassOf(column, line) \in Passes
    <3>1. column % 8 \in 0..7 /\ line % 8 \in 0..7
      BY Remainders
    <3> QED
      BY <3>1, PatternIs DEF PassOf, Passes
  <2>2. ASSUME NEW ps \in Passes
        PROVE  PassOf(column, line) = ps
                 <=> \E k, l \in Nat : column = ColumnOf(ps, k) /\ line = LineOf(ps, l)
    <3> DEFINE p == interlacing[ps]
    <3>1. /\ p.xFactor \in Nat \ {0} /\ p.yFactor \in Nat \ {0}
          /\ p.xOffset \in 0..(p.xFactor - 1) /\ p.yOffset \in 0..(p.yFactor - 1)
      BY Factors
    <3>2. PassOf(column, line) = ps
            <=> column % p.xFactor = p.xOffset /\ line % p.yFactor = p.yOffset
      BY PassIsMember DEF Member
    <3> HIDE DEF p
    <3>3. column % p.xFactor = p.xOffset <=> \E k \in Nat : column = k * p.xFactor + p.xOffset
      BY <3>1, Residues
    <3>4. line % p.yFactor = p.yOffset <=> \E l \in Nat : line = l * p.yFactor + p.yOffset
      BY <3>1, Residues
    <3> QED
      BY <3>2, <3>3, <3>4 DEF ColumnOf, LineOf, p
  <2> QED
    BY <1>1, <2>1, <2>2 DEF PassAt, PassSet, Col, Lin
<1>2. CASE ~interlaced
  BY <1>2 DEF PassAt, PassSet, Col, Lin
<1> QED
  BY <1>1, <1>2 DEF Sized

\* ... and a point of a grid is in its pass.
LEMMA GridPoint ==
  ASSUME Sized, NEW ps \in PassSet, NEW k \in Nat, NEW l \in Nat
  PROVE  PassAt(Col(ps, k), Lin(ps, l)) = ps
<1>1. Col(ps, k) \in Nat /\ Lin(ps, l) \in Nat
  BY GridBound
<1> DEFINE column == Col(ps, k)
           line == Lin(ps, l)
<1>2. \E j, m \in Nat : column = Col(ps, j) /\ line = Lin(ps, m)
  OBVIOUS
<1>3. column \in Nat /\ line \in Nat
  BY <1>1
<1> HIDE DEF column, line
<1>4. PassAt(column, line) = ps
  <2>1. \A qs \in PassSet :
          PassAt(column, line) = qs
            <=> \E j, m \in Nat : column = Col(qs, j) /\ line = Lin(qs, m)
    BY <1>3, GridIsPass
  <2> QED
    BY <1>2, <2>1
<1> QED
  BY <1>4 DEF column, line

\* The lines of the file
LEMMA ScanlinesAre ==
  ASSUME Sized
  PROVE  /\ \A s \in Scanlines : \E ps \in PassSet, l \in Nat :
              s = <<ps, Lin(ps, l)>> /\ l < High(ps) /\ Wide(ps) # 0
         /\ \A ps \in PassSet, l \in Nat :
              l < High(ps) /\ Wide(ps) # 0 => <<ps, Lin(ps, l)>> \in Scanlines
<1>1. ASSUME NEW s \in Scanlines
      PROVE  \E ps \in PassSet, l \in Nat :
               s = <<ps, Lin(ps, l)>> /\ l < High(ps) /\ Wide(ps) # 0
  <2>1. PICK column \in 0..(width - 1), line \in 0..(height - 1) :
          s = <<PassAt(column, line), line>>
    BY DEF Scanlines
  <2> DEFINE ps == PassAt(column, line)
  <2>2. column \in Nat /\ line \in Nat /\ column < width /\ line < height
    BY DEF Sized
  <2>3. ps \in PassSet
    BY <2>2, GridIsPass
  <2>4. PICK k \in Nat, l \in Nat : column = Col(ps, k) /\ line = Lin(ps, l)
    BY <2>2, <2>3, GridIsPass
  <2> HIDE DEF ps
  <2>5. l < High(ps) /\ k < Wide(ps) /\ Wide(ps) \in Nat
    BY <2>2, <2>3, <2>4, GridBound
  <2> QED
    BY <2>1, <2>3, <2>4, <2>5 DEF ps
<1>2. ASSUME NEW ps \in PassSet, NEW l \in Nat, l < High(ps), Wide(ps) # 0
      PROVE  <<ps, Lin(ps, l)>> \in Scanlines
  <2>1. Wide(ps) \in Nat /\ 0 < Wide(ps)
    BY <1>2, GridBound
  <2>2. Col(ps, 0) \in Nat /\ Col(ps, 0) < width /\ Lin(ps, l) \in Nat /\ Lin(ps, l) < height
    BY <1>2, <2>1, GridBound
  <2>3. PassAt(Col(ps, 0), Lin(ps, l)) = ps
    BY <2>2, GridIsPass
  <2>4. Col(ps, 0) \in 0..(width - 1) /\ Lin(ps, l) \in 0..(height - 1)
    BY <2>2 DEF Sized
  <2> QED
    BY <2>3, <2>4 DEF Scanlines
<1> QED
  BY <1>1, <1>2

\* The columns of a line that a pass has are counted from the left.
LEMMA ColumnCount ==
  ASSUME Sized, NEW ps \in PassSet, NEW l \in Nat, NEW m \in Nat, NEW end \in Nat,
         \A k \in Nat : Col(ps, k) < end <=> k < m
  PROVE  Cardinality(ColumnsOf(ps, Lin(ps, l), end)) = m
<1> DEFINE S == 0..(m - 1)
           T == ColumnsOf(ps, Lin(ps, l), end)
           f == [k \in S |-> Col(ps, k)]
<1>1. IsFiniteSet(S) /\ Cardinality(S) = m
  BY FS_Interval
<1>2. Lin(ps, l) \in Nat /\ \A k \in Nat : Col(ps, k) \in Nat
  BY GridBound
<1>3. f \in [S -> T]
  <2> SUFFICES ASSUME NEW k \in S PROVE Col(ps, k) \in T
    OBVIOUS
  <2>1. k \in Nat /\ k < m
    OBVIOUS
  <2>2. Col(ps, k) \in 0..(end - 1)
    BY <1>2, <2>1
  <2>3. PassAt(Col(ps, k), Lin(ps, l)) = ps
    BY <2>1, GridPoint
  <2> QED
    BY <2>2, <2>3 DEF ColumnsOf
<1>4. \A j, k \in S : f[j] = f[k] => j = k
  <2> SUFFICES ASSUME NEW j \in S, NEW k \in S, Col(ps, j) = Col(ps, k) PROVE j = k
    OBVIOUS
  <2>1. j \in Nat /\ k \in Nat /\ Col(ps, j) \in Nat
    BY <1>2
  <2> QED
    BY <2>1, GridRises
<1>5. \A t \in T : \E k \in S : f[k] = t
  <2> SUFFICES ASSUME NEW t \in T PROVE \E k \in S : Col(ps, k) = t
    OBVIOUS
  <2>1. t \in Nat /\ t < end /\ PassAt(t, Lin(ps, l)) = ps
    BY DEF ColumnsOf
  <2>2. PICK k \in Nat : t = Col(ps, k)
    <3> DEFINE line == Lin(ps, l)
    <3>1. line \in Nat /\ PassAt(t, line) = ps
      BY <1>2, <2>1
    <3> HIDE DEF line
    <3> QED
      BY <2>1, <3>1, GridIsPass
  <2> QED
    BY <2>1, <2>2
<1>6. f \in Bijection(S, T)
  <2> HIDE DEF S, T, f
  <2> QED
    BY <1>3, <1>4, <1>5 DEF Bijection, Injection, Surjection, IsInjective
<1> QED
  BY <1>1, <1>6, FS_Bijection DEF ExistsBijection

-----------------------------------------------------------------------------
(* The rows of a file, this encoder's and another program's *)

Key(n) == <<file[n].pass, file[n].line>>

FileSize(ps) == RowBytes(Depth(cb) * Channels(cb), Wide(ps))

IsRow(ps, bytes) ==
  /\ DOMAIN bytes = 0..(FileSize(ps) - 1)
  /\ \A k \in Nat : k < FileSize(ps) => IsByte(bytes[k])

FileRows ==
  /\ IsSequence(file)
  /\ \A n \in DOMAIN file : Key(n) \in Scanlines
  /\ \A s \in Scanlines : \E n \in DOMAIN file : Key(n) = s
  /\ \A m, n \in DOMAIN file : m < n => Before(Key(m), Key(n))
  /\ \A n \in DOMAIN file : IsRow(file[n].pass, file[n].bytes)

\* What is said of the file depends on the picture and the file alone.
LEMMA SameFile ==
  ASSUME UNCHANGED <<picture, file>>
  PROVE  FileRows' <=> FileRows
<1>1. UNCHANGED <<cb, width, height, interlaced, file>>
  BY DEF picture
<1>2. Scanlines' = Scanlines
  BY <1>1 DEF Scanlines, PassAt
<1>3. \A n : Key(n)' = Key(n)
  BY <1>1 DEF Key
<1>4. \A ps, bytes : IsRow(ps, bytes)' <=> IsRow(ps, bytes)
  BY <1>1 DEF IsRow, FileSize, Wide
<1> QED
  BY <1>1, <1>2, <1>3, <1>4 DEF FileRows, IsSequence

\* The size of a row is a number.
LEMMA SizeIsNat ==
  ASSUME Sized, cb \in DOMAIN Parsed, NEW ps \in PassSet
  PROVE  FileSize(ps) \in Nat /\ Depth(cb) \in Nat /\ Channels(cb) \in Nat
<1>1. Depth(cb) \in Nat
  BY DEF Depth, Parsed
<1>2. Channels(cb) \in Nat
  BY DEF Channels, Parsed, ctGrayscale, ctPaletted, ctGrayscaleAlpha, ctTrueColor,
         ctTrueColorAlpha
<1>3. Wide(ps) \in Nat
  BY GridBound
<1> DEFINE m == Depth(cb) * Channels(cb)
<1>4. m \in Nat
  BY <1>1, <1>2
<1> HIDE DEF m
<1>5. m * Wide(ps) \in Nat
  BY <1>3, <1>4
<1>6. \A t \in Nat : (t + 7) \div 8 \in Nat
  OBVIOUS
<1> QED
  BY <1>1, <1>2, <1>5, <1>6 DEF FileSize, RowBytes, m

\* The rows that writeImage has written are a file.
LEMMA EncodedFile == Sized /\ IsImage /\ WrittenRows(height) => FileRows
<1> SUFFICES ASSUME Sized, IsImage, WrittenRows(height) PROVE FileRows
  OBVIOUS
<1>1. cb \in DOMAIN Written /\ interlaced = FALSE /\ height \in Nat /\ width \in Nat \ {0}
  BY DEF IsImage
<1>2. IsSequence(file) /\ DOMAIN file = 1..height
  BY <1>1, LenProperties DEF WrittenRows, IsSequence
<1>3. \A n \in 1..height : Key(n) = <<0, n - 1>> /\ Complete(n - 1, file[n].bytes)
  BY DEF WrittenRows, Key
<1>4. PassSet = {0} /\ Wide(0) = width /\ High(0) = height /\ \A l : Lin(0, l) = l
  BY <1>1 DEF PassSet, Wide, High, Lin
<1>5. \A n \in DOMAIN file : Key(n) \in Scanlines
  <2> SUFFICES ASSUME NEW n \in 1..height PROVE <<0, n - 1>> \in Scanlines
    BY <1>2, <1>3
  <2>1. n - 1 \in Nat /\ n - 1 < High(0) /\ Wide(0) # 0 /\ Lin(0, n - 1) = n - 1
    BY <1>1, <1>4
  <2>2. <<0, Lin(0, n - 1)>> \in Scanlines
    BY <1>4, <2>1, ScanlinesAre
  <2> QED
    BY <2>1, <2>2
<1>6. \A s \in Scanlines : \E n \in DOMAIN file : Key(n) = s
  <2> SUFFICES ASSUME NEW s \in Scanlines PROVE \E n \in 1..height : Key(n) = s
    BY <1>2
  <2>1. PICK l \in Nat : s = <<0, l>> /\ l < height
    BY <1>4, ScanlinesAre
  <2>2. l + 1 \in 1..height /\ (l + 1) - 1 = l
    BY <1>1, <2>1
  <2> QED
    BY <1>3, <2>1, <2>2
<1>7. \A m, n \in DOMAIN file : m < n => Before(Key(m), Key(n))
  <2> SUFFICES ASSUME NEW m \in 1..height, NEW n \in 1..height, m < n
               PROVE  Before(<<0, m - 1>>, <<0, n - 1>>)
    BY <1>2, <1>3
  <2> QED
    BY DEF Before
<1>8. \A n \in DOMAIN file : IsRow(file[n].pass, file[n].bytes)
  <2>1. FileSize(0) = WriterSize
    BY <1>1, <1>4, Formats DEF FileSize, WriterSize
  <2> SUFFICES ASSUME NEW n \in 1..height PROVE IsRow(0, file[n].bytes)
    BY <1>2 DEF WrittenRows
  <2> QED
    BY <1>3, <2>1 DEF Complete, Part, IsRow
<1> QED
  BY <1>2, <1>5, <1>6, <1>7, <1>8 DEF FileRows

\* Rows in the order of their passes and lines: each has its place.
LEMMA Places ==
  ASSUME Sized
  PROVE  LET lines == Scanlines
             place == Place(lines)
         IN  /\ Cardinality(lines) \in Nat
             /\ \A n \in 1..Cardinality(lines) : \E s \in lines : place[s] = n
             /\ \A s \in lines : place[s] \in 1..Cardinality(lines)
             /\ \A s, t \in lines : place[s] < place[t] => Before(s, t)
             /\ \A s, t \in lines : place[s] = place[t] => s = t
<1> DEFINE lines == Scanlines
           place == Place(lines)
           before(s) == {t \in lines : Before(t, s)}
<1>1. lines \subseteq (0..7) \X (0..(height - 1))
  <2> SUFFICES ASSUME NEW s \in lines PROVE s \in (0..7) \X (0..(height - 1))
    OBVIOUS
  <2>1. PICK column \in 0..(width - 1), line \in 0..(height - 1) :
          s = <<PassAt(column, line), line>>
    BY DEF Scanlines
  <2>2. PassAt(column, line) \in PassSet
    BY GridIsPass DEF Sized
  <2> QED
    BY <2>1, <2>2 DEF PassSet, Passes
<1>2. IsFiniteSet(lines)
  <2>1. IsFiniteSet(0..7) /\ IsFiniteSet(0..(height - 1))
    <3>1. 0 \in Int /\ 7 \in Int /\ height - 1 \in Int
      BY DEF Sized
    <3> QED
      BY <3>1, FS_Interval
  <2>2. IsFiniteSet((0..7) \X (0..(height - 1)))
    BY <2>1, FS_Product
  <2> QED
    BY <1>1, <2>2, FS_Subset
<1> HIDE DEF lines
<1>3. Cardinality(lines) \in Nat
  BY <1>2, FS_CardinalityType
<1>4. \A s \in lines : s[1] \in Nat /\ s[2] \in Nat /\ s = <<s[1], s[2]>>
  BY <1>1
<1>5. ASSUME NEW s \in lines
      PROVE  /\ IsFiniteSet(before(s)) /\ Cardinality(before(s)) \in Nat
             /\ Cardinality(before(s)) + 1 <= Cardinality(lines)
             /\ IsFiniteSet(before(s) \cup {s})
             /\ Cardinality(before(s) \cup {s}) = Cardinality(before(s)) + 1
  <2>1. IsFiniteSet(before(s)) /\ Cardinality(before(s)) \in Nat
    BY <1>2, FS_Subset, FS_CardinalityType
  <2>2. s \notin before(s)
    BY <1>4 DEF Before
  <2>3. IsFiniteSet(before(s) \cup {s}) /\ Cardinality(before(s) \cup {s}) = Cardinality(before(s)) + 1
    BY <2>1, <2>2, FS_AddElement
  <2>4. before(s) \cup {s} \subseteq lines
    OBVIOUS
  <2>5. Cardinality(before(s) \cup {s}) <= Cardinality(lines)
    BY <1>2, <2>4, FS_Subset
  <2> QED
    BY <2>1, <2>3, <2>5
<1>6. \A s \in lines : place[s] = Cardinality(before(s)) + 1
  BY DEF Place
<1>7. \A s \in lines : place[s] \in 1..Cardinality(lines)
  <2> SUFFICES ASSUME NEW s \in lines PROVE place[s] \in 1..Cardinality(lines)
    OBVIOUS
  <2>1. Cardinality(before(s)) \in Nat /\ Cardinality(before(s)) + 1 <= Cardinality(lines)
    BY <1>5
  <2>2. place[s] = Cardinality(before(s)) + 1
    BY <1>6
  <2> HIDE DEF place, before
  <2> QED
    BY <1>3, <2>1, <2>2
<1>8. ASSUME NEW s \in lines, NEW t \in lines, Before(s, t) PROVE place[s] < place[t]
  <2>1. before(s) \cup {s} \subseteq before(t)
    <3> SUFFICES ASSUME NEW u \in lines, Before(u, s) PROVE Before(u, t)
      BY <1>8
    <3> QED
      BY <1>4, <1>8 DEF Before
  <2>2. Cardinality(before(s)) + 1 <= Cardinality(before(t))
    <3>1. IsFiniteSet(before(t))
      BY <1>5
    <3>2. Cardinality(before(s) \cup {s}) <= Cardinality(before(t))
      BY <2>1, <3>1, FS_Subset
    <3> QED
      BY <1>5, <3>2
  <2>3. /\ place[s] = Cardinality(before(s)) + 1 /\ place[t] = Cardinality(before(t)) + 1
        /\ Cardinality(before(s)) \in Nat /\ Cardinality(before(t)) \in Nat
    BY <1>5, <1>6
  <2> HIDE DEF place, before
  <2> QED
    BY <2>2, <2>3
<1>9. \A s, t \in lines : s = t \/ Before(s, t) \/ Before(t, s)
  BY <1>4 DEF Before
<1>10. \A s, t \in lines : place[s] = place[t] => s = t
  BY <1>7, <1>8, <1>9
<1>11. \A s, t \in lines : place[s] < place[t] => Before(s, t)
  BY <1>7, <1>8, <1>9
<1>12. \A n \in 1..Cardinality(lines) : \E s \in lines : place[s] = n
  <2> DEFINE T == 1..Cardinality(lines)
  <2>1. place \in [lines -> T]
    <3>1. place = [s \in lines |-> place[s]]
      BY DEF Place
    <3> QED
      BY <1>7, <3>1
  <2>2. IsFiniteSet(T) /\ Cardinality(T) = Cardinality(lines)
    BY <1>3, FS_Interval
  <2> HIDE DEF place, T
  <2>3. place \in Injection(lines, T)
    BY <1>10, <2>1 DEF Injection, IsInjective
  <2>4. place \in Surjection(lines, T)
    BY <2>2, <2>3, FS_Injection
  <2> QED
    BY <2>4 DEF Surjection, T
<1> QED
  BY <1>3, <1>7, <1>10, <1>11, <1>12 DEF lines

\* So are those of another program.
LEMMA ForeignFile == InitForeign => FileRows
<1> SUFFICES ASSUME InitForeign PROVE FileRows
  OBVIOUS
<1>1. Sized
  <2>1. interlaced \in BOOLEAN
    BY DEF InitForeign
  <2>2. PICK size \in Plain \cup Interlaced : width = size[1] /\ height = size[2]
    BY DEF InitForeign
  <2> QED
    BY <2>1, <2>2, SizeAssumption DEF Sized
<1>2. cb \in DOMAIN Parsed
  BY DEF InitForeign
<1>3. PICK seed \in Seeds : file = Foreign(seed)
  BY DEF InitForeign
<1>4. \A n \in DOMAIN file : \A k \in DOMAIN file[n].bytes : file[n].bytes[k] \in 0..255
  BY DEF InitForeign
<1> DEFINE lines == Scanlines
           place == Place(lines)
           row0(n) == CHOOSE s \in lines : place[s] = n
           bits(s) == Cardinality(ColumnsOf(s[1], s[2], width)) * Channels(cb) * Depth(cb)
           bytes(s) == [k \in 0..(((bits(s) + 7) \div 8) - 1) |-> Byte(seed, s[1], s[2], k)]
           last == Cardinality(lines)
<1>5. file = [n \in 1..last |->
                [pass |-> row0(n)[1], line |-> row0(n)[2], bytes |-> bytes(row0(n))]]
  BY <1>3, Zenon DEF Foreign
<1>6. /\ last \in Nat
      /\ \A n \in 1..last : row0(n) \in lines /\ place[row0(n)] = n
      /\ \A s \in lines : place[s] \in 1..last
      /\ \A s, t \in lines : place[s] < place[t] => Before(s, t)
      /\ \A s, t \in lines : place[s] = place[t] => s = t
  BY <1>1, Places
<1>7. \A s \in lines : \E ps \in PassSet, l \in Nat :
        s = <<ps, Lin(ps, l)>> /\ l < High(ps) /\ Wide(ps) # 0
  BY <1>1, ScanlinesAre
<1> HIDE DEF lines, place, last
<1>8. DOMAIN file = 1..last
  <2> HIDE DEF bytes, row0
  <2> QED
    BY <1>5
<1>9. ASSUME NEW n \in 1..last
      PROVE  /\ file[n].pass = row0(n)[1] /\ file[n].line = row0(n)[2]
             /\ file[n].bytes = bytes(row0(n))
             /\ Key(n) = row0(n)
  <2>1. file[n].pass = row0(n)[1] /\ file[n].line = row0(n)[2] /\ file[n].bytes = bytes(row0(n))
    <3> HIDE DEF bytes, row0
    <3> QED
      BY <1>5
  <2>2. row0(n) = <<row0(n)[1], row0(n)[2]>>
    <3>1. row0(n) \in lines
      BY <1>6
    <3>2. \A s \in lines : s = <<s[1], s[2]>>
      BY <1>7
    <3> HIDE DEF row0
    <3> QED
      BY <3>1, <3>2
  <2> HIDE DEF bytes, row0
  <2> QED
    BY <2>1, <2>2 DEF Key
<1>10. IsSequence(file)
  <2> DEFINE T == {file[n] : n \in 1..last}
  <2>1. file \in [1..last -> T]
    <3>1. file = [n \in 1..last |-> file[n]]
      <4> HIDE DEF bytes, row0
      <4> QED
        BY <1>5
    <3> DEFINE g == file
    <3> HIDE DEF row0, bytes
    <3>2. \A n \in 1..last : file[n] \in T
      OBVIOUS
    <3> HIDE DEF T
    <3> QED
      BY <3>1, <3>2
  <2> HIDE DEF T
  <2>2. file \in Seq(T)
    BY <1>6, <2>1, FunctionIsSeq
  <2> QED
    BY <2>2 DEF IsSequence
<1>11. \A n \in DOMAIN file : Key(n) \in Scanlines
  <2>1. \A n \in 1..last : row0(n) \in lines /\ Key(n) = row0(n)
    BY <1>6, <1>9
  <2> HIDE DEF row0
  <2> QED
    BY <1>8, <2>1 DEF lines
<1>12. \A s \in Scanlines : \E n \in DOMAIN file : Key(n) = s
  <2> SUFFICES ASSUME NEW s \in lines PROVE \E n \in 1..last : Key(n) = s
    BY <1>8 DEF lines
  <2>1. place[s] \in 1..last
    BY <1>6
  <2>2. row0(place[s]) \in lines /\ place[row0(place[s])] = place[s]
    BY <1>6, <2>1
  <2> HIDE DEF row0
  <2>3. row0(place[s]) = s
    BY <1>6, <2>2
  <2> QED
    BY <1>9, <2>1, <2>3
<1>13. \A m, n \in DOMAIN file : m < n => Before(Key(m), Key(n))
  <2> SUFFICES ASSUME NEW m \in 1..last, NEW n \in 1..last, m < n
               PROVE  Before(Key(m), Key(n))
    BY <1>8
  <2>1. /\ row0(m) \in lines /\ place[row0(m)] = m
        /\ row0(n) \in lines /\ place[row0(n)] = n
    BY <1>6
  <2> HIDE DEF row0, bytes
  <2>2. Before(row0(m), row0(n))
    BY <1>6, <2>1
  <2> QED
    BY <1>9, <2>2
<1>14. \A n \in DOMAIN file : IsRow(file[n].pass, file[n].bytes)
  <2> SUFFICES ASSUME NEW n \in 1..last PROVE IsRow(file[n].pass, file[n].bytes)
    BY <1>8
  <2> DEFINE s == row0(n)
  <2>1. s \in lines
    BY <1>6
  <2>2. PICK ps \in PassSet, l \in Nat : s = <<ps, Lin(ps, l)>>
    BY <1>7, <2>1
  <2>3. file[n].pass = s[1] /\ file[n].bytes = bytes(s)
    BY <1>9
  <2> HIDE DEF s, row0
  <2>4. s[1] = ps /\ s[2] = Lin(ps, l) /\ ps \in Nat /\ Lin(ps, l) \in Nat
    <3>1. ps \in Nat
      BY DEF PassSet, Passes
    <3> QED
      BY <1>1, <2>2, <3>1, GridBound
  <2>5. Cardinality(ColumnsOf(ps, Lin(ps, l), width)) = Wide(ps)
    <3>1. /\ Wide(ps) \in Nat /\ width \in Nat
          /\ \A k \in Nat : Col(ps, k) < width <=> k < Wide(ps)
      BY <1>1, GridBound DEF Sized
    <3> QED
      BY <1>1, <3>1, ColumnCount
  <2>6. (bits(s) + 7) \div 8 = FileSize(ps)
    <3>1. bits(s) = Wide(ps) * Channels(cb) * Depth(cb)
      BY <2>4, <2>5
    <3>2. Wide(ps) \in Nat /\ Channels(cb) \in Nat /\ Depth(cb) \in Nat
      BY <1>1, <1>2, SizeIsNat, GridBound
    <3> HIDE DEF bits
    <3>3. \A u, v, w \in Nat : u * v * w = w * v * u
      OBVIOUS
    <3>4. bits(s) = Depth(cb) * Channels(cb) * Wide(ps)
      BY <3>1, <3>2, <3>3
    <3> QED
      BY <3>4 DEF FileSize, RowBytes
  <2>7. FileSize(ps) \in Nat
    BY <1>1, <1>2, SizeIsNat
  <2>8. DOMAIN bytes(s) = 0..(FileSize(ps) - 1)
    <3>1. DOMAIN bytes(s) = 0..(((bits(s) + 7) \div 8) - 1)
      OBVIOUS
    <3> HIDE DEF bits, bytes
    <3> QED
      BY <2>6, <3>1
  <2> HIDE DEF bytes
  <2>9. ASSUME NEW k \in Nat, k < FileSize(ps) PROVE IsByte(bytes(s)[k])
    <3>1. k \in DOMAIN bytes(s)
      BY <2>7, <2>8, <2>9
    <3>2. bytes(s)[k] \in 0..255
      BY <1>4, <1>8, <2>3, <3>1
    <3> QED
      BY <3>2 DEF IsByte
  <2> QED
    BY <2>3, <2>4, <2>8, <2>9 DEF IsRow
<1> QED
  BY <1>10, <1>11, <1>12, <1>13, <1>14 DEF FileRows

-----------------------------------------------------------------------------
(* decode: the header, and the rows in their order *)

\* The tables of reader.go agree with one another and with the standard.
LEMMA ReadFormats ==
  ASSUME NEW f \in DOMAIN Parsed
  PROVE  /\ ReaderBits(f, Parsed[f][1]) = Depth(f) * Channels(f)
         /\ Depth(f) \in {1, 2, 4, 8, 16} /\ Channels(f) \in {1, 2, 3, 4}
         /\ f \in {"cbG1", "cbG2", "cbG4", "cbP1", "cbP2", "cbP4"} <=> Depth(f) \in Bits
         /\ Depth(f) \in Bits => Channels(f) = 1
<1>1. f \in {"cbG1", "cbP1", "cbG2", "cbP2", "cbG4", "cbP4", "cbG8", "cbP8", "cbTC8",
             "cbTCA8", "cbGA8", "cbGA16", "cbG16", "cbTC16", "cbTCA16"}
  BY DEF Parsed
<1> USE DEF Parsed, ReaderBits, Depth, Channels, ctGrayscale, ctTrueColor,
            ctPaletted, ctTrueColorAlpha, ctGrayscaleAlpha, Bits
<1>2. CASE f \in {"cbG1", "cbP1"}
  BY <1>2
<1>3. CASE f \in {"cbG2", "cbP2"}
  BY <1>3
<1>4. CASE f \in {"cbG4", "cbP4"}
  BY <1>4
<1>5. CASE f \in {"cbG8", "cbP8"}
  BY <1>5
<1>6. CASE f = "cbTC8"
  BY <1>6
<1>7. CASE f = "cbTCA8"
  BY <1>7
<1>8. CASE f = "cbGA8"
  BY <1>8
<1>9. CASE f = "cbGA16"
  BY <1>9
<1>10. CASE f = "cbG16"
  BY <1>10
<1>11. CASE f = "cbTC16"
  BY <1>11
<1>12. CASE f = "cbTCA16"
  BY <1>12
<1> QED
  BY <1>1, <1>2, <1>3, <1>4, <1>5, <1>6, <1>7, <1>8, <1>9, <1>10, <1>11, <1>12

\* The header tells the formats apart.
LEMMA ParsedInjective ==
  ASSUME NEW f \in DOMAIN Parsed, NEW g \in DOMAIN Parsed, Parsed[f] = Parsed[g]
  PROVE  f = g
BY DEF Parsed, ctGrayscale, ctTrueColor, ctPaletted, ctTrueColorAlpha, ctGrayscaleAlpha

Chosen == IF trns = <<>> THEN <<>> ELSE Scaled(cb, BytesOf(trns, 16))

FormatInv ==
  /\ cb \in DOMAIN Parsed
  /\ pixels = <<>> => FileRows
  /\ pc \in {"row", "unpack", "done"} => dcb = cb /\ transparent = Chosen

\* At the start nothing has been read.
LEMMA InitFormat == Init => FormatInv
<1> SUFFICES ASSUME Init PROVE FormatInv
  OBVIOUS
<1>1. CASE InitForeign
  BY <1>1, ForeignFile DEF InitForeign, FormatInv
<1>2. CASE InitEncode
  <2>1. cb \in DOMAIN Written /\ pc = "pack"
    BY <1>2 DEF InitEncode
  <2>2. pixels # <<>>
    BY <2>1, InitEncoder DEF EncoderInv
  <2>3. cb \in DOMAIN Parsed
    BY <2>1, Formats
  <2> QED
    BY <2>1, <2>2, <2>3 DEF FormatInv
<1> QED
  BY <1>1, <1>2 DEF Init

\* The rows are in the file when it is read.
LEMMA FileIsRead ==
  ASSUME ImageInv, EncoderInv, FormatInv, pc # "pack"
  PROVE  FileRows /\ Header = Parsed[cb] /\ Sized
<1>1. Sized
  BY DEF ImageInv, Sized
<1>2. CASE pixels = <<>>
  BY <1>1, <1>2 DEF FormatInv, Header
<1>3. CASE pixels # <<>>
  <2>1. IsImage /\ WrittenRows(height)
    BY <1>3 DEF EncoderInv
  <2>2. FileRows
    BY <1>1, <2>1, EncodedFile
  <2>3. Written[cb] = Parsed[cb]
    BY <2>1, Formats DEF IsImage
  <2> QED
    BY <1>1, <1>3, <2>2, <2>3 DEF Header
<1> QED
  BY <1>2, <1>3

\* decode finds the cb that the file was made with, and the transparent color.
LEMMA NextFormat ==
  ASSUME ImageInv, EncoderInv, FormatInv, [Next]_vars
  PROVE  FormatInv'
<1>1. CASE PackIndex \/ PackSamples \/ PackEnd
  <2>1. pixels # <<>> /\ UNCHANGED <<cb, pixels>> /\ pc' \in {"pack", "header"}
    BY <1>1 DEF PackIndex, PackSamples, PackEnd, RowWritten, picture, EncoderInv
  <2> QED
    BY <2>1 DEF FormatInv
<1>2. CASE ReadHeader
  <2>1. /\ pc = "header" /\ pc' = "row" /\ UNCHANGED <<picture, file>>
        /\ dcb' = CHOOSE f \in DOMAIN Parsed : Parsed[f] = Header
        /\ transparent' = IF trns = <<>> THEN <<>> ELSE Scaled(dcb', BytesOf(trns, 16))
    BY <1>2 DEF ReadHeader
  <2>2. Header = Parsed[cb] /\ cb \in DOMAIN Parsed
    BY <2>1, FileIsRead DEF FormatInv
  <2>3. dcb' \in DOMAIN Parsed /\ Parsed[dcb'] = Parsed[cb]
    BY <2>1, <2>2
  <2>4. dcb' = cb
    BY <2>2, <2>3, ParsedInjective
  <2>5. UNCHANGED <<cb, pixels, trns>>
    BY <2>1 DEF picture
  <2>6. transparent' = Chosen /\ Chosen' = Chosen
    BY <2>1, <2>4, <2>5 DEF Chosen
  <2> QED
    BY <2>1, <2>2, <2>4, <2>5, <2>6, SameFile DEF FormatInv
<1>3. CASE ReadRow \/ UnpackBits \/ UnpackBytes \/ UnpackEnd \/ ImageRead \/ mergePassInto
           \/ UNCHANGED vars
  <2>1. UNCHANGED <<picture, file, dcb, transparent>>
        /\ (pc' = pc \/ pc \in {"row", "unpack", "done"})
    <3>1. CASE ReadRow
      BY <3>1 DEF ReadRow, header
    <3>2. CASE UnpackBits
      BY <3>2, Zenon DEF UnpackBits, header
    <3>3. CASE UnpackBytes
      BY <3>3, Zenon DEF UnpackBytes, header
    <3>4. CASE UnpackEnd
      BY <3>4 DEF UnpackEnd, header
    <3>5. CASE ImageRead
      BY <3>5 DEF ImageRead, header
    <3>6. CASE mergePassInto
      BY <3>6 DEF mergePassInto, header
    <3>7. CASE UNCHANGED vars
      BY <3>7 DEF vars, header
    <3> QED
      BY <1>3, <3>1, <3>2, <3>3, <3>4, <3>5, <3>6, <3>7
  <2>2. UNCHANGED <<cb, pixels, trns, Chosen>>
    BY <2>1 DEF picture, Chosen
  <2> QED
    BY <2>1, <2>2, SameFile DEF FormatInv
<1> QED
  BY <1>1, <1>2, <1>3 DEF Next

\* The rows before line l of a pass
Gone(n, ps, l) == file[n].pass < ps \/ (file[n].pass = ps /\ file[n].line < Lin(ps, l))

\* A row of the file is a line of a pass, and the rows before it are those before.
LEMMA RowInPass ==
  ASSUME Sized, FileRows, NEW n \in DOMAIN file
  PROVE  \E ps \in PassSet, l \in Nat :
           /\ Key(n) = <<ps, Lin(ps, l)>> /\ l < High(ps) /\ Wide(ps) # 0
           /\ file[n].pass = ps /\ file[n].line = Lin(ps, l)
           /\ \A qs \in PassSet, m \in Nat : Gone(n, qs, m) <=> ps < qs \/ (ps = qs /\ l < m)
<1>1. Key(n) \in Scanlines
  BY DEF FileRows
<1>2. PICK ps \in PassSet, l \in Nat :
        Key(n) = <<ps, Lin(ps, l)>> /\ l < High(ps) /\ Wide(ps) # 0
  BY <1>1, ScanlinesAre
<1>3. file[n].pass = ps /\ file[n].line = Lin(ps, l)
  BY <1>2 DEF Key
<1>4. ASSUME NEW m \in Nat PROVE Lin(ps, l) < Lin(ps, m) <=> l < m
  <2>1. Lin(ps, l) \in Nat /\ Lin(ps, m) \in Nat
    BY GridBound
  <2>2. l < m => Lin(ps, l) < Lin(ps, m)
    BY GridRises
  <2>3. m < l => Lin(ps, m) < Lin(ps, l)
    BY GridRises
  <2>4. m < l \/ m = l \/ l < m
    OBVIOUS
  <2> QED
    BY <2>1, <2>2, <2>3, <2>4
<1>5. \A qs \in PassSet, m \in Nat : Gone(n, qs, m) <=> ps < qs \/ (ps = qs /\ l < m)
  BY <1>3, <1>4 DEF Gone
<1> QED
  BY <1>2, <1>3, <1>5

OrderInv ==
  /\ pc \in {"pack", "header"} => at = 0
  /\ Reading =>
       /\ pass \in PassSet /\ y \in Nat /\ y <= High(pass) /\ at \in 0..Len(file)
       /\ \A n \in DOMAIN file : n <= at <=> Gone(n, pass, IF pc = "unpack" THEN y + 1 ELSE y)
  /\ pc = "unpack" =>
       /\ y < High(pass) /\ Wide(pass) # 0 /\ at \in DOMAIN file
       /\ Key(at) = <<pass, Lin(pass, y)>> /\ cdat = file[at].bytes
  /\ pc = "done" => at = Len(file)

\* The rows are numbered.
LEMMA FileDomain ==
  ASSUME IsSequence(file)
  PROVE  Len(file) \in Nat /\ DOMAIN file = 1..Len(file)
BY LenProperties DEF IsSequence

\* The row that is read next is the one the reader expects.
LEMMA NextRow ==
  ASSUME ImageInv, EncoderInv, FormatInv, OrderInv, pc = "row", MoreRows
  PROVE  /\ at + 1 \in DOMAIN file /\ at < Len(file) /\ y < High(pass) /\ Wide(pass) # 0
         /\ Key(at + 1) = <<pass, Lin(pass, y)>>
         /\ \A n \in DOMAIN file : n <= at + 1 <=> Gone(n, pass, y + 1)
<1>1. FileRows /\ Sized
  BY FileIsRead
<1>2. /\ pass \in PassSet /\ y \in Nat /\ y < High(pass) /\ Wide(pass) # 0
      /\ at \in 0..Len(file)
      /\ \A n \in DOMAIN file : n <= at <=> Gone(n, pass, y)
  BY DEF OrderInv, Reading, MoreRows, PassWidth, PassHeight, Wide, High
<1>3. Len(file) \in Nat /\ DOMAIN file = 1..Len(file)
  BY <1>1, FileDomain DEF FileRows
<1>4. PICK n \in DOMAIN file : Key(n) = <<pass, Lin(pass, y)>>
  <2>1. <<pass, Lin(pass, y)>> \in Scanlines
    BY <1>1, <1>2, ScanlinesAre
  <2> QED
    BY <1>1, <2>1 DEF FileRows
<1>5. Lin(pass, y) \in Nat /\ pass \in Nat
  <2>1. Lin(pass, y) \in Nat
    BY <1>1, <1>2, GridBound
  <2> QED
    BY <1>2, <2>1 DEF PassSet, Passes
<1>6. ~(n <= at)
  BY <1>2, <1>4, <1>5 DEF Gone, Key
<1>7. at + 1 \in DOMAIN file /\ at < Len(file) /\ at + 1 <= n /\ n \in Nat
  BY <1>2, <1>3, <1>4, <1>6
<1>8. n = at + 1
  <2> SUFFICES ASSUME at + 1 < n PROVE FALSE
    BY <1>2, <1>7
  <2>1. Before(Key(at + 1), <<pass, Lin(pass, y)>>)
    BY <1>1, <1>4, <1>7 DEF FileRows
  <2>2. Gone(at + 1, pass, y)
    BY <2>1 DEF Gone, Key, Before
  <2> QED
    BY <1>2, <1>7, <2>2
<1>9. ASSUME NEW k \in DOMAIN file PROVE k <= at + 1 <=> Gone(k, pass, y + 1)
  <2>1. PICK ps \in PassSet, l \in Nat :
          /\ Key(k) = <<ps, Lin(ps, l)>>
          /\ \A qs \in PassSet, m \in Nat : Gone(k, qs, m) <=> ps < qs \/ (ps = qs /\ l < m)
    BY <1>1, RowInPass
  <2>2. Gone(k, pass, y) <=> ps < pass \/ (ps = pass /\ l < y)
    BY <1>2, <2>1
  <2>3. Gone(k, pass, y + 1) <=> ps < pass \/ (ps = pass /\ l < y + 1)
    BY <1>2, <2>1
  <2>4. k \in Nat
    BY <1>3
  <2>5. CASE k = at + 1
    <3>1. Key(k) = <<pass, Lin(pass, y)>>
      BY <1>4, <1>8, <2>5
    <3>2. ps = pass /\ ~(l < y)
      BY <1>2, <1>6, <1>8, <2>1, <2>2, <2>5, <3>1
    <3>3. Lin(pass, l) = Lin(pass, y)
      BY <2>1, <3>1, <3>2
    <3>4. ~(y < l)
      BY <1>1, <1>2, <1>5, <3>3, GridRises
    <3> QED
      BY <1>2, <2>3, <2>5, <3>2, <3>4
  <2>6. CASE k # at + 1
    <3>1. k <= at + 1 <=> k <= at
      BY <1>2, <2>4, <2>6
    <3>2. ~(ps = pass /\ l = y)
      <4> SUFFICES ASSUME ps = pass, l = y PROVE FALSE
        OBVIOUS
      <4>1. Key(k) = Key(at + 1)
        BY <1>4, <1>8, <2>1
      <4>2. Before(Key(k), Key(at + 1)) \/ Before(Key(at + 1), Key(k))
        <5>1. k < at + 1 \/ at + 1 < k
          BY <1>2, <2>4, <2>6
        <5> QED
          BY <1>1, <1>7, <5>1 DEF FileRows
      <4>3. Before(<<pass, Lin(pass, y)>>, <<pass, Lin(pass, y)>>)
        BY <1>4, <1>8, <4>1, <4>2
      <4> QED
        BY <1>5, <4>3 DEF Before
    <3> QED
      BY <1>2, <2>2, <2>3, <3>1, <3>2
  <2> QED
    BY <2>5, <2>6
<1> QED
  BY <1>2, <1>4, <1>7, <1>8, <1>9

\* After the last row of a pass come those of the next one, or none.
LEMMA PassEnds ==
  ASSUME ImageInv, EncoderInv, FormatInv, OrderInv, pc = "row", ~MoreRows
  PROVE  /\ \A n \in DOMAIN file : n <= at <=> file[n].pass <= pass
         /\ ~interlaced \/ pass = 7 => at = Len(file)
         /\ interlaced /\ pass # 7 => \A n \in DOMAIN file : n <= at <=> Gone(n, pass + 1, 0)
<1>1. FileRows /\ Sized
  BY FileIsRead
<1>2. /\ pass \in PassSet /\ y \in Nat
      /\ Wide(pass) = 0 \/ ~(y < High(pass))
      /\ at \in 0..Len(file)
      /\ \A n \in DOMAIN file : n <= at <=> Gone(n, pass, y)
  BY DEF OrderInv, Reading, MoreRows, PassWidth, PassHeight, Wide, High
<1>3. Len(file) \in Nat /\ DOMAIN file = 1..Len(file)
  BY <1>1, FileDomain DEF FileRows
<1>4. PassSet \subseteq Nat /\ High(pass) \in Nat
  <2>1. PassSet \subseteq Nat
    BY DEF PassSet, Passes
  <2>2. High(pass) \in Nat
    BY <1>1, <1>2, GridBound
  <2> QED
    BY <2>1, <2>2
<1>5. ASSUME NEW n \in DOMAIN file
      PROVE  /\ n <= at <=> file[n].pass <= pass
             /\ file[n].pass \in PassSet
             /\ interlaced /\ pass # 7 => (n <= at <=> Gone(n, pass + 1, 0))
  <2>1. PICK ps \in PassSet, l \in Nat :
          /\ l < High(ps) /\ Wide(ps) # 0 /\ file[n].pass = ps
          /\ \A qs \in PassSet, m \in Nat : Gone(n, qs, m) <=> ps < qs \/ (ps = qs /\ l < m)
    BY <1>1, RowInPass
  <2>2. Gone(n, pass, y) <=> ps < pass \/ (ps = pass /\ l < y)
    BY <1>2, <2>1
  <2>3. ps = pass => l < y
    BY <1>2, <1>4, <2>1
  <2>4. n <= at <=> ps <= pass
    BY <1>2, <1>4, <2>2, <2>3
  <2>5. ASSUME interlaced, pass # 7 PROVE n <= at <=> Gone(n, pass + 1, 0)
    <3>1. pass + 1 \in PassSet
      BY <1>2, <2>5 DEF PassSet, Passes
    <3>2. Gone(n, pass + 1, 0) <=> ps < pass + 1
      BY <2>1, <3>1
    <3> QED
      BY <1>2, <1>4, <2>4, <3>2
  <2> QED
    BY <2>1, <2>4, <2>5
<1>6. ASSUME ~interlaced \/ pass = 7 PROVE at = Len(file)
  <2>1. \A n \in DOMAIN file : file[n].pass <= pass
    BY <1>2, <1>5, <1>6 DEF PassSet, Passes
  <2>2. \A n \in 1..Len(file) : n <= at
    BY <1>3, <1>5, <2>1
  <2> DEFINE m == Len(file)
  <2>3. m \in Nat /\ at \in 0..m /\ \A n \in 1..m : n <= at
    BY <1>2, <1>3, <2>2
  <2> HIDE DEF m
  <2>4. at = m
    <3>1. CASE m = 0
      BY <2>3, <3>1
    <3>2. CASE m # 0
      <4>1. m \in 1..m
        BY <2>3, <3>2
      <4> QED
        BY <2>3, <4>1
    <3> QED
      BY <3>1, <3>2
  <2> QED
    BY <2>4 DEF m
<1> QED
  BY <1>5, <1>6

\* At the start no row has been read.
LEMMA InitOrder == Init => OrderInv
BY DEF Init, InitEncode, InitForeign, Start, OrderInv, Reading

\* A row of the reader does not depend on the variables of the decoder.
LEMMA SameGrid ==
  ASSUME UNCHANGED <<picture, file>>
  PROVE  /\ \A n, ps, l : Gone(n, ps, l)' <=> Gone(n, ps, l)
         /\ \A n : Key(n)' = Key(n)
         /\ \A ps, l : Lin(ps, l)' = Lin(ps, l) /\ High(ps)' = High(ps) /\ Wide(ps)' = Wide(ps)
         /\ PassSet' = PassSet /\ (Sized' <=> Sized)
<1>1. UNCHANGED <<width, height, interlaced, file>>
  BY DEF picture
<1>2. \A ps, l : Lin(ps, l)' = Lin(ps, l) /\ High(ps)' = High(ps) /\ Wide(ps)' = Wide(ps)
  BY <1>1 DEF Lin, High, Wide
<1>3. \A n : Key(n)' = Key(n)
  BY <1>1 DEF Key
<1>4. \A n, ps, l : Gone(n, ps, l)' <=> Gone(n, ps, l)
  BY <1>1, <1>2 DEF Gone
<1> QED
  BY <1>1, <1>2, <1>3, <1>4 DEF PassSet, Sized

\* The rows that have been read are those before the reader's pass and line.
LEMMA NextOrder ==
  ASSUME ImageInv, EncoderInv, FormatInv, OrderInv, [Next]_vars
  PROVE  OrderInv'
<1>1. CASE PackIndex \/ PackSamples \/ PackEnd
  <2>1. pc = "pack" /\ pc' \in {"pack", "header"} /\ at' = at
    BY <1>1 DEF PackIndex, PackSamples, PackEnd, RowWritten, unpacking
  <2> QED
    BY <2>1 DEF OrderInv, Reading
<1>2. CASE ReadHeader
  <2>1. /\ pc = "header" /\ pc' = "row" /\ UNCHANGED <<picture, file, at>>
        /\ pass' = (IF interlaced THEN 1 ELSE 0) /\ y' = 0
    BY <1>2 DEF ReadHeader
  <2>2. at = 0 /\ FileRows /\ Sized
    BY <2>1, FileIsRead DEF OrderInv
  <2>3. pass' \in PassSet /\ pass' \in Nat
    BY <2>1 DEF PassSet, Passes
  <2>4. Len(file) \in Nat /\ DOMAIN file = 1..Len(file)
    BY <2>2, FileDomain DEF FileRows
  <2>5. High(pass') \in Nat
    BY <2>2, <2>3, GridBound
  <2>6. ASSUME NEW n \in DOMAIN file PROVE n <= 0 <=> Gone(n, pass', 0)
    <3>1. PICK ps \in PassSet, l \in Nat :
            \A qs \in PassSet, m \in Nat : Gone(n, qs, m) <=> ps < qs \/ (ps = qs /\ l < m)
      BY <2>2, RowInPass
    <3>2. Gone(n, pass', 0) <=> ps < pass' \/ (ps = pass' /\ l < 0)
      BY <2>3, <3>1
    <3>3. ~(ps < pass')
      BY <2>1 DEF PassSet, Passes
    <3>4. n \in Nat /\ n > 0
      BY <2>4
    <3> QED
      BY <3>2, <3>3, <3>4
  <2>7. /\ pass' \in PassSet' /\ y' \in Nat /\ y' <= High(pass)' /\ at' \in 0..Len(file')
        /\ \A n \in DOMAIN file' : n <= at' <=> Gone(n, pass, y)'
    <3>1. High(pass)' = High(pass') /\ PassSet' = PassSet
      BY <2>1, SameGrid
    <3>2. \A n : Gone(n, pass, y)' <=> Gone(n, pass', y')
      BY <2>1, SameGrid
    <3>3. pass' \in PassSet' /\ y' \in Nat /\ y' <= High(pass)'
      BY <2>1, <2>3, <2>5, <3>1
    <3>4. file' = file /\ at' = 0 /\ y' = 0
      BY <2>1, <2>2
    <3>5. at' \in 0..Len(file')
      BY <2>4, <3>4
    <3> QED
      BY <2>6, <3>2, <3>3, <3>4, <3>5
  <2> QED
    BY <2>1, <2>7 DEF OrderInv, Reading
<1>3. CASE ReadRow
  <2>1. /\ pc = "row" /\ MoreRows /\ pc' = "unpack" /\ at' = at + 1
        /\ cdat' = file[at + 1].bytes /\ UNCHANGED <<picture, file, y, pass>>
    BY <1>3 DEF ReadRow
  <2>2. /\ at + 1 \in DOMAIN file /\ at < Len(file) /\ y < High(pass) /\ Wide(pass) # 0
        /\ Key(at + 1) = <<pass, Lin(pass, y)>>
        /\ \A n \in DOMAIN file : n <= at + 1 <=> Gone(n, pass, y + 1)
    BY <2>1, NextRow
  <2>3. pass \in PassSet /\ y \in Nat /\ y <= High(pass) /\ at \in 0..Len(file)
    BY <2>1 DEF OrderInv, Reading
  <2>4. /\ \A n : Gone(n, pass, y + 1)' <=> Gone(n, pass, y + 1)
        /\ Key(at)' = Key(at + 1) /\ Lin(pass, y)' = Lin(pass, y)
        /\ High(pass)' = High(pass) /\ Wide(pass)' = Wide(pass) /\ PassSet' = PassSet
    BY <2>1, SameGrid
  <2>5. FileRows
    BY <2>1, FileIsRead
  <2>6. Len(file) \in Nat
    BY <2>5, FileDomain DEF FileRows
  <2>7. at' \in 0..Len(file')
    BY <2>1, <2>2, <2>3, <2>6
  <2> QED
    BY <2>1, <2>2, <2>3, <2>4, <2>7 DEF OrderInv, Reading
<1>4. CASE UnpackEnd
  <2>1. pc = "unpack" /\ pc' = "row" /\ y' = y + 1 /\ UNCHANGED <<picture, file, pass, at>>
    BY <1>4 DEF UnpackEnd
  <2>2. /\ pass \in PassSet /\ y \in Nat /\ y < High(pass) /\ at \in 0..Len(file)
        /\ \A n \in DOMAIN file : n <= at <=> Gone(n, pass, y + 1)
    BY <2>1 DEF OrderInv, Reading
  <2>3. Sized
    BY DEF ImageInv, Sized
  <2>4. High(pass) \in Nat
    BY <2>2, <2>3, GridBound
  <2>5. /\ \A n : Gone(n, pass, y)' <=> Gone(n, pass, y + 1)
        /\ High(pass)' = High(pass) /\ PassSet' = PassSet
    BY <2>1, SameGrid
  <2>6. y' \in Nat /\ y' <= High(pass)'
    BY <2>1, <2>2, <2>4, <2>5
  <2> QED
    BY <2>1, <2>2, <2>5, <2>6 DEF OrderInv, Reading
<1>5. CASE UnpackBits \/ UnpackBytes \/ UNCHANGED vars
  <2>1. UNCHANGED <<picture, file, pc, y, pass, at, cdat>>
    <3>1. CASE UnpackBits
      BY <3>1, Zenon DEF UnpackBits
    <3>2. CASE UnpackBytes
      BY <3>2, Zenon DEF UnpackBytes
    <3>3. CASE UNCHANGED vars
      BY <3>3 DEF vars, unpacking
    <3> QED
      BY <1>5, <3>1, <3>2, <3>3
  <2>2. /\ \A n : Gone(n, pass, y)' <=> Gone(n, pass, y)
        /\ \A n : Gone(n, pass, y + 1)' <=> Gone(n, pass, y + 1)
        /\ Key(at)' = Key(at) /\ Lin(pass, y)' = Lin(pass, y)
        /\ High(pass)' = High(pass) /\ Wide(pass)' = Wide(pass) /\ PassSet' = PassSet
    BY <2>1, SameGrid
  <2> QED
    BY <2>1, <2>2 DEF OrderInv, Reading
<1>6. CASE ImageRead
  <2>1. pc = "row" /\ ~MoreRows /\ ~interlaced /\ pc' = "done" /\ UNCHANGED <<file, at>>
    BY <1>6 DEF ImageRead
  <2>2. at = Len(file)
    BY <2>1, PassEnds
  <2> QED
    BY <2>1, <2>2 DEF OrderInv, Reading
<1>7. CASE mergePassInto
  <2>1. /\ pc = "row" /\ ~MoreRows /\ interlaced /\ y' = 0 /\ UNCHANGED <<picture, file, at>>
        /\ \/ pass < 7 /\ pass' = pass + 1 /\ pc' = "row"
           \/ pass = 7 /\ pc' = "done"
    BY <1>7 DEF mergePassInto
  <2>2. CASE pass = 7
    <3>1. at = Len(file) /\ pc' = "done"
      BY <2>1, <2>2, PassEnds
    <3> QED
      BY <2>1, <3>1 DEF OrderInv, Reading
  <2>3. CASE pass < 7
    <3>1. pass' = pass + 1 /\ pc' = "row"
      BY <2>1, <2>3
    <3>2. \A n \in DOMAIN file : n <= at <=> Gone(n, pass + 1, 0)
      BY <2>1, <2>3, PassEnds
    <3>3. pass + 1 \in PassSet /\ at \in 0..Len(file) /\ Sized
      BY <2>1, <2>3 DEF OrderInv, Reading, PassSet, Passes, ImageInv, Sized
    <3>4. High(pass + 1) \in Nat
      BY <3>3, GridBound
    <3>5. /\ \A n : Gone(n, pass, y)' <=> Gone(n, pass + 1, 0)
          /\ High(pass)' = High(pass + 1) /\ PassSet' = PassSet
      BY <2>1, <3>1, SameGrid
    <3>6. y' \in Nat /\ y' <= High(pass)'
      BY <2>1, <3>4, <3>5
    <3> QED
      BY <2>1, <3>1, <3>2, <3>3, <3>5, <3>6 DEF OrderInv, Reading
  <2> QED
    BY <2>1, <2>2, <2>3
<1> QED
  BY <1>1, <1>2, <1>3, <1>4, <1>5, <1>6, <1>7 DEF Next

\* So the row that the reader expects is the next, and none is left at the end.
LEMMA OrderAgrees == ImageInv /\ EncoderInv /\ FormatInv /\ OrderInv => SizesAgree
<1> SUFFICES ASSUME ImageInv, EncoderInv, FormatInv, OrderInv PROVE SizesAgree
  OBVIOUS
<1>1. pc = "done" => at = Len(file)
  BY DEF OrderInv
<1>2. ASSUME pc = "row", MoreRows
      PROVE  /\ at < Len(file) /\ DOMAIN file[at + 1].bytes = 0..(RowSize - 1)
             /\ file[at + 1].pass = pass
  <2>1. /\ at + 1 \in DOMAIN file /\ at < Len(file)
        /\ Key(at + 1) = <<pass, Lin(pass, y)>>
    BY <1>2, NextRow
  <2>2. file[at + 1].pass = pass
    BY <2>1 DEF Key
  <2>3. FileRows /\ Header = Parsed[cb] /\ dcb = cb /\ cb \in DOMAIN Parsed
    BY <1>2, FileIsRead DEF FormatInv
  <2>4. DOMAIN file[at + 1].bytes = 0..(FileSize(pass) - 1)
    BY <2>1, <2>2, <2>3 DEF FileRows, IsRow
  <2>5. RowSize = FileSize(pass)
    <3>1. ReaderBits(dcb, Header[1]) = Depth(cb) * Channels(cb)
      BY <2>3, ReadFormats
    <3>2. PassWidth = Wide(pass)
      BY DEF PassWidth, Wide
    <3> QED
      BY <3>1, <3>2 DEF RowSize, FileSize
  <2> QED
    BY <2>1, <2>2, <2>4, <2>5
<1> QED
  BY <1>1, <1>2 DEF SizesAgree

DecodeInv == ImageInv /\ EncoderInv /\ FormatInv /\ OrderInv

\* The parts so far are an inductive invariant.
LEMMA DecodeInvariant == Spec => []DecodeInv
<1>1. Init => DecodeInv
  BY InitImage, InitEncoder, InitFormat, InitOrder DEF DecodeInv
<1>2. DecodeInv /\ [Next]_vars => DecodeInv'
  BY NextImage, NextEncoder, NextFormat, NextOrder DEF DecodeInv
<1> QED
  BY <1>1, <1>2, PTL DEF Spec

\* The rows that readImagePass expects of a pass are those that the file has, in
\* number, in size and in order, from this encoder and from another program
\* (writer.go:319, reader.go:431, 440).
THEOREM RowSizesAgree == Spec => []SizesAgree
<1>1. DecodeInv => SizesAgree
  BY OrderAgrees DEF DecodeInv
<1> QED
  BY <1>1, DecodeInvariant, PTL

-----------------------------------------------------------------------------
(* The color of a pixel, by the standard and in readImagePass *)

\* What tRNS names, in the depth of the samples
KeySamples == IF Depth(cb) = 16 THEN trns ELSE [k \in DOMAIN trns |-> trns[k] % 256]

Factor(f) == Full(f) \div (2^Depth(f) - 1)

\* The factor between samples and the image's depth
LEMMA FactorIs ==
  ASSUME NEW f \in DOMAIN Parsed
  PROVE  /\ Full(f) = IF Depth(f) = 16 THEN 65535 ELSE 255
         /\ Factor(f) = CASE Depth(f) = 1 -> 255 [] Depth(f) = 2 -> 85
                          [] Depth(f) = 4 -> 17 [] OTHER -> 1
<1>1. Depth(f) \in {1, 2, 4, 8, 16}
  BY ReadFormats
<1>2. /\ 255 \div (2 - 1) = 255 /\ 255 \div (4 - 1) = 85 /\ 255 \div (16 - 1) = 17
      /\ 255 \div (256 - 1) = 1 /\ 65535 \div (65536 - 1) = 1
  OBVIOUS
<1>3. CASE Depth(f) = 1
  BY <1>2, <1>3, Powers DEF Factor, Full
<1>4. CASE Depth(f) = 2
  BY <1>2, <1>4, Powers DEF Factor, Full
<1>5. CASE Depth(f) = 4
  BY <1>2, <1>5, Powers DEF Factor, Full
<1>6. CASE Depth(f) = 8
  BY <1>2, <1>6, Powers DEF Factor, Full
<1>7. CASE Depth(f) = 16
  BY <1>2, <1>7, Powers DEF Factor, Full
<1> QED
  BY <1>1, <1>3, <1>4, <1>5, <1>6, <1>7

\* The five types of color
LEMMA ColorTypesAre ==
  ASSUME NEW f \in DOMAIN Parsed
  PROVE  /\ Parsed[f][2] \in {ctGrayscale, ctTrueColor, ctPaletted, ctGrayscaleAlpha,
                              ctTrueColorAlpha}
         /\ Parsed[f][2] = ctPaletted => Paletted(f) /\ Channels(f) = 1
         /\ Parsed[f][2] # ctPaletted => ~Paletted(f)
         /\ Parsed[f][2] = ctGrayscale => Gray(f) /\ ~HasAlpha(f) /\ Channels(f) = 1
         /\ Parsed[f][2] = ctGrayscaleAlpha => Gray(f) /\ HasAlpha(f) /\ Channels(f) = 2
         /\ Parsed[f][2] = ctTrueColor => ~Gray(f) /\ ~HasAlpha(f) /\ Channels(f) = 3
         /\ Parsed[f][2] = ctTrueColorAlpha => ~Gray(f) /\ HasAlpha(f) /\ Channels(f) = 4
<1>1. Parsed[f][2] \in {ctGrayscale, ctTrueColor, ctPaletted, ctGrayscaleAlpha,
                        ctTrueColorAlpha}
  BY DEF Parsed
<1> QED
  BY <1>1 DEF Paletted, Gray, HasAlpha, Channels, ctGrayscale, ctTrueColor, ctPaletted,
              ctGrayscaleAlpha, ctTrueColorAlpha

\* The color that the standard gives samples, type by type
LEMMA ColorIs ==
  ASSUME NEW f \in DOMAIN Parsed, NEW s, NEW key, s = [k \in 1..Channels(f) |-> s[k]],
         s \in Seq(Nat), Len(s) = Channels(f)
  PROVE  LET alpha == IF s = key THEN 0 ELSE Full(f)
             u == Factor(f)
             type == Parsed[f][2]
         IN  Color(s, f, key) =
               IF type = ctPaletted THEN s
               ELSE IF type = ctGrayscale THEN <<s[1] * u, s[1] * u, s[1] * u, alpha>>
               ELSE IF type = ctGrayscaleAlpha THEN <<s[1] * u, s[1] * u, s[1] * u, s[2]>>
               ELSE IF type = ctTrueColor THEN <<s[1] * u, s[2] * u, s[3] * u, alpha>>
               ELSE <<s[1] * u, s[2] * u, s[3] * u, s[4]>>
<1> DEFINE scaled == [k \in DOMAIN s |-> s[k] * (Full(f) \div (2^Depth(f) - 1))]
           alpha == IF HasAlpha(f) THEN Last(s) ELSE IF s = key THEN 0 ELSE Full(f)
<1>1. Color(s, f, key) =
        CASE Paletted(f) -> s
          [] ~Paletted(f) /\ Gray(f) -> <<scaled[1], scaled[1], scaled[1], alpha>>
          [] ~Paletted(f) /\ ~Gray(f) -> <<scaled[1], scaled[2], scaled[3], alpha>>
  BY Zenon DEF Color
<1>2. \A k \in 1..Channels(f) : scaled[k] = s[k] * Factor(f)
  <2>1. DOMAIN s = 1..Channels(f)
    OBVIOUS
  <2> QED
    BY <2>1 DEF Factor
<1>3. ~HasAlpha(f) => alpha = IF s = key THEN 0 ELSE Full(f)
  OBVIOUS
<1>4. HasAlpha(f) => alpha = s[Channels(f)]
  BY DEF Last
<1> HIDE DEF scaled, alpha
<1> DEFINE type == Parsed[f][2]
<1>5. CASE type = ctPaletted
  BY <1>1, <1>5, ColorTypesAre
<1>6. CASE type = ctGrayscale
  <2>1. ~Paletted(f) /\ Gray(f) /\ ~HasAlpha(f) /\ 1 \in 1..Channels(f)
    BY <1>6, ColorTypesAre DEF ctGrayscale, ctPaletted
  <2> QED
    BY <1>1, <1>2, <1>3, <1>6, <2>1 DEF ctGrayscale, ctPaletted
<1>7. CASE type = ctGrayscaleAlpha
  <2>1. ~Paletted(f) /\ Gray(f) /\ HasAlpha(f) /\ Channels(f) = 2
    BY <1>7, ColorTypesAre DEF ctGrayscaleAlpha, ctPaletted
  <2> QED
    BY <1>1, <1>2, <1>4, <1>7, <2>1 DEF ctGrayscale, ctPaletted, ctGrayscaleAlpha
<1>8. CASE type = ctTrueColor
  <2>1. ~Paletted(f) /\ ~Gray(f) /\ ~HasAlpha(f) /\ Channels(f) = 3
    BY <1>8, ColorTypesAre DEF ctTrueColor, ctPaletted
  <2> QED
    BY <1>1, <1>2, <1>3, <1>8, <2>1 DEF ctGrayscale, ctPaletted, ctGrayscaleAlpha, ctTrueColor
<1>9. CASE type = ctTrueColorAlpha
  <2>1. ~Paletted(f) /\ ~Gray(f) /\ HasAlpha(f) /\ Channels(f) = 4
    BY <1>9, ColorTypesAre DEF ctTrueColorAlpha, ctPaletted
  <2> QED
    BY <1>1, <1>2, <1>4, <1>9, <2>1 DEF ctGrayscale, ctPaletted, ctGrayscaleAlpha, ctTrueColor,
                                        ctTrueColorAlpha
<1> QED
  BY <1>5, <1>6, <1>7, <1>8, <1>9, ColorTypesAre

TrnsOK == trns \in {<<>>} \cup Transparencies(cb)

\* The bytes r are those of the m samples s, the high one first.
InBytes(r, s, m) ==
  /\ r \in Seq(Nat) /\ Len(r) = 2 * m
  /\ \A k \in 1..m : r[2 * k - 1] = s[k] \div 256 /\ r[2 * k] = s[k] % 256

\* The bytes of 16-bit samples, one by one
LEMMA TrnsBytes ==
  ASSUME NEW m \in Nat, NEW s \in Seq(Nat), Len(s) = m
  PROVE  InBytes(BytesOf(s, 16), s, m)
<1> SUFFICES LET r == BytesOf(s, 16)
             IN  /\ r \in Seq(Nat) /\ Len(r) = 2 * m
                 /\ \A k \in 1..m : r[2 * k - 1] = s[k] \div 256 /\ r[2 * k] = s[k] % 256
  BY DEF InBytes
<1> DEFINE r == BytesOf(s, 16)
<1>1. r = [k \in 1..(2 * m) |->
             LET t == s[(k + 1) \div 2] IN IF k % 2 = 1 THEN t \div 256 ELSE t % 256]
  BY DEF BytesOf
<1>2. \A k \in 1..m : s[k] \in Nat
  OBVIOUS
<1> HIDE DEF r
<1>3. ASSUME NEW k \in 1..(2 * m)
      PROVE  /\ r[k] \in Nat
             /\ r[k] = IF k % 2 = 1 THEN s[(k + 1) \div 2] \div 256
                       ELSE s[(k + 1) \div 2] % 256
  <2> DEFINE t == s[(k + 1) \div 2]
  <2>1. (k + 1) \div 2 \in 1..m
    OBVIOUS
  <2>2. t \in Nat
    BY <1>2, <2>1
  <2>3. r[k] = IF k % 2 = 1 THEN t \div 256 ELSE t % 256
    BY <1>1
  <2> HIDE DEF t
  <2>4. t \div 256 \in Nat /\ t % 256 \in Nat
    BY <2>2
  <2> QED
    BY <2>3, <2>4 DEF t
<1>4. r \in Seq(Nat) /\ Len(r) = 2 * m
  <2>1. r \in [1..(2 * m) -> Nat]
    <3>1. r = [k \in 1..(2 * m) |-> r[k]]
      BY <1>1
    <3> QED
      BY <1>3, <3>1
  <2>2. 2 * m \in Nat
    OBVIOUS
  <2> QED
    BY <2>1, <2>2, FunctionIsSeq
<1>5. ASSUME NEW k \in 1..m
      PROVE  r[2 * k - 1] = s[k] \div 256 /\ r[2 * k] = s[k] % 256
  <2>1. /\ 2 * k - 1 \in 1..(2 * m) /\ 2 * k \in 1..(2 * m)
        /\ ((2 * k - 1) + 1) \div 2 = k /\ (2 * k + 1) \div 2 = k
        /\ (2 * k - 1) % 2 = 1 /\ (2 * k) % 2 = 0
    OBVIOUS
  <2> QED
    BY <1>3, <2>1
<1> QED
  BY <1>4, <1>5 DEF r

\* Two bytes, the high one first
LEMMA TwoBytes ==
  ASSUME NEW k \in Nat, NEW l \in Nat
  PROVE  k * 256 + l \in Nat
OBVIOUS

\* The samples that the reader compares with
ReaderKey(full) ==
  IF full = 65535
  THEN [k \in 1..(Len(transparent) \div 2) |->
          transparent[2 * k - 1] * 256 + transparent[2 * k]]
  ELSE [k \in 1..(Len(transparent) \div 2) |-> transparent[2 * k]]

\* What readImagePass makes of a pixel, from the bytes of the transparent color
LEMMA KeyedIs ==
  ASSUME NEW color, NEW full, transparent \in Seq(Nat)
  PROVE  /\ transparent = <<>> => Keyed(color, full) = Append(color, full)
         /\ Len(transparent) = 2 =>
              Keyed(color, full) = Append(color, IF color[1] = ReaderKey(full)[1] THEN 0 ELSE full)
         /\ Len(transparent) = 6 =>
              Keyed(color, full) = Append(color, IF color = ReaderKey(full) THEN 0 ELSE full)
<1> DEFINE m == Len(transparent) \div 2
           key == ReaderKey(full)
<1>1. Len(transparent) \in Nat /\ m \in Nat
  OBVIOUS
<1>2. Len(key) = m
  <2>1. CASE full = 65535
    <3>1. key = [k \in 1..m |-> transparent[2 * k - 1] * 256 + transparent[2 * k]]
      BY <2>1 DEF ReaderKey
    <3>2. ASSUME NEW k \in 1..m
          PROVE  transparent[2 * k - 1] * 256 + transparent[2 * k] \in Nat
      <4>1. 2 * k - 1 \in 1..Len(transparent) /\ 2 * k \in 1..Len(transparent)
        BY <1>1
      <4>2. transparent[2 * k - 1] \in Nat /\ transparent[2 * k] \in Nat
        BY <4>1
      <4> QED
        BY <4>2, TwoBytes
    <3>3. key \in [1..m -> Nat]
      BY <3>1, <3>2
    <3> HIDE DEF key, m
    <3> QED
      BY <1>1, <3>3, FunctionIsSeq
  <2>2. CASE full # 65535
    <3>1. key = [k \in 1..m |-> transparent[2 * k]]
      BY <2>2 DEF ReaderKey
    <3>2. ASSUME NEW k \in 1..m
          PROVE  transparent[2 * k] \in Nat
      <4>1. 2 * k \in 1..Len(transparent)
        BY <1>1
      <4> QED
        BY <4>1
    <3>3. key \in [1..m -> Nat]
      BY <3>1, <3>2
    <3> HIDE DEF key, m
    <3> QED
      BY <1>1, <3>3, FunctionIsSeq
  <2> QED
    BY <2>1, <2>2
<1>3. Keyed(color, full) =
        CASE transparent = <<>> -> Append(color, full)
          [] Len(key) = 1 -> IF color[1] = key[1] THEN Append(color, 0) ELSE Append(color, full)
          [] Len(key) = 3 -> IF color = key THEN Append(color, 0) ELSE Append(color, full)
  BY DEF Keyed, ReaderKey
<1>4. /\ transparent = <<>> => Len(key) = 0
      /\ Len(transparent) = 2 => Len(key) = 1 /\ transparent # <<>>
      /\ Len(transparent) = 6 => Len(key) = 3 /\ transparent # <<>>
  <2> HIDE DEF key
  <2>1. 0 \div 2 = 0 /\ 2 \div 2 = 1 /\ 6 \div 2 = 3 /\ Len(<<>>) = 0
    OBVIOUS
  <2>2. transparent = <<>> => Len(key) = 0
    BY <1>2, <2>1
  <2>3. Len(transparent) = 2 => Len(key) = 1
    BY <1>2, <2>1
  <2>4. Len(transparent) = 6 => Len(key) = 3
    BY <1>2, <2>1
  <2>5. Len(transparent) # 0 => transparent # <<>>
    BY <2>1
  <2> QED
    BY <2>2, <2>3, <2>4, <2>5
<1> HIDE DEF key, m
<1>5. CASE transparent = <<>>
  <2>1. Len(key) # 1 /\ Len(key) # 3
    BY <1>4, <1>5
  <2>2. Keyed(color, full) = Append(color, full)
    BY <1>3, <1>5, <2>1, Zenon
  <2>3. Len(transparent) = 0
    BY <1>5
  <2> QED
    BY <1>5, <2>2, <2>3
<1>6. CASE Len(transparent) = 2
  <2>1. Len(key) = 1 /\ Len(key) # 3 /\ transparent # <<>>
    BY <1>4, <1>6
  <2>2. Keyed(color, full) = IF color[1] = key[1] THEN Append(color, 0) ELSE Append(color, full)
    BY <1>3, <2>1, Zenon
  <2> QED
    BY <1>6, <2>1, <2>2 DEF key
<1>7. CASE Len(transparent) = 6
  <2>1. Len(key) = 3 /\ Len(key) # 1 /\ transparent # <<>>
    BY <1>4, <1>7
  <2>2. Keyed(color, full) = IF color = key THEN Append(color, 0) ELSE Append(color, full)
    BY <1>3, <2>1, Zenon
  <2> QED
    BY <1>7, <2>1, <2>2 DEF key
<1> QED
  BY <1>5, <1>6, <1>7

\* Scaling by 255, 85 and 17 modulo 256 does not confuse two samples.
LEMMA ScaleApart ==
  ASSUME NEW u \in {255, 85, 17}, NEW v \in Nat, v * u < 256, NEW t \in Nat, t < 256
  PROVE  v * u = (t * u) % 256 <=> v = t
<1>1. CASE u = 255
  <2>1. v \in {0, 1}
    BY <1>1
  <2> QED
    BY <1>1, <2>1
<1>2. CASE u = 85
  <2>1. v \in {0, 1, 2, 3}
    BY <1>2
  <2> QED
    BY <1>2, <2>1
<1>3. CASE u = 17
  <2>1. \A w \in Nat : w < 256 => (((w * 17) % 256) * 241) % 256 = w
    OBVIOUS
  <2>2. v < 16
    BY <1>3
  <2>3. (v * 17) % 256 = v * 17 /\ v < 256
    BY <2>2
  <2>4. ((v * 17) * 241) % 256 = v
    BY <2>1, <2>3
  <2> QED
    BY <1>3, <2>1, <2>3, <2>4
<1> QED
  BY <1>1, <1>2, <1>3

\* The elements of a sequence with one more
LEMMA AppendIs ==
  ASSUME NEW S, NEW s \in Seq(S), NEW e \in S, NEW n, n = Len(s)
  PROVE  /\ Append(s, e) \in Seq(S) /\ Len(Append(s, e)) = n + 1
         /\ \A k \in 1..n : Append(s, e)[k] = s[k]
         /\ Append(s, e)[n + 1] = e
BY AppendProperties

\* Three samples and an alpha
LEMMA AppendThree ==
  ASSUME NEW s1 \in Nat, NEW s2 \in Nat, NEW s3 \in Nat, NEW s4 \in Nat
  PROVE  Append(<<s1, s2, s3>>, s4) = <<s1, s2, s3, s4>>
<1> DEFINE s == <<s1, s2, s3>>
           t == <<s1, s2, s3, s4>>
           n == Len(s)
           r == Append(s, s4)
<1>1. s \in Seq(Nat) /\ Len(s) = 3 /\ s[1] = s1 /\ s[2] = s2 /\ s[3] = s3
  OBVIOUS
<1>2. t \in Seq(Nat) /\ Len(t) = 4 /\ t[1] = s1 /\ t[2] = s2 /\ t[3] = s3 /\ t[4] = s4
  OBVIOUS
<1> SUFFICES r = t
  OBVIOUS
<1> HIDE DEF s, t
<1>3. n = 3 /\ n = Len(s)
  BY <1>1
<1> HIDE DEF n
<1>4. /\ Append(s, s4) \in Seq(Nat) /\ Len(Append(s, s4)) = n + 1
      /\ \A k \in 1..n : Append(s, s4)[k] = s[k]
      /\ Append(s, s4)[n + 1] = s4
  <2>1. s \in Seq(Nat) /\ s4 \in Nat /\ n = Len(s)
    BY <1>1, <1>3
  <2> QED
    BY <2>1, AppendIs
<1>5. r \in Seq(Nat) /\ Len(r) = 4 /\ (\A k \in 1..3 : r[k] = s[k]) /\ r[4] = s4
  <2>1. n + 1 = 4
    BY <1>3
  <2>2. /\ r \in Seq(Nat) /\ Len(r) = n + 1 /\ (\A k \in 1..n : r[k] = s[k])
        /\ r[n + 1] = s4
    BY <1>4
  <2> HIDE DEF r
  <2> QED
    BY <1>3, <2>1, <2>2, Zenon
<1> HIDE DEF r
<1>6. r[1] = s1 /\ r[2] = s2 /\ r[3] = s3
  BY <1>1, <1>5
<1>7. \A k \in 1..4 : r[k] = t[k]
  <2>1. \A k \in 1..4 : k = 1 \/ k = 2 \/ k = 3 \/ k = 4
    OBVIOUS
  <2>2. r[1] = t[1] /\ r[2] = t[2] /\ r[3] = t[3] /\ r[4] = t[4]
    BY <1>2, <1>5, <1>6
  <2> QED
    BY <2>1, <2>2
<1> QED
  BY <1>2, <1>5, <1>7, SeqEqual

\* A sample has 16 bits at most.
LEMMA TriedSample ==
  ASSUME NEW s \in Samples
  PROVE  s \in Nat /\ s < 65536
BY SampleAssumption

\* The elements of a sequence of numbers
LEMMA ElementsOf ==
  ASSUME NEW s \in Seq(Nat), NEW m \in Nat, Len(s) = m
  PROVE  \A k \in 1..m : s[k] \in Nat
BY ElementOfSeq

\* A sequence of one
LEMMA SingleIs ==
  ASSUME NEW s \in Seq(Nat), Len(s) = 1
  PROVE  s = <<s[1]>> /\ s[1] \in Nat
<1>1. s[1] \in Nat
  BY ElementsOf
<1> DEFINE t == <<s[1]>>
<1>2. t \in Seq(Nat) /\ Len(t) = 1 /\ t[1] = s[1]
  BY <1>1
<1> SUFFICES s = t
  BY <1>1
<1> HIDE DEF t
<1>3. \A k \in 1..1 : s[k] = t[k]
  BY <1>2
<1> QED
  BY <1>2, <1>3, SeqEqual

\* What parsetRNS makes of a tRNS chunk
LEMMA TransparentIs ==
  ASSUME cb \in DOMAIN Parsed, TrnsOK, transparent = Chosen
  PROVE  /\ transparent \in Seq(Nat) /\ Len(transparent) \in {0, 2, 6}
         /\ trns = <<>> => transparent = <<>>
         /\ trns # <<>> => Parsed[cb][2] \in {ctGrayscale, ctTrueColor}
         /\ trns # <<>> /\ Parsed[cb][2] = ctGrayscale =>
              \E t \in Nat :
                /\ t < 65536 /\ trns = <<t>> /\ Len(transparent) = 2
                /\ transparent[1] = t \div 256
                /\ transparent[2] =
                     IF Depth(cb) \in Bits THEN ((t % 256) * Factor(cb)) % 256 ELSE t % 256
         /\ trns # <<>> /\ Parsed[cb][2] = ctTrueColor =>
              /\ trns \in Seq(Nat) /\ Len(trns) = 3 /\ Len(transparent) = 6
              /\ \A k \in 1..3 : /\ trns[k] < 65536
                                 /\ transparent[2 * k - 1] = trns[k] \div 256
                                 /\ transparent[2 * k] = trns[k] % 256
<1> DEFINE r == BytesOf(trns, 16)
<1>1. CASE trns = <<>>
  <2>1. transparent = <<>>
    BY <1>1 DEF Chosen
  <2> QED
    BY <1>1, <2>1
<1>2. CASE trns # <<>>
  <2>1. trns \in Transparencies(cb) /\ transparent = Scaled(cb, r)
    BY <1>2 DEF TrnsOK, Chosen
  <2>2. CASE Parsed[cb][2] = ctGrayscale
    <3> DEFINE t == trns[1]
    <3>1. t \in Samples /\ trns = <<t>>
      <4>1. trns \in [1..1 -> Samples]
        BY <2>1, <2>2 DEF Transparencies
      <4>2. 1 \in 1..1
        OBVIOUS
      <4>3. trns \in [1..1 -> Nat] /\ trns[1] \in Samples
        BY <4>1, <4>2, TriedSample
      <4>4. trns \in Seq(Nat) /\ Len(trns) = 1
        BY <4>3, FunctionIsSeq
      <4> QED
        BY <4>3, <4>4, SingleIs
    <3> HIDE DEF t
    <3>2. t \in Nat /\ t < 65536
      BY <3>1, TriedSample
    <3>3. /\ r \in Seq(Nat) /\ Len(r) = 2 /\ r[1] = t \div 256 /\ r[2] = t % 256
      <4>1. trns \in Seq(Nat) /\ Len(trns) = 1 /\ trns[1] = t
        BY <3>1, <3>2
      <4>2. /\ r \in Seq(Nat) /\ Len(r) = 2 * 1
            /\ \A k \in 1..1 : r[2 * k - 1] = trns[k] \div 256 /\ r[2 * k] = trns[k] % 256
        <5> DEFINE m == 1
        <5>1. m \in Nat /\ trns \in Seq(Nat) /\ Len(trns) = m
          BY <4>1
        <5> SUFFICES InBytes(BytesOf(trns, 16), trns, m)
          BY DEF InBytes
        <5> HIDE DEF m
        <5> QED
          BY <5>1, TrnsBytes
      <4> HIDE DEF r
      <4>3. 1 \in 1..1 /\ 2 * 1 - 1 = 1 /\ 2 * 1 = 2
        OBVIOUS
      <4>4. r[2 * 1 - 1] = trns[1] \div 256 /\ r[2 * 1] = trns[1] % 256
        BY <4>2, <4>3
      <4> QED
        BY <4>1, <4>2, <4>3, <4>4
    <3> HIDE DEF r
    <3>4. ASSUME NEW u \in Nat, transparent = [r EXCEPT ![2] = (@ * u) % 256]
          PROVE  /\ transparent \in Seq(Nat) /\ Len(transparent) = 2
                 /\ transparent[1] = t \div 256 /\ transparent[2] = ((t % 256) * u) % 256
      <4>1. ((t % 256) * u) % 256 \in Nat
        <5>1. t % 256 \in Nat
          BY <3>2
        <5> DEFINE w == (t % 256) * u
        <5>2. w \in Nat
          BY <5>1
        <5> HIDE DEF w
        <5> QED
          BY <5>2 DEF w
      <4> DEFINE w == ((t % 256) * u) % 256
      <4>2. transparent = [r EXCEPT ![2] = w]
        BY <3>3, <3>4
      <4> HIDE DEF w
      <4>3. w \in Nat
        BY <4>1 DEF w
      <4>4. transparent \in Seq(Nat) /\ Len(transparent) = 2 /\ transparent[1] = r[1] /\ transparent[2] = w
        <5>1. 2 \in 1..Len(r) /\ 1 \in 1..Len(r) /\ r \in Seq(Nat)
          BY <3>3
        <5>2. /\ [r EXCEPT ![2] = w] \in Seq(Nat) /\ Len([r EXCEPT ![2] = w]) = Len(r)
              /\ \A j \in 1..Len(r) : [r EXCEPT ![2] = w][j] = IF j = 2 THEN w ELSE r[j]
          BY <4>3, <5>1, ExceptSeq
        <5> QED
          BY <3>3, <4>2, <5>1, <5>2
      <4> QED
        BY <3>3, <4>4 DEF w
    <3>5. cb \in {"cbG1", "cbG2", "cbG4", "cbG8", "cbG16"}
      BY <2>2 DEF Parsed, ctGrayscale, ctPaletted, ctTrueColor, ctGrayscaleAlpha, ctTrueColorAlpha
    <3>6. CASE cb = "cbG1"
      <4>1. Depth(cb) = 1
        BY <3>6 DEF Depth, Parsed
      <4>2. Factor(cb) = 255 /\ Depth(cb) \in Bits
        BY <4>1, FactorIs DEF Bits
      <4>3. transparent = [r EXCEPT ![2] = (@ * 255) % 256]
        BY <2>1, <3>6 DEF Scaled
      <4>4. /\ transparent \in Seq(Nat) /\ Len(transparent) = 2
            /\ transparent[1] = t \div 256 /\ transparent[2] = ((t % 256) * 255) % 256
        <5> DEFINE u == 255
        <5>1. u \in Nat /\ transparent = [r EXCEPT ![2] = (@ * u) % 256]
          BY <4>3
        <5> HIDE DEF u
        <5>2. /\ transparent \in Seq(Nat) /\ Len(transparent) = 2
              /\ transparent[1] = t \div 256 /\ transparent[2] = ((t % 256) * u) % 256
          BY <3>4, <5>1
        <5> QED
          BY <5>2 DEF u
      <4> QED
        BY <1>2, <2>2, <3>1, <3>2, <4>2, <4>4 DEF ctGrayscale, ctTrueColor
    <3>7. CASE cb = "cbG2"
      <4>1. Depth(cb) = 2
        BY <3>7 DEF Depth, Parsed
      <4>2. Factor(cb) = 85 /\ Depth(cb) \in Bits
        BY <4>1, FactorIs DEF Bits
      <4>3. transparent = [r EXCEPT ![2] = (@ * 85) % 256]
        BY <2>1, <3>7 DEF Scaled
      <4>4. /\ transparent \in Seq(Nat) /\ Len(transparent) = 2
            /\ transparent[1] = t \div 256 /\ transparent[2] = ((t % 256) * 85) % 256
        <5> DEFINE u == 85
        <5>1. u \in Nat /\ transparent = [r EXCEPT ![2] = (@ * u) % 256]
          BY <4>3
        <5> HIDE DEF u
        <5>2. /\ transparent \in Seq(Nat) /\ Len(transparent) = 2
              /\ transparent[1] = t \div 256 /\ transparent[2] = ((t % 256) * u) % 256
          BY <3>4, <5>1
        <5> QED
          BY <5>2 DEF u
      <4> QED
        BY <1>2, <2>2, <3>1, <3>2, <4>2, <4>4 DEF ctGrayscale, ctTrueColor
    <3>8. CASE cb = "cbG4"
      <4>1. Depth(cb) = 4
        BY <3>8 DEF Depth, Parsed
      <4>2. Factor(cb) = 17 /\ Depth(cb) \in Bits
        BY <4>1, FactorIs DEF Bits
      <4>3. transparent = [r EXCEPT ![2] = (@ * 17) % 256]
        BY <2>1, <3>8 DEF Scaled
      <4>4. /\ transparent \in Seq(Nat) /\ Len(transparent) = 2
            /\ transparent[1] = t \div 256 /\ transparent[2] = ((t % 256) * 17) % 256
        <5> DEFINE u == 17
        <5>1. u \in Nat /\ transparent = [r EXCEPT ![2] = (@ * u) % 256]
          BY <4>3
        <5> HIDE DEF u
        <5>2. /\ transparent \in Seq(Nat) /\ Len(transparent) = 2
              /\ transparent[1] = t \div 256 /\ transparent[2] = ((t % 256) * u) % 256
          BY <3>4, <5>1
        <5> QED
          BY <5>2 DEF u
      <4> QED
        BY <1>2, <2>2, <3>1, <3>2, <4>2, <4>4 DEF ctGrayscale, ctTrueColor
    <3>9. CASE cb \in {"cbG8", "cbG16"}
      <4>1. Depth(cb) \notin Bits
        BY <3>9 DEF Depth, Parsed, Bits
      <4>2. transparent = r
        BY <2>1, <3>9 DEF Scaled
      <4> QED
        BY <2>2, <3>1, <3>2, <3>3, <4>1, <4>2 DEF ctGrayscale, ctTrueColor
    <3> QED
      BY <3>5, <3>6, <3>7, <3>8, <3>9
  <2>3. CASE Parsed[cb][2] = ctTrueColor
    <3>1. trns \in [1..3 -> Samples]
      BY <2>1, <2>3 DEF Transparencies, ctGrayscale, ctTrueColor
    <3>2. trns \in Seq(Nat) /\ Len(trns) = 3 /\ \A k \in 1..3 : trns[k] \in Nat /\ trns[k] < 65536
      <4>1. \A k \in 1..3 : trns[k] \in Nat /\ trns[k] < 65536
        BY <3>1, TriedSample
      <4> DEFINE m == 3
      <4>2. trns \in [1..m -> Nat] /\ m \in Nat
        BY <3>1, <4>1
      <4> HIDE DEF m
      <4>3. trns \in Seq(Nat) /\ Len(trns) = m
        BY <4>2, FunctionIsSeq
      <4> QED
        BY <4>1, <4>3 DEF m
    <3>3. /\ r \in Seq(Nat) /\ Len(r) = 6
          /\ \A k \in 1..3 : r[2 * k - 1] = trns[k] \div 256 /\ r[2 * k] = trns[k] % 256
      <4>1. trns \in Seq(Nat) /\ Len(trns) = 3 /\ 3 \in Nat
        BY <3>2
      <4> DEFINE m == 3
      <4>2. m \in Nat /\ trns \in Seq(Nat) /\ Len(trns) = m
        BY <4>1
      <4> HIDE DEF m
      <4>3. InBytes(BytesOf(trns, 16), trns, m)
        BY <4>2, TrnsBytes
      <4>4. InBytes(r, trns, 3)
        BY <4>3 DEF m
      <4> HIDE DEF r
      <4> QED
        BY <4>4 DEF InBytes
    <3>4. cb \in {"cbTC8", "cbTC16"}
      BY <2>3 DEF Parsed, ctGrayscale, ctPaletted, ctTrueColor, ctGrayscaleAlpha, ctTrueColorAlpha
    <3>5. transparent = r
      BY <2>1, <3>4 DEF Scaled
    <3> HIDE DEF r
    <3> QED
      BY <1>2, <2>3, <3>2, <3>3, <3>5 DEF ctGrayscale, ctTrueColor
  <2>4. Parsed[cb][2] \in {ctGrayscale, ctTrueColor}
    BY <2>1 DEF Transparencies
  <2> QED
    BY <2>2, <2>3, <2>4
<1> QED
  BY <1>1, <1>2

\* A gray pixel is transparent in readImagePass when the standard says so, although
\* parsetRNS has scaled its level modulo 256.
LEMMA KeyedGray ==
  ASSUME cb \in DOMAIN Parsed, TrnsOK, transparent = Chosen, Parsed[cb][2] = ctGrayscale,
         NEW v \in Nat, v < 2^Depth(cb), NEW s, s = [k \in 1..1 |-> v]
  PROVE  Keyed(Level(v * Factor(cb)), Full(cb)) = Color(s, cb, KeySamples)
<1> DEFINE u == Factor(cb)
           full == Full(cb)
<1>1. s \in Seq(Nat) /\ Len(s) = 1 /\ s[1] = v /\ DOMAIN s = 1..1
  <2>1. s \in [1..1 -> Nat]
    OBVIOUS
  <2> QED
    BY <2>1, FunctionIsSeq
<1>2. Color(s, cb, KeySamples) = <<v * u, v * u, v * u, IF s = KeySamples THEN 0 ELSE full>>
  <2>1. Channels(cb) = 1
    BY ColorTypesAre
  <2>2. s = [k \in 1..Channels(cb) |-> s[k]]
    BY <1>1, <2>1
  <2>3. Color(s, cb, KeySamples)
          = <<s[1] * Factor(cb), s[1] * Factor(cb), s[1] * Factor(cb),
              IF s = KeySamples THEN 0 ELSE Full(cb)>>
    <3>1. s \in Seq(Nat) /\ Len(s) = Channels(cb) /\ ctGrayscale # ctPaletted
      BY <1>1, <2>1 DEF ctGrayscale, ctPaletted
    <3> QED
      BY <2>2, <3>1, ColorIs
  <2> QED
    BY <1>1, <2>3
<1>3. u \in Nat /\ v * u \in Nat /\ full \in Nat
  <2>1. u \in {255, 85, 17, 1} /\ full \in {255, 65535}
    BY FactorIs, ReadFormats
  <2> HIDE DEF u, full
  <2> QED
    BY <2>1
<1> DEFINE color == Level(v * u)
<1>4. color = <<v * u, v * u, v * u>> /\ color[1] = v * u
  BY DEF Level
<1>5. ASSUME NEW z \in Nat PROVE Append(color, z) = <<v * u, v * u, v * u, z>>
  <2> DEFINE w == v * u
  <2>1. w \in Nat /\ color = <<w, w, w>>
    BY <1>3, <1>4
  <2> HIDE DEF w, color
  <2>2. Append(color, z) = <<w, w, w, z>>
    BY <2>1, AppendThree
  <2> QED
    BY <2>2 DEF w
<1> HIDE DEF color
<1>6. transparent \in Seq(Nat)
  BY TransparentIs
<1>7. CASE trns = <<>>
  <2>1. transparent = <<>>
    BY <1>7, TransparentIs
  <2>2. s # KeySamples
    <3>1. DOMAIN KeySamples = {}
      BY <1>7 DEF KeySamples
    <3> QED
      BY <1>1, <3>1
  <2>3. Keyed(color, full) = Append(color, full)
    BY <1>6, <2>1, KeyedIs
  <2> QED
    BY <1>2, <1>3, <1>5, <2>2, <2>3 DEF color
<1>8. CASE trns # <<>>
  <2>1. PICK t \in Nat :
          /\ t < 65536 /\ trns = <<t>> /\ Len(transparent) = 2
          /\ transparent[1] = t \div 256
          /\ transparent[2] = IF Depth(cb) \in Bits THEN ((t % 256) * Factor(cb)) % 256 ELSE t % 256
    BY <1>8, TransparentIs
  <2>2. Len(transparent) \div 2 = 1
    BY <2>1
  <2>3. Keyed(color, full) = Append(color, IF color[1] = ReaderKey(full)[1] THEN 0 ELSE full)
    BY <1>6, <2>1, KeyedIs
  <2>4. CASE Depth(cb) = 16
    <3>1. full = 65535 /\ u = 1
      BY <2>4, FactorIs
    <3>2. ReaderKey(full)[1] = transparent[1] * 256 + transparent[2]
      <4>1. ReaderKey(full) = [k \in 1..1 |-> transparent[2 * k - 1] * 256 + transparent[2 * k]]
        BY <2>2, <3>1 DEF ReaderKey
      <4> QED
        BY <4>1
    <3>3. transparent[1] * 256 + transparent[2] = t
      <4>1. Depth(cb) \notin Bits
        BY <2>4 DEF Bits
      <4>2. t \div 256 \in Nat /\ t = (t \div 256) * 256 + (t % 256)
        OBVIOUS
      <4> QED
        BY <2>1, <4>1, <4>2
    <3>4. color[1] = v
      BY <1>4, <3>1
    <3>5. s = KeySamples <=> v = t
      <4>1. KeySamples = <<t>>
        BY <2>1, <2>4 DEF KeySamples
      <4> QED
        BY <1>1, <4>1
    <3>6. color[1] = ReaderKey(full)[1] <=> s = KeySamples
      BY <3>2, <3>3, <3>4, <3>5
    <3>7. Keyed(color, full) = Append(color, IF s = KeySamples THEN 0 ELSE full)
      BY <2>3, <3>6
    <3>8. (IF s = KeySamples THEN 0 ELSE full) \in Nat
      BY <1>3
    <3> HIDE DEF color, u, full
    <3>9. Keyed(color, full) = <<v * u, v * u, v * u, IF s = KeySamples THEN 0 ELSE full>>
      BY <1>5, <3>7, <3>8
    <3> QED
      BY <1>2, <3>9 DEF color, u, full
  <2>5. CASE Depth(cb) # 16
    <3>1. full = 255
      BY <2>5, FactorIs
    <3>2. ReaderKey(full)[1] = transparent[2]
      <4>1. ReaderKey(full) = [k \in 1..1 |-> transparent[2 * k]]
        BY <2>2, <3>1 DEF ReaderKey
      <4> QED
        BY <4>1
    <3>3. s = KeySamples <=> v = t % 256
      <4>1. KeySamples = [k \in 1..1 |-> t % 256]
        <5>1. DOMAIN trns = 1..1 /\ trns[1] = t
          BY <2>1
        <5> QED
          BY <2>5, <5>1 DEF KeySamples
      <4> QED
        BY <1>1, <4>1
    <3>4. v * u = transparent[2] <=> v = t % 256
      <4>1. CASE Depth(cb) \in Bits
        <5>1. u \in {255, 85, 17} /\ v * u < 256
          <6>1. CASE Depth(cb) = 1
            BY <6>1, FactorIs, Powers
          <6>2. CASE Depth(cb) = 2
            BY <6>2, FactorIs, Powers
          <6>3. CASE Depth(cb) = 4
            BY <6>3, FactorIs, Powers
          <6> QED
            BY <4>1, <6>1, <6>2, <6>3 DEF Bits
        <5>2. t % 256 \in Nat /\ t % 256 < 256
          BY <2>1
        <5> DEFINE w == t % 256
        <5>3. transparent[2] = (w * u) % 256 /\ w \in Nat /\ w < 256
          BY <2>1, <4>1, <5>2
        <5> HIDE DEF w, u
        <5>4. v * u = (w * u) % 256 <=> v = w
          BY <5>1, <5>3, ScaleApart
        <5> QED
          BY <5>3, <5>4 DEF w
      <4>2. CASE Depth(cb) \notin Bits
        <5>1. u = 1
          BY <2>5, <4>2, FactorIs DEF Bits
        <5> QED
          BY <2>1, <4>2, <5>1
      <4> QED
        BY <4>1, <4>2
    <3> QED
      BY <1>2, <1>3, <1>4, <1>5, <2>3, <3>2, <3>3, <3>4 DEF color
  <2> QED
    BY <2>4, <2>5
<1> QED
  BY <1>7, <1>8

\* A sequence of three
LEMMA TripleIs ==
  ASSUME NEW s, s \in Seq(Nat), Len(s) = 3
  PROVE  /\ s = <<s[1], s[2], s[3]>> /\ s[1] \in Nat /\ s[2] \in Nat /\ s[3] \in Nat
         /\ s = [k \in 1..3 |-> s[k]]
<1>1. DOMAIN s = 1..3 /\ s[1] \in Nat /\ s[2] \in Nat /\ s[3] \in Nat
  <2>1. DOMAIN s = 1..3
    BY LenProperties
  <2>2. \A k \in 1..3 : s[k] \in Nat
    BY ElementOfSeq
  <2>3. 1 \in 1..3 /\ 2 \in 1..3 /\ 3 \in 1..3
    OBVIOUS
  <2> QED
    BY <2>1, <2>2, <2>3
<1> DEFINE t == <<s[1], s[2], s[3]>>
<1>2. t \in Seq(Nat) /\ Len(t) = 3 /\ t[1] = s[1] /\ t[2] = s[2] /\ t[3] = s[3]
  BY <1>1
<1>3. s = [k \in 1..3 |-> s[k]]
  BY <1>1
<1> SUFFICES s = t
  BY <1>1, <1>3
<1> HIDE DEF t
<1>4. \A k \in 1..3 : s[k] = t[k]
  BY <1>2
<1> QED
  BY <1>2, <1>4, SeqEqual

\* So is a pixel of a color.
LEMMA KeyedColor ==
  ASSUME cb \in DOMAIN Parsed, TrnsOK, transparent = Chosen, Parsed[cb][2] = ctTrueColor,
         NEW s \in Seq(Nat), Len(s) = 3
  PROVE  Keyed(s, Full(cb)) = Color(s, cb, KeySamples)
<1> DEFINE full == Full(cb)
<1>1. /\ s = <<s[1], s[2], s[3]>> /\ s[1] \in Nat /\ s[2] \in Nat /\ s[3] \in Nat
      /\ s = [k \in 1..3 |-> s[k]]
  BY TripleIs
<1>2. Channels(cb) = 3 /\ Depth(cb) \in {8, 16} /\ Factor(cb) = 1 /\ full \in Nat
  <2>1. Depth(cb) \in {8, 16}
    BY DEF Depth, Parsed, ctGrayscale, ctPaletted, ctTrueColor, ctGrayscaleAlpha,
           ctTrueColorAlpha
  <2> QED
    BY <2>1, ColorTypesAre, FactorIs
<1>3. Color(s, cb, KeySamples) = <<s[1], s[2], s[3], IF s = KeySamples THEN 0 ELSE full>>
  <2>1. s = [k \in 1..Channels(cb) |-> s[k]] /\ Len(s) = Channels(cb)
    BY <1>1, <1>2
  <2>2. Color(s, cb, KeySamples)
          = <<s[1] * Factor(cb), s[2] * Factor(cb), s[3] * Factor(cb),
              IF s = KeySamples THEN 0 ELSE Full(cb)>>
    <3>1. /\ Parsed[cb][2] # ctPaletted /\ Parsed[cb][2] # ctGrayscale
          /\ Parsed[cb][2] # ctGrayscaleAlpha /\ Parsed[cb][2] = ctTrueColor
      BY DEF ctTrueColor, ctPaletted, ctGrayscale, ctGrayscaleAlpha
    <3> QED
      BY <2>1, <3>1, ColorIs, Zenon
  <2>3. s[1] * Factor(cb) = s[1] /\ s[2] * Factor(cb) = s[2] /\ s[3] * Factor(cb) = s[3]
    BY <1>1, <1>2
  <2> QED
    BY <2>2, <2>3
<1>4. ASSUME NEW z \in Nat PROVE Append(s, z) = <<s[1], s[2], s[3], z>>
  BY <1>1, AppendThree
<1>5. transparent \in Seq(Nat)
  BY TransparentIs
<1> HIDE DEF full
<1>6. CASE trns = <<>>
  <2>1. transparent = <<>>
    BY <1>6, TransparentIs
  <2>2. s # KeySamples
    <3>1. DOMAIN KeySamples = {}
      BY <1>6 DEF KeySamples
    <3> QED
      BY <1>1, <3>1
  <2>3. Keyed(s, full) = Append(s, full)
    BY <1>5, <2>1, KeyedIs
  <2> QED
    BY <1>2, <1>3, <1>4, <2>2, <2>3 DEF full
<1>7. CASE trns # <<>>
  <2>1. /\ trns \in Seq(Nat) /\ Len(trns) = 3 /\ Len(transparent) = 6
        /\ \A k \in 1..3 : /\ trns[k] < 65536
                           /\ transparent[2 * k - 1] = trns[k] \div 256
                           /\ transparent[2 * k] = trns[k] % 256
    BY <1>7, TransparentIs
  <2>2. Len(transparent) \div 2 = 3
    BY <2>1
  <2>3. Keyed(s, full) = Append(s, IF s = ReaderKey(full) THEN 0 ELSE full)
    <3>1. Len(transparent) = 6
      BY <2>1
    <3> QED
      BY <1>5, <3>1, KeyedIs, Zenon
  <2>4. ReaderKey(full) = KeySamples
    <3>1. CASE Depth(cb) = 16
      <4>1. full = 65535
        BY <3>1, FactorIs DEF full
      <4>2. ReaderKey(full) = [k \in 1..3 |-> transparent[2 * k - 1] * 256 + transparent[2 * k]]
        BY <2>2, <4>1 DEF ReaderKey
      <4>3. ASSUME NEW k \in 1..3
            PROVE  transparent[2 * k - 1] * 256 + transparent[2 * k] = trns[k]
        <5>1. trns[k] \in Nat
          <6>1. trns \in Seq(Nat) /\ k \in 1..Len(trns)
            BY <2>1
          <6> QED
            BY <6>1, ElementOfSeq
        <5> DEFINE t == trns[k]
        <5>2. transparent[2 * k - 1] = t \div 256 /\ transparent[2 * k] = t % 256 /\ t \in Nat
          BY <2>1, <5>1
        <5> HIDE DEF t
        <5>3. (t \div 256) * 256 + (t % 256) = t
          BY <5>2
        <5> QED
          BY <5>2, <5>3 DEF t
      <4>4. ReaderKey(full) = [k \in 1..3 |-> trns[k]]
        BY <4>2, <4>3
      <4>5. KeySamples = trns
        BY <3>1 DEF KeySamples
      <4>6. trns = [k \in 1..3 |-> trns[k]]
        BY <2>1, TripleIs
      <4> QED
        BY <4>4, <4>5, <4>6
    <3>2. CASE Depth(cb) # 16
      <4>1. full # 65535
        BY <3>2, FactorIs DEF full
      <4>2. ReaderKey(full) = [k \in 1..3 |-> transparent[2 * k]]
        BY <2>2, <4>1 DEF ReaderKey
      <4>3. DOMAIN trns = 1..3
        BY <2>1
      <4>4. KeySamples = [k \in 1..3 |-> trns[k] % 256]
        BY <3>2, <4>3 DEF KeySamples
      <4> QED
        BY <2>1, <4>2, <4>4
    <3> QED
      BY <3>1, <3>2
  <2> QED
    BY <1>2, <1>3, <1>4, <2>3, <2>4 DEF full
<1> QED
  BY <1>6, <1>7 DEF full

-----------------------------------------------------------------------------
(* A row that is unpacked: samples of whole bytes *)

Decoded(bytes, j) == Color(SamplesAt(bytes, cb, j), cb, KeySamples)

\* The samples of a row of bytes
LEMMA WholeSamples ==
  ASSUME Sized, cb \in DOMAIN Parsed, Depth(cb) \notin Bits, NEW ps \in PassSet,
         NEW n \in Nat, n < Wide(ps), IsRow(ps, cdat)
  PROVE  LET s == SamplesAt(cdat, cb, n)
             at0(k) == n * Channels(cb) + k - 1
         IN  /\ s \in Seq(Nat) /\ Len(s) = Channels(cb)
             /\ s = [k \in 1..Channels(cb) |-> s[k]]
             /\ \A k \in 1..Channels(cb) :
                  /\ s[k] \in Nat /\ s[k] < 2^Depth(cb)
                  /\ s[k] = IF Depth(cb) = 16
                            THEN cdat[2 * at0(k)] * 256 + cdat[2 * at0(k) + 1]
                            ELSE cdat[at0(k)]
<1> DEFINE d == Depth(cb)
           m == Channels(cb)
           s == SamplesAt(cdat, cb, n)
           at0(k) == n * m + k - 1
           W == Wide(ps)
           size == FileSize(ps)
<1>1. d \in {8, 16} /\ m \in {1, 2, 3, 4} /\ W \in Nat
  <2>1. d \in {8, 16} /\ m \in {1, 2, 3, 4}
    BY ReadFormats DEF Bits
  <2> QED
    BY <2>1, GridBound
<1>2. size = IF d = 16 THEN 2 * (W * m) ELSE W * m
  <2>1. size = (d * m * W + 7) \div 8
    BY DEF FileSize, RowBytes
  <2> HIDE DEF d, m, W, size
  <2>2. CASE m = 1
    BY <1>1, <2>1, <2>2
  <2>3. CASE m = 2
    BY <1>1, <2>1, <2>3
  <2>4. CASE m = 3
    BY <1>1, <2>1, <2>4
  <2>5. CASE m = 4
    BY <1>1, <2>1, <2>5
  <2> QED
    BY <1>1, <2>2, <2>3, <2>4, <2>5
<1>3. ASSUME NEW k \in 1..m
      PROVE  at0(k) \in Nat /\ at0(k) < W * m
  <2>1. n + 1 <= W /\ n + 1 \in Nat
    BY <1>1
  <2> HIDE DEF W, m
  <2>2. (n + 1) * m <= W * m /\ (n + 1) * m \in Nat /\ W * m \in Nat
    BY <1>1, <2>1, TimesMonotone
  <2>3. (n + 1) * m = n * m + m /\ n * m \in Nat
    BY <1>1
  <2>4. k \in Nat /\ 1 <= k /\ k <= m
    BY <1>1
  <2> DEFINE u == n * m
             w == W * m
  <2>5. u \in Nat /\ w \in Nat /\ u + m <= w
    BY <2>2, <2>3
  <2> HIDE DEF u, w
  <2>6. u + k - 1 \in Nat /\ u + k - 1 < w
    BY <1>1, <2>4, <2>5
  <2> QED
    BY <2>6 DEF u, w
<1>4. \A k \in Nat : k < size => cdat[k] \in Nat /\ cdat[k] < 256
  BY DEF IsRow, IsByte
<1>5. s = [k \in 1..m |-> SampleAt(cdat, d, at0(k))]
  BY DEF SamplesAt
<1>6. ASSUME NEW k \in 1..m
      PROVE  /\ SampleAt(cdat, d, at0(k)) \in Nat /\ SampleAt(cdat, d, at0(k)) < 2^d
             /\ SampleAt(cdat, d, at0(k))
                  = IF d = 16 THEN cdat[2 * at0(k)] * 256 + cdat[2 * at0(k) + 1]
                    ELSE cdat[at0(k)]
  <2> DEFINE q == at0(k)
             w == W * m
  <2>1. q \in Nat /\ q < w /\ w \in Nat
    <3>1. W * m \in Nat
      <4> HIDE DEF W, m
      <4> QED
        BY <1>1
    <3> QED
      BY <1>3, <3>1
  <2>2. size = IF d = 16 THEN 2 * w ELSE w
    BY <1>2
  <2> SUFFICES /\ SampleAt(cdat, d, q) \in Nat /\ SampleAt(cdat, d, q) < 2^d
               /\ SampleAt(cdat, d, q)
                    = IF d = 16 THEN cdat[2 * q] * 256 + cdat[2 * q + 1] ELSE cdat[q]
    OBVIOUS
  <2> HIDE DEF q, w, d, size
  <2>3. CASE d = 8
    <3>1. cdat[q] \in Nat /\ cdat[q] < 256
      BY <1>4, <2>1, <2>2, <2>3
    <3>2. SampleAt(cdat, 8, q) = cdat[q]
      BY <2>1, <3>1, SampleIsByte
    <3> QED
      BY <2>3, <3>1, <3>2, Powers
  <2>4. CASE d = 16
    <3>1. 2 * q \in Nat /\ 2 * q + 1 \in Nat /\ 2 * q < size /\ 2 * q + 1 < size
      BY <2>1, <2>2, <2>4
    <3>2. /\ cdat[2 * q] \in Nat /\ cdat[2 * q] < 256
          /\ cdat[2 * q + 1] \in Nat /\ cdat[2 * q + 1] < 256
      BY <1>4, <3>1
    <3>3. SampleAt(cdat, 16, q) = cdat[2 * q] * 256 + cdat[2 * q + 1]
      BY DEF SampleAt
    <3> QED
      BY <2>4, <3>2, <3>3, Powers
  <2> QED
    BY <1>1, <2>3, <2>4 DEF d
<1> HIDE DEF s
<1>7. s \in [1..m -> Nat]
  BY <1>5, <1>6
<1>8. s \in Seq(Nat) /\ Len(s) = m
  <2>1. m \in Nat
    BY <1>1
  <2> HIDE DEF m
  <2> QED
    BY <1>7, <2>1, FunctionIsSeq
<1>9. \A k \in 1..m : s[k] = SampleAt(cdat, d, at0(k))
  BY <1>5
<1>10. s = [k \in 1..m |-> s[k]]
  BY <1>5
<1>11. \A k \in 1..m :
         /\ s[k] \in Nat /\ s[k] < 2^d
         /\ s[k] = IF d = 16 THEN cdat[2 * at0(k)] * 256 + cdat[2 * at0(k) + 1]
                   ELSE cdat[at0(k)]
  <2> SUFFICES ASSUME NEW k \in 1..m
               PROVE  /\ s[k] \in Nat /\ s[k] < 2^d
                      /\ s[k] = IF d = 16 THEN cdat[2 * at0(k)] * 256 + cdat[2 * at0(k) + 1]
                                ELSE cdat[at0(k)]
    OBVIOUS
  <2>1. s[k] = SampleAt(cdat, d, at0(k))
    BY <1>9
  <2>2. /\ SampleAt(cdat, d, at0(k)) \in Nat /\ SampleAt(cdat, d, at0(k)) < 2^d
        /\ SampleAt(cdat, d, at0(k))
             = IF d = 16 THEN cdat[2 * at0(k)] * 256 + cdat[2 * at0(k) + 1]
               ELSE cdat[at0(k)]
    BY <1>6
  <2> HIDE DEF at0, m, d
  <2> QED
    BY <2>1, <2>2
<1> QED
  BY <1>8, <1>10, <1>11 DEF s

\* What readImagePass makes of them, in each format
LEMMA PixelAtIs ==
  ASSUME Sized, cb \in DOMAIN Parsed, dcb = cb, Depth(cb) \notin Bits, NEW ps \in PassSet,
         NEW n \in Nat, n < Wide(ps), IsRow(ps, cdat)
  PROVE  LET s == SamplesAt(cdat, cb, n)
             type == Parsed[cb][2]
         IN  PixelAt(n) =
               IF type = ctPaletted THEN <<s[1]>>
               ELSE IF type = ctGrayscale THEN Keyed(Level(s[1]), Full(cb))
               ELSE IF type = ctGrayscaleAlpha THEN Append(Level(s[1]), s[2])
               ELSE IF type = ctTrueColor THEN Keyed([k \in 1..3 |-> s[k]], Full(cb))
               ELSE [k \in 1..4 |-> s[k]]
<1> DEFINE s == SamplesAt(cdat, cb, n)
           wide(k) == cdat[k] * 256 + cdat[k + 1]
           type == Parsed[cb][2]
<1>1. PixelAt(n) =
        CASE dcb = "cbP8"   -> <<cdat[n]>>
          [] dcb = "cbG8"   -> Keyed(Level(cdat[n]), 255)
          [] dcb = "cbG16"  -> Keyed(Level(wide(2 * n)), 65535)
          [] dcb = "cbGA8"  -> Append(Level(cdat[2 * n]), cdat[2 * n + 1])
          [] dcb = "cbGA16" -> Append(Level(wide(4 * n)), wide(4 * n + 2))
          [] dcb = "cbTC8"  -> Keyed([k \in 1..3 |-> cdat[3 * n + k - 1]], 255)
          [] dcb = "cbTC16" -> Keyed([k \in 1..3 |-> wide(6 * n + 2 * k - 2)], 65535)
          [] dcb = "cbTCA8" -> [k \in 1..4 |-> cdat[4 * n + k - 1]]
          [] dcb = "cbTCA16" -> [k \in 1..4 |-> wide(8 * n + 2 * k - 2)]
  BY DEF PixelAt
<1>2. \A k \in 1..Channels(cb) :
        s[k] = IF Depth(cb) = 16
               THEN cdat[2 * (n * Channels(cb) + k - 1)] * 256
                      + cdat[2 * (n * Channels(cb) + k - 1) + 1]
               ELSE cdat[n * Channels(cb) + k - 1]
  BY WholeSamples
<1> HIDE DEF s
<1>3. cb \in {"cbG8", "cbP8", "cbTC8", "cbTCA8", "cbGA8", "cbGA16", "cbG16", "cbTC16",
              "cbTCA16"}
  BY DEF Parsed, Depth, Bits
<1>4. CASE cb = "cbP8"
  <2>1. type = ctPaletted /\ Depth(cb) = 8 /\ Channels(cb) = 1
    BY <1>4 DEF Parsed, Depth, Channels, Full, ctGrayscale, ctPaletted, ctTrueColor,
                ctGrayscaleAlpha, ctTrueColorAlpha
  <2>2. s[1] = cdat[n]
    BY <1>2, <2>1
  <2>3. PixelAt(n) = <<cdat[n]>>
    BY <1>1, <1>4
  <2> QED
    BY <2>1, <2>2, <2>3 DEF s
<1>5. CASE cb = "cbG8"
  <2>1. /\ type = ctGrayscale /\ type # ctPaletted /\ Depth(cb) = 8 /\ Channels(cb) = 1
        /\ Full(cb) = 255
    BY <1>5 DEF Parsed, Depth, Channels, Full, ctGrayscale, ctPaletted, ctTrueColor,
                ctGrayscaleAlpha, ctTrueColorAlpha
  <2>2. s[1] = cdat[n]
    BY <1>2, <2>1
  <2>3. PixelAt(n) = Keyed(Level(cdat[n]), 255)
    BY <1>1, <1>5
  <2> QED
    BY <2>1, <2>2, <2>3 DEF s
<1>6. CASE cb = "cbG16"
  <2>1. /\ type = ctGrayscale /\ type # ctPaletted /\ Depth(cb) = 16 /\ Channels(cb) = 1
        /\ Full(cb) = 65535
    BY <1>6 DEF Parsed, Depth, Channels, Full, ctGrayscale, ctPaletted, ctTrueColor,
                ctGrayscaleAlpha, ctTrueColorAlpha
  <2>2. s[1] = wide(2 * n)
    BY <1>2, <2>1
  <2>3. PixelAt(n) = Keyed(Level(wide(2 * n)), 65535)
    BY <1>1, <1>6
  <2> QED
    BY <2>1, <2>2, <2>3 DEF s
<1>7. CASE cb = "cbGA8"
  <2>1. /\ type = ctGrayscaleAlpha /\ type # ctPaletted /\ type # ctGrayscale
        /\ Depth(cb) = 8 /\ Channels(cb) = 2
    BY <1>7 DEF Parsed, Depth, Channels, Full, ctGrayscale, ctPaletted, ctTrueColor,
                ctGrayscaleAlpha, ctTrueColorAlpha
  <2>2. s[1] = cdat[2 * n] /\ s[2] = cdat[2 * n + 1]
    <3>1. n * 2 + 1 - 1 = 2 * n /\ n * 2 + 2 - 1 = 2 * n + 1
      OBVIOUS
    <3> QED
      BY <1>2, <2>1, <3>1
  <2>3. PixelAt(n) = Append(Level(cdat[2 * n]), cdat[2 * n + 1])
    BY <1>1, <1>7
  <2> QED
    BY <2>1, <2>2, <2>3 DEF s
<1>8. CASE cb = "cbGA16"
  <2>1. /\ type = ctGrayscaleAlpha /\ type # ctPaletted /\ type # ctGrayscale
        /\ Depth(cb) = 16 /\ Channels(cb) = 2
    BY <1>8 DEF Parsed, Depth, Channels, Full, ctGrayscale, ctPaletted, ctTrueColor,
                ctGrayscaleAlpha, ctTrueColorAlpha
  <2>2. s[1] = wide(4 * n) /\ s[2] = wide(4 * n + 2)
    <3>1. 2 * (n * 2 + 1 - 1) = 4 * n /\ 2 * (n * 2 + 2 - 1) = 4 * n + 2
      OBVIOUS
    <3> QED
      BY <1>2, <2>1, <3>1
  <2>3. PixelAt(n) = Append(Level(wide(4 * n)), wide(4 * n + 2))
    BY <1>1, <1>8
  <2> QED
    BY <2>1, <2>2, <2>3 DEF s
<1>9. CASE cb = "cbTC8"
  <2>1. /\ type = ctTrueColor /\ type # ctPaletted /\ type # ctGrayscale
        /\ type # ctGrayscaleAlpha /\ Depth(cb) = 8 /\ Channels(cb) = 3 /\ Full(cb) = 255
    BY <1>9 DEF Parsed, Depth, Channels, Full, ctGrayscale, ctPaletted, ctTrueColor,
                ctGrayscaleAlpha, ctTrueColorAlpha
  <2>2. \A k \in 1..3 : s[k] = cdat[3 * n + k - 1]
    <3>1. \A k \in 1..3 : n * 3 + k - 1 = 3 * n + k - 1
      OBVIOUS
    <3> QED
      BY <1>2, <2>1, <3>1
  <2>3. PixelAt(n) = Keyed([k \in 1..3 |-> cdat[3 * n + k - 1]], 255)
    BY <1>1, <1>9
  <2>4. [k \in 1..3 |-> cdat[3 * n + k - 1]] = [k \in 1..3 |-> s[k]]
    BY <2>2
  <2> QED
    BY <2>1, <2>3, <2>4 DEF s
<1>10. CASE cb = "cbTC16"
  <2>1. /\ type = ctTrueColor /\ type # ctPaletted /\ type # ctGrayscale
        /\ type # ctGrayscaleAlpha /\ Depth(cb) = 16 /\ Channels(cb) = 3
        /\ Full(cb) = 65535
    BY <1>10 DEF Parsed, Depth, Channels, Full, ctGrayscale, ctPaletted, ctTrueColor,
                ctGrayscaleAlpha, ctTrueColorAlpha
  <2>2. \A k \in 1..3 : s[k] = wide(6 * n + 2 * k - 2)
    <3>1. \A k \in 1..3 : 2 * (n * 3 + k - 1) = 6 * n + 2 * k - 2
      OBVIOUS
    <3> QED
      BY <1>2, <2>1, <3>1
  <2>3. PixelAt(n) = Keyed([k \in 1..3 |-> wide(6 * n + 2 * k - 2)], 65535)
    BY <1>1, <1>10
  <2>4. [k \in 1..3 |-> wide(6 * n + 2 * k - 2)] = [k \in 1..3 |-> s[k]]
    BY <2>2
  <2> QED
    BY <2>1, <2>3, <2>4 DEF s
<1>11. CASE cb = "cbTCA8"
  <2>1. /\ type = ctTrueColorAlpha /\ type # ctPaletted /\ type # ctGrayscale
        /\ type # ctGrayscaleAlpha /\ type # ctTrueColor
        /\ Depth(cb) = 8 /\ Channels(cb) = 4
    BY <1>11 DEF Parsed, Depth, Channels, Full, ctGrayscale, ctPaletted, ctTrueColor,
                ctGrayscaleAlpha, ctTrueColorAlpha
  <2>2. \A k \in 1..4 : s[k] = cdat[4 * n + k - 1]
    <3>1. \A k \in 1..4 : n * 4 + k - 1 = 4 * n + k - 1
      OBVIOUS
    <3> QED
      BY <1>2, <2>1, <3>1
  <2>3. PixelAt(n) = [k \in 1..4 |-> cdat[4 * n + k - 1]]
    BY <1>1, <1>11
  <2> QED
    BY <2>1, <2>2, <2>3 DEF s
<1>12. CASE cb = "cbTCA16"
  <2>1. /\ type = ctTrueColorAlpha /\ type # ctPaletted /\ type # ctGrayscale
        /\ type # ctGrayscaleAlpha /\ type # ctTrueColor
        /\ Depth(cb) = 16 /\ Channels(cb) = 4
    BY <1>12 DEF Parsed, Depth, Channels, Full, ctGrayscale, ctPaletted, ctTrueColor,
                ctGrayscaleAlpha, ctTrueColorAlpha
  <2>2. \A k \in 1..4 : s[k] = wide(8 * n + 2 * k - 2)
    <3>1. \A k \in 1..4 : 2 * (n * 4 + k - 1) = 8 * n + 2 * k - 2
      OBVIOUS
    <3> QED
      BY <1>2, <2>1, <3>1
  <2>3. PixelAt(n) = [k \in 1..4 |-> wide(8 * n + 2 * k - 2)]
    BY <1>1, <1>12
  <2> QED
    BY <2>1, <2>2, <2>3 DEF s
<1> QED
  BY <1>3, <1>4, <1>5, <1>6, <1>7, <1>8, <1>9, <1>10, <1>11, <1>12

\* A sequence of four
LEMMA QuadIs ==
  ASSUME NEW s \in Seq(Nat), Len(s) = 4
  PROVE  /\ s = <<s[1], s[2], s[3], s[4]>> /\ s[1] \in Nat /\ s[2] \in Nat /\ s[3] \in Nat
         /\ s[4] \in Nat
<1>1. s[1] \in Nat /\ s[2] \in Nat /\ s[3] \in Nat /\ s[4] \in Nat
  <2>1. \A k \in 1..4 : s[k] \in Nat
    BY ElementsOf
  <2>2. 1 \in 1..4 /\ 2 \in 1..4 /\ 3 \in 1..4 /\ 4 \in 1..4
    OBVIOUS
  <2> QED
    BY <2>1, <2>2
<1> DEFINE t == <<s[1], s[2], s[3], s[4]>>
<1>2. /\ t \in Seq(Nat) /\ Len(t) = 4
      /\ t[1] = s[1] /\ t[2] = s[2] /\ t[3] = s[3] /\ t[4] = s[4]
  BY <1>1
<1> SUFFICES s = t
  BY <1>1
<1> HIDE DEF t
<1>3. \A k \in 1..4 : s[k] = t[k]
  BY <1>2
<1> QED
  BY <1>2, <1>3, SeqEqual

\* ... is the color that the standard says.
LEMMA PixelIsDecoded ==
  ASSUME Sized, cb \in DOMAIN Parsed, dcb = cb, Depth(cb) \notin Bits, TrnsOK,
         transparent = Chosen, NEW ps \in PassSet, NEW n \in Nat, n < Wide(ps),
         IsRow(ps, cdat)
  PROVE  PixelAt(n) = Decoded(cdat, n)
<1> DEFINE s == SamplesAt(cdat, cb, n)
           type == Parsed[cb][2]
           m == Channels(cb)
           p == PixelAt(n)
<1>1. /\ s \in Seq(Nat) /\ Len(s) = m /\ s = [k \in 1..m |-> s[k]]
      /\ \A k \in 1..m : s[k] \in Nat /\ s[k] < 2^Depth(cb)
  BY WholeSamples
<1>2. p = IF type = ctPaletted THEN <<s[1]>>
          ELSE IF type = ctGrayscale THEN Keyed(Level(s[1]), Full(cb))
          ELSE IF type = ctGrayscaleAlpha THEN Append(Level(s[1]), s[2])
          ELSE IF type = ctTrueColor THEN Keyed([k \in 1..3 |-> s[k]], Full(cb))
          ELSE [k \in 1..4 |-> s[k]]
  BY PixelAtIs
<1> SUFFICES p = Color(s, cb, KeySamples)
  BY DEF Decoded
<1> HIDE DEF s, p
<1> DEFINE color == Color(s, cb, KeySamples)
           u == Factor(cb)
           alpha == IF s = KeySamples THEN 0 ELSE Full(cb)
<1>3. color =
        IF type = ctPaletted THEN s
        ELSE IF type = ctGrayscale THEN <<s[1] * u, s[1] * u, s[1] * u, alpha>>
        ELSE IF type = ctGrayscaleAlpha THEN <<s[1] * u, s[1] * u, s[1] * u, s[2]>>
        ELSE IF type = ctTrueColor THEN <<s[1] * u, s[2] * u, s[3] * u, alpha>>
        ELSE <<s[1] * u, s[2] * u, s[3] * u, s[4]>>
  BY <1>1, ColorIs
<1>4. u = 1
  <2>1. Depth(cb) \in {8, 16}
    BY ReadFormats DEF Bits
  <2> QED
    BY <2>1, FactorIs
<1> HIDE DEF u, alpha, color
<1>5. CASE type = ctPaletted
  <2>1. m = 1
    BY <1>5, ColorTypesAre
  <2> QED
    BY <1>1, <1>2, <1>3, <1>5, <2>1, SingleIs DEF color
<1>6. CASE type = ctGrayscale
  <2>1. m = 1 /\ type # ctPaletted
    BY <1>6, ColorTypesAre DEF ctGrayscale, ctPaletted
  <2> DEFINE v == s[1]
  <2>2. v \in Nat /\ v < 2^Depth(cb) /\ s = [k \in 1..1 |-> v]
    BY <1>1, <2>1
  <2>3. p = Keyed(Level(v), Full(cb))
    BY <1>2, <1>6, <2>1
  <2> HIDE DEF v
  <2>4. v * Factor(cb) = v
    BY <1>4, <2>2 DEF u
  <2>5. Keyed(Level(v * Factor(cb)), Full(cb)) = Color(s, cb, KeySamples)
    BY <1>6, <2>2, KeyedGray
  <2> QED
    BY <2>3, <2>4, <2>5
<1>7. CASE type = ctGrayscaleAlpha
  <2>1. m = 2 /\ type # ctPaletted /\ type # ctGrayscale
    BY <1>7, ColorTypesAre DEF ctGrayscale, ctPaletted, ctGrayscaleAlpha
  <2> DEFINE v == s[1]
             w == s[2]
  <2>2. v \in Nat /\ w \in Nat
    BY <1>1, <2>1
  <2>3. p = Append(Level(v), w) /\ color = <<v * u, v * u, v * u, w>>
    BY <1>2, <1>3, <1>7, <2>1
  <2> HIDE DEF v, w
  <2>4. v * u = v
    BY <1>4, <2>2
  <2>5. Append(<<v, v, v>>, w) = <<v, v, v, w>>
    BY <2>2, AppendThree
  <2> QED
    BY <2>3, <2>4, <2>5 DEF Level, color
<1>8. CASE type = ctTrueColor
  <2>1. m = 3 /\ type # ctPaletted /\ type # ctGrayscale /\ type # ctGrayscaleAlpha
    BY <1>8, ColorTypesAre DEF ctGrayscale, ctPaletted, ctGrayscaleAlpha, ctTrueColor
  <2>2. p = Keyed([k \in 1..3 |-> s[k]], Full(cb))
    BY <1>2, <1>8, <2>1
  <2>3. Len(s) = 3 /\ s = [k \in 1..3 |-> s[k]] /\ s \in Seq(Nat)
    BY <1>1, <2>1
  <2>4. Keyed(s, Full(cb)) = Color(s, cb, KeySamples)
    BY <1>8, <2>3, KeyedColor
  <2> QED
    BY <2>2, <2>3, <2>4
<1>9. CASE type = ctTrueColorAlpha
  <2>1. /\ m = 4 /\ type # ctPaletted /\ type # ctGrayscale /\ type # ctGrayscaleAlpha
        /\ type # ctTrueColor
    BY <1>9, ColorTypesAre DEF ctGrayscale, ctPaletted, ctGrayscaleAlpha, ctTrueColor,
                               ctTrueColorAlpha
  <2>2. p = [k \in 1..4 |-> s[k]] /\ color = <<s[1] * u, s[2] * u, s[3] * u, s[4]>>
    BY <1>2, <1>3, <2>1
  <2>3. s = [k \in 1..4 |-> s[k]] /\ Len(s) = 4 /\ s \in Seq(Nat)
    BY <1>1, <2>1
  <2>4. s = <<s[1], s[2], s[3], s[4]>> /\ s[1] \in Nat /\ s[2] \in Nat /\ s[3] \in Nat
    BY <2>3, QuadIs
  <2>5. s[1] * u = s[1] /\ s[2] * u = s[2] /\ s[3] * u = s[3]
    BY <1>4, <2>4
  <2> QED
    BY <2>2, <2>3, <2>4, <2>5 DEF color
<1> QED
  BY <1>5, <1>6, <1>7, <1>8, <1>9, ColorTypesAre

-----------------------------------------------------------------------------
(* A row that is unpacked: samples of less than a byte *)

\* A byte that is shifted by so many samples, as uint8
Shifted(d, v, r) == (v * 2^(d * r)) % 256

\* Quotients and remainders
LEMMA DivisionIs ==
  ASSUME NEW w \in Nat \ {0}, NEW n \in Nat
  PROVE  n = w * (n \div w) + (n % w) /\ n % w \in 0..(w - 1) /\ n \div w \in Nat
OBVIOUS

\* Associativity and distributivity, as they are needed below
LEMMA Products ==
  ASSUME NEW S \in Nat, NEW J \in Nat, NEW B \in Nat, NEW q \in Nat, NEW t \in Nat,
         NEW u \in Nat
  PROVE  ((q * B + t) * J + u) * S = q * ((J * S) * B) + (t * (J * S) + u * S)
<1>1. ((q * B + t) * J + u) * S = (q * B + t) * J * S + u * S
  OBVIOUS
<1>2. (q * B + t) * J * S = (q * B + t) * (J * S)
  OBVIOUS
<1> DEFINE K == J * S
<1>3. K \in Nat
  OBVIOUS
<1> HIDE DEF K
<1>4. (q * B + t) * K = q * (K * B) + t * K
  BY <1>3
<1>5. /\ q * B + t \in Nat /\ q * (K * B) \in Nat /\ t * K \in Nat /\ u * S \in Nat
  BY <1>3
<1> DEFINE l == (q * B + t) * J * S
           l1 == (q * B + t) * K
           l2 == q * (K * B)
           l3 == t * K
           l4 == u * S
<1>6. l = l1 /\ l1 = l2 + l3 /\ l2 \in Nat /\ l3 \in Nat /\ l4 \in Nat
  BY <1>2, <1>4, <1>5 DEF K
<1>7. ((q * B + t) * J + u) * S = l + l4
  BY <1>1
<1> HIDE DEF l, l1, l2, l3, l4
<1>8. ((q * B + t) * J + u) * S = l2 + (l3 + l4)
  BY <1>6, <1>7
<1> QED
  BY <1>8 DEF l2, l3, l4, K

\* A number below a product
LEMMA BelowProduct ==
  ASSUME NEW J \in Nat, NEW S \in Nat \ {0}, NEW u \in Nat, NEW e \in Nat, u < J, e < S
  PROVE  u * S + e \in Nat /\ u * S + e < J * S
<1>1. u + 1 \in Nat /\ u + 1 <= J
  OBVIOUS
<1>2. (u + 1) * S <= J * S /\ J * S \in Nat
  BY <1>1, TimesMonotone
<1>3. (u + 1) * S = u * S + S /\ u * S \in Nat
  OBVIOUS
<1> DEFINE k == u * S
           l == J * S
<1>4. k \in Nat /\ l \in Nat /\ k + S <= l
  BY <1>2, <1>3
<1> HIDE DEF k, l
<1>5. k + e \in Nat /\ k + e < l
  BY <1>4
<1> QED
  BY <1>5 DEF k, l

\* A multiple of the modulus can be left out.
LEMMA LeftOut ==
  ASSUME NEW m \in Nat \ {0}, NEW q \in Nat, NEW z \in Nat
  PROVE  (q * m + z) % m = z % m
<1> DEFINE g == z \div m
           h == z % m
<1>1. z = m * g + h /\ h \in 0..(m - 1) /\ g \in Nat
  BY DivisionIs
<1> HIDE DEF g, h
<1>2. q * m + z = (q + g) * m + h
  <2>1. (q + g) * m = q * m + g * m /\ m * g = g * m
    BY <1>1
  <2> DEFINE k == q * m
             l == g * m
  <2>2. k \in Nat /\ l \in Nat /\ z = l + h /\ (q + g) * m = k + l
    BY <1>1, <2>1
  <2> HIDE DEF k, l
  <2>3. k + z = (q + g) * m + h
    BY <1>1, <2>2
  <2> QED
    BY <2>3 DEF k
<1>3. ((q + g) * m + h) % m = h
  BY <1>1, RowMajor
<1> QED
  BY <1>2, <1>3 DEF h

\* ... and still when the number is multiplied.
TimesLeavesOut(m, q, f, B, w) == w = q * m + f => (w * B) % m = (f * B) % m

\* The product leaves the multiple out.
LEMMA TimesLeftOut ==
  ASSUME NEW m \in Nat \ {0}, NEW q \in Nat, NEW f \in Nat, NEW B \in Nat, NEW w \in Nat
  PROVE  TimesLeavesOut(m, q, f, B, w)
<1>0. SUFFICES ((q * m + f) * B) % m = (f * B) % m
  BY DEF TimesLeavesOut
<1>1. /\ \A k, l, j \in Nat : (k + l) * j = k * j + l * j /\ (k * l) * j = (k * j) * l
      /\ \A k, l \in Nat : k * l \in Nat
  OBVIOUS
<1>2. q * m \in Nat /\ q * B \in Nat /\ f * B \in Nat
  BY <1>1
<1>3. (q * m + f) * B = (q * m) * B + f * B /\ (q * m) * B = (q * B) * m
  BY <1>1, <1>2
<1> DEFINE k == q * B
           z == f * B
<1>4. k \in Nat /\ z \in Nat
  BY <1>2
<1>5. (q * m + f) * B = k * m + z
  BY <1>3
<1> HIDE DEF k, z
<1>6. (k * m + z) % m = z % m
  BY <1>4, LeftOut
<1> QED
  BY <1>5, <1>6 DEF z

\* A digit to the base B, with J below it, is moved up by S, to the top of a number
\* of m.
MovesUp(S, J, B, v, K, m, res) ==
  K = J * S /\ m = K * B /\ res = (v * S) % m
  => /\ res < m
     /\ res \div K = (v \div J) % B
     /\ (res * B) % m = (v * (S * B)) % m

\* The number that is moved up has these parts.
LEMMA MovedUp ==
  ASSUME NEW S \in Nat \ {0}, NEW J \in Nat \ {0}, NEW B \in Nat \ {0}, NEW v \in Nat,
         NEW K \in Nat \ {0}, NEW m \in Nat \ {0}, NEW res \in Nat
  PROVE  MovesUp(S, J, B, v, K, m, res)
<1>0. SUFFICES ASSUME K = J * S, m = K * B, res = (v * S) % m
               PROVE  /\ res < m
                      /\ res \div K = (v \div J) % B
                      /\ (res * B) % m = (v * (S * B)) % m
  BY DEF MovesUp
<1> DEFINE n == v \div J
           u == v % J
           q == n \div B
           t == n % B
<1>1. v = J * n + u /\ u \in 0..(J - 1) /\ n \in Nat
  BY DivisionIs
<1>2. n = B * q + t /\ t \in 0..(B - 1) /\ q \in Nat
  BY <1>1, DivisionIs
<1>3. v \div J = n /\ n % B = t
  OBVIOUS
<1> HIDE DEF n, u, q, t
<1>4. v = (q * B + t) * J + u /\ u \in Nat /\ u < J /\ t \in Nat /\ t < B
  <2>1. J * n = n * J /\ B * q = q * B
    BY <1>1, <1>2
  <2> QED
    BY <1>1, <1>2, <2>1
<1>5. K \in Nat \ {0} /\ m \in Nat \ {0}
  OBVIOUS
<1> DEFINE e == u * S
           low == t * K + e
<1>6. e \in 0..(K - 1)
  <2>1. 0 \in Nat /\ 0 < S
    OBVIOUS
  <2>2. u * S + 0 \in Nat /\ u * S + 0 < J * S
    BY <1>4, <2>1, BelowProduct
  <2>3. e \in Nat
    BY <1>4
  <2>4. e + 0 < K
    BY <1>0, <2>2
  <2> HIDE DEF e
  <2> QED
    BY <1>5, <2>3, <2>4
<1> HIDE DEF e
<1>7. low \in 0..(m - 1)
  <2>1. e \in Nat /\ e < K
    BY <1>5, <1>6
  <2>2. t * K + e \in Nat /\ t * K + e < B * K
    BY <1>4, <1>5, <2>1, BelowProduct
  <2>3. B * K = m
    BY <1>0, <1>5
  <2> HIDE DEF low
  <2>4. low \in Nat /\ low < m
    BY <2>2, <2>3 DEF low
  <2> QED
    BY <1>5, <2>4
<1>8. v * S = q * m + low
  <2>1. v * S = q * ((J * S) * B) + (t * (J * S) + u * S)
    BY <1>2, <1>4, Products
  <2> QED
    BY <1>0, <2>1 DEF low, e
<1>9. res = low
  <2> HIDE DEF low
  <2>1. (q * m + low) % m = low
    BY <1>2, <1>5, <1>7, RowMajor
  <2> QED
    BY <1>0, <1>8, <2>1
<1>10. res \div K = t
  BY <1>4, <1>5, <1>6, <1>9, RowMajor
<1>11. (v * (S * B)) % m = (low * B) % m
  <2> DEFINE w == v * S
  <2>1. v * (S * B) = w * B /\ w \in Nat
    OBVIOUS
  <2>2. w = q * m + low
    BY <1>8
  <2> HIDE DEF low, w
  <2>3. low \in Nat
    BY <1>7
  <2>4. (w * B) % m = (low * B) % m
    <3>1. TimesLeavesOut(m, q, low, B, w)
      BY <1>2, <2>1, <2>3, TimesLeftOut
    <3> QED
      BY <2>2, <3>1 DEF TimesLeavesOut
  <2> QED
    BY <2>1, <2>4
<1> HIDE DEF low
<1> QED
  BY <1>3, <1>5, <1>7, <1>9, <1>10, <1>11

\* What is shifted out of a byte is its samples, from the high end.
LEMMA ShiftOut ==
  ASSUME NEW d \in Bits, NEW v \in Nat, v < 256, NEW r \in Nat, r < 8 \div d
  PROVE  /\ Shifted(d, v, r) \in Nat /\ Shifted(d, v, r) < 256
         /\ Shifted(d, v, r) \div 2^(8 - d) = Digit(d, v, (8 \div d) - 1 - r)
         /\ (Shifted(d, v, r) * 2^d) % 256 = Shifted(d, v, r + 1)
<1> DEFINE e1 == d * r
           e2 == d * ((8 \div d) - 1 - r)
           S == 2^e1
           J == 2^e2
           B == 2^d
<1>1. /\ e1 \in Nat /\ e2 \in Nat /\ d \in Nat /\ e2 + e1 = 8 - d /\ (e2 + e1) + d = 8
      /\ d * (r + 1) = e1 + d
  <2>1. CASE d = 1
    BY <2>1
  <2>2. CASE d = 2
    BY <2>2
  <2>3. CASE d = 4
    BY <2>3
  <2> QED
    BY <2>1, <2>2, <2>3 DEF Bits
<1> HIDE DEF e1, e2
<1>2. S \in Nat \ {0} /\ J \in Nat \ {0} /\ B \in Nat \ {0}
  BY <1>1, PowerPositive
<1>3. 2^(8 - d) = J * S
  BY <1>1, PowerSum
<1>4. 256 = (J * S) * B
  <2>1. e2 + e1 \in Nat
    BY <1>1
  <2>2. 2^((e2 + e1) + d) = 2^(e2 + e1) * B
    BY <1>1, <2>1, PowerSum
  <2>3. 2^(e2 + e1) = J * S
    BY <1>1, PowerSum
  <2>4. 2^8 = 256
    BY Powers
  <2> QED
    BY <1>1, <2>2, <2>3, <2>4
<1>5. 2^(d * (r + 1)) = S * B
  BY <1>1, PowerSum
<1>6. Shifted(d, v, r) = (v * S) % 256 /\ Shifted(d, v, r + 1) = (v * (S * B)) % 256
  BY <1>5 DEF Shifted, e1
<1>7. Digit(d, v, (8 \div d) - 1 - r) = (v \div J) % B
  BY DEF Digit, e2
<1> HIDE DEF S, J, B
<1>8. LET res == (v * S) % 256
      IN  /\ res \in Nat /\ res < 256 /\ res \div (J * S) = (v \div J) % B
          /\ (res * B) % 256 = (v * (S * B)) % 256
  <2> DEFINE m == 256
             K == J * S
             res == (v * S) % m
  <2>1. m = K * B
    BY <1>4
  <2>2. K = J * S /\ res = (v * S) % m
    OBVIOUS
  <2>3. m \in Nat \ {0} /\ K \in Nat \ {0} /\ res \in Nat
    <3>1. \A k, l \in Nat \ {0} : k * l \in Nat \ {0}
      OBVIOUS
    <3>2. \A k \in Nat : k % 256 \in Nat
      OBVIOUS
    <3>3. v * S \in Nat
      BY <1>2
    <3> HIDE DEF S, J
    <3> QED
      BY <1>2, <3>1, <3>2, <3>3
  <2> SUFFICES /\ res \in Nat /\ res < m /\ res \div K = (v \div J) % B
               /\ (res * B) % m = (v * (S * B)) % m
    OBVIOUS
  <2> HIDE DEF m, K, res
  <2>4. /\ res < m /\ res \div K = (v \div J) % B
        /\ (res * B) % m = (v * (S * B)) % m
    <3>1. MovesUp(S, J, B, v, K, m, res)
      BY <1>2, <2>3, MovedUp
    <3> QED
      BY <2>1, <2>2, <3>1 DEF MovesUp
  <2> QED
    BY <2>3, <2>4
<1>9. B = 2^d
  BY DEF B
<1> QED
  BY <1>3, <1>6, <1>7, <1>8, <1>9

Per == 8 \div Depth(cb)

\* The sample in hand, in a row of bits
LEMMA BitSample ==
  ASSUME Sized, cb \in DOMAIN Parsed, Depth(cb) \in Bits, NEW ps \in PassSet,
         NEW n \in Nat, n < Wide(ps), IsRow(ps, cdat)
  PROVE  LET byte == cdat[n \div Per]
             v == Shifted(Depth(cb), byte, n % Per) \div 2^(8 - Depth(cb))
         IN  /\ byte \in Nat /\ byte < 256 /\ n % Per \in Nat /\ n % Per < Per
             /\ v \in Nat /\ v < 2^Depth(cb)
             /\ SamplesAt(cdat, cb, n) = [k \in 1..1 |-> v]
<1> DEFINE d == Depth(cb)
           W == Wide(ps)
           size == FileSize(ps)
           q == n \div Per
           r == n % Per
           v == Shifted(d, cdat[q], r) \div 2^(8 - d)
<1>1. d \in Bits /\ Channels(cb) = 1 /\ W \in Nat
  <2>1. Channels(cb) = 1
    BY ReadFormats
  <2> QED
    BY <2>1, GridBound
<1>2. size = (d * W + 7) \div 8
  <2>1. size = RowBytes(d * 1, W)
    BY <1>1 DEF FileSize
  <2>2. d * 1 = d
    BY <1>1, BitsAre
  <2> QED
    BY <2>1, <2>2 DEF RowBytes
<1>3. q \in Nat /\ q < size
  <2>1. n < W
    OBVIOUS
  <2> HIDE DEF W, size
  <2>2. CASE d = 1
    <3>1. q = n \div 8 /\ size = (W + 7) \div 8
      BY <1>1, <1>2, <2>2 DEF Per
    <3> QED
      BY <1>1, <2>1, <3>1
  <2>3. CASE d = 2
    <3>1. q = n \div 4 /\ size = (2 * W + 7) \div 8
      BY <1>1, <1>2, <2>3 DEF Per
    <3> QED
      BY <1>1, <2>1, <3>1
  <2>4. CASE d = 4
    <3>1. q = n \div 2 /\ size = (4 * W + 7) \div 8
      BY <1>1, <1>2, <2>4 DEF Per
    <3> QED
      BY <1>1, <2>1, <3>1
  <2> QED
    BY <1>1, <2>2, <2>3, <2>4 DEF Bits
<1>4. cdat[q] \in Nat /\ cdat[q] < 256
  BY <1>3 DEF IsRow, IsByte
<1>5. Per \in Nat /\ Per > 1 /\ r \in Nat /\ r < Per
  <2>1. Per \in Nat /\ Per > 1
    BY <1>1, BitsAre DEF Per
  <2> QED
    BY <2>1
<1>6. /\ SampleAt(cdat, d, n) = Digit(d, cdat[q], Per - 1 - r)
  BY <1>1, SampleIsDigit DEF Per
<1>7. v = Digit(d, cdat[q], Per - 1 - r)
  <2> DEFINE e == cdat[q]
  <2>1. e \in Nat /\ e < 256 /\ r \in Nat /\ r < 8 \div d
    BY <1>4, <1>5 DEF Per
  <2> HIDE DEF e, r
  <2>2. Shifted(d, e, r) \div 2^(8 - d) = Digit(d, e, (8 \div d) - 1 - r)
    BY <1>1, <2>1, ShiftOut
  <2> QED
    BY <2>2 DEF e, r, Per
<1>8. v \in Nat /\ v < 2^d
  <2> DEFINE e == cdat[q]
             k == Per - 1 - r
             w == 2^(d * k)
             u == 2^d
  <2>1. d * k \in Nat
    <3>1. k \in Nat /\ d \in Nat
      BY <1>1, <1>5, BitsAre
    <3> HIDE DEF k, d
    <3> QED
      BY <3>1
  <2>2. w \in Nat \ {0}
    BY <2>1, PowerPositive
  <2>3. u \in Nat /\ u > 1
    BY <1>1, BitsAre
  <2>4. v = (e \div w) % u /\ e \in Nat
    BY <1>4, <1>7 DEF Digit
  <2> HIDE DEF e, w, v, u
  <2>5. e \div w \in Nat
    BY <2>2, <2>4
  <2>6. v \in Nat /\ v < u
    BY <2>3, <2>4, <2>5
  <2> QED
    BY <2>6 DEF u, v
<1>9. SamplesAt(cdat, cb, n) = [k \in 1..1 |-> v]
  <2>1. SamplesAt(cdat, cb, n) = [k \in 1..1 |-> SampleAt(cdat, d, n * 1 + k - 1)]
    BY <1>1 DEF SamplesAt
  <2>2. \A k \in 1..1 : n * 1 + k - 1 = n
    OBVIOUS
  <2>3. \A k \in 1..1 : SampleAt(cdat, d, n * 1 + k - 1) = v
    BY <1>6, <1>7, <2>2
  <2> HIDE DEF v
  <2> QED
    BY <2>1, <2>3
<1> QED
  BY <1>4, <1>5, <1>8, <1>9

\* ... and the pixel that readImagePass makes of it
LEMMA BitIsDecoded ==
  ASSUME Sized, cb \in DOMAIN Parsed, dcb = cb, Depth(cb) \in Bits, TrnsOK,
         transparent = Chosen, NEW ps \in PassSet, NEW n \in Nat, n < Wide(ps),
         IsRow(ps, cdat)
  PROVE  LET v == Shifted(Depth(cb), cdat[n \div Per], n % Per) \div 2^(8 - Depth(cb))
             unit == CASE dcb = "cbG1" -> 255
                       [] dcb = "cbG2" -> 85
                       [] dcb = "cbG4" -> 17
                       [] OTHER        -> 1
         IN  (IF dcb \in {"cbP1", "cbP2", "cbP4"} THEN <<v>>
              ELSE Keyed(Level((v * unit) % 256), 255)) = Decoded(cdat, n)
<1> DEFINE v == Shifted(Depth(cb), cdat[n \div Per], n % Per) \div 2^(8 - Depth(cb))
           s == SamplesAt(cdat, cb, n)
           unit == CASE dcb = "cbG1" -> 255
                     [] dcb = "cbG2" -> 85
                     [] dcb = "cbG4" -> 17
                     [] OTHER        -> 1
<1>1. v \in Nat /\ v < 2^Depth(cb) /\ s = [k \in 1..1 |-> v]
  BY BitSample
<1>2. cb \in {"cbG1", "cbG2", "cbG4", "cbP1", "cbP2", "cbP4"}
  BY ReadFormats
<1> HIDE DEF v, s
<1>3. CASE cb \in {"cbP1", "cbP2", "cbP4"}
  <2>1. Parsed[cb][2] = ctPaletted
    BY <1>3 DEF Parsed
  <2>2. Channels(cb) = 1
    BY <2>1, ColorTypesAre
  <2>3. s \in Seq(Nat) /\ Len(s) = 1 /\ s = <<v>>
    <3>1. s \in [1..1 -> Nat]
      BY <1>1
    <3>2. s \in Seq(Nat) /\ Len(s) = 1
      BY <3>1, FunctionIsSeq
    <3>3. s[1] = v
      BY <1>1
    <3> QED
      BY <3>2, <3>3, SingleIs
  <2>4. s = [k \in 1..Channels(cb) |-> s[k]]
    BY <1>1, <2>2
  <2>5. Color(s, cb, KeySamples) = s
    BY <2>1, <2>2, <2>3, <2>4, ColorIs
  <2> QED
    BY <1>3, <2>3, <2>5 DEF Decoded, s, v
<1>4. CASE cb \in {"cbG1", "cbG2", "cbG4"}
  <2>1. Parsed[cb][2] = ctGrayscale
    BY <1>4 DEF Parsed
  <2>2. unit = Factor(cb) /\ Full(cb) = 255
    <3>1. CASE cb = "cbG1"
      <4>1. Depth(cb) = 1
        BY <3>1 DEF Depth, Parsed
      <4> QED
        BY <3>1, <4>1, FactorIs
    <3>2. CASE cb = "cbG2"
      <4>1. Depth(cb) = 2
        BY <3>2 DEF Depth, Parsed
      <4> QED
        BY <3>2, <4>1, FactorIs
    <3>3. CASE cb = "cbG4"
      <4>1. Depth(cb) = 4
        BY <3>3 DEF Depth, Parsed
      <4> QED
        BY <3>3, <4>1, FactorIs
    <3> QED
      BY <1>4, <3>1, <3>2, <3>3
  <2>3. v * Factor(cb) \in Nat /\ v * Factor(cb) < 256
    <3>1. CASE Depth(cb) = 1
      BY <1>1, <3>1, FactorIs, Powers
    <3>2. CASE Depth(cb) = 2
      BY <1>1, <3>2, FactorIs, Powers
    <3>3. CASE Depth(cb) = 4
      BY <1>1, <3>3, FactorIs, Powers
    <3> QED
      BY <3>1, <3>2, <3>3 DEF Bits
  <2> DEFINE w == v * Factor(cb)
  <2>4. (v * unit) % 256 = w
    <3>1. w % 256 = w
      <4>1. w \in Nat /\ w < 256
        BY <2>3
      <4> HIDE DEF w
      <4> QED
        BY <4>1
    <3> HIDE DEF unit
    <3> QED
      BY <2>2, <3>1
  <2>5. Keyed(Level(v * Factor(cb)), Full(cb)) = Color(s, cb, KeySamples)
    BY <1>1, <2>1, KeyedGray
  <2>6. Keyed(Level((v * unit) % 256), 255) = Color(s, cb, KeySamples)
    <3> HIDE DEF unit
    <3> QED
      BY <2>2, <2>4, <2>5
  <2>7. dcb \notin {"cbP1", "cbP2", "cbP4"}
    BY <1>4
  <2> HIDE DEF unit
  <2> QED
    BY <2>6, <2>7 DEF Decoded, s, v, unit
<1> QED
  BY <1>2, <1>3, <1>4

\* The pixels so far are those of the row, and the rest of the byte is in hand.
OutInv ==
  /\ TrnsOK
  /\ b \in Nat /\ b < 256
  /\ pc # "unpack" => out = <<>>
  /\ pc = "unpack" =>
       /\ Len(out) <= Wide(pass)
       /\ \A j \in Nat : j < Len(out) => out[j + 1] = Decoded(cdat, j)
       /\ Depth(cb) \in Bits /\ Len(out) % Per # 0 =>
            b = Shifted(Depth(cb), cdat[Len(out) \div Per], Len(out) % Per)

\* At the start there are no pixels.
LEMMA InitOut == Init => OutInv
<1> SUFFICES ASSUME Init PROVE OutInv
  OBVIOUS
<1>1. b = 0 /\ out = <<>> /\ pc \in {"pack", "header"}
  BY DEF Init, Start, InitEncode, InitForeign
<1>2. TrnsOK
  BY DEF Init, InitEncode, InitForeign, TrnsOK
<1> QED
  BY <1>1, <1>2 DEF OutInv

\* The row that is unpacked
LEMMA RowInHand ==
  ASSUME DecodeInv, pc = "unpack"
  PROVE  /\ Sized /\ FileRows /\ cb \in DOMAIN Parsed /\ dcb = cb /\ Header = Parsed[cb]
         /\ transparent = Chosen /\ pass \in PassSet /\ IsRow(pass, cdat)
         /\ PassWidth = Wide(pass) /\ Wide(pass) \in Nat
         /\ Len(out) \in Nat /\ IsSequence(out)
         /\ at \in DOMAIN file /\ cdat = file[at].bytes /\ Key(at) = <<pass, Lin(pass, y)>>
         /\ y \in Nat /\ y < High(pass)
<1>1. FileRows /\ Header = Parsed[cb] /\ Sized
  BY FileIsRead DEF DecodeInv
<1>2. cb \in DOMAIN Parsed /\ dcb = cb /\ transparent = Chosen
  BY DEF DecodeInv, FormatInv
<1>3. /\ pass \in PassSet /\ at \in DOMAIN file /\ Key(at) = <<pass, Lin(pass, y)>>
      /\ cdat = file[at].bytes /\ y \in Nat /\ y < High(pass)
  BY DEF DecodeInv, OrderInv, Reading
<1>4. IsRow(pass, cdat)
  BY <1>1, <1>3 DEF FileRows, Key
<1>5. PassWidth = Wide(pass) /\ Wide(pass) \in Nat
  BY <1>1, <1>3, GridBound DEF PassWidth, Wide
<1>6. IsSequence(out)
  BY DEF DecodeInv, ImageInv
<1>7. Len(out) \in Nat
  BY <1>6, LenProperties DEF IsSequence
<1> QED
  BY <1>1, <1>2, <1>3, <1>4, <1>5, <1>6, <1>7

\* A row that grows by a pixel
LEMMA AppendSequence ==
  ASSUME NEW s, IsSequence(s), NEW e, NEW n, n = Len(s)
  PROVE  /\ n \in Nat /\ Len(Append(s, e)) = n + 1
         /\ \A j \in Nat : j < n => Append(s, e)[j + 1] = s[j + 1]
         /\ Append(s, e)[n + 1] = e
<1>1. PICK S : s \in Seq(S)
  BY DEF IsSequence
<1>2. s \in Seq(S \cup {e}) /\ e \in S \cup {e} /\ n \in Nat
  BY <1>1, WiderSeq, LenProperties
<1>3. /\ Len(Append(s, e)) = n + 1 /\ (\A k \in 1..n : Append(s, e)[k] = s[k])
      /\ Append(s, e)[n + 1] = e
  BY <1>2, AppendIs
<1>4. \A j \in Nat : j < n => j + 1 \in 1..n
  BY <1>2
<1> QED
  BY <1>2, <1>3, <1>4

\* The pixels of a row by rows and the header alone
LEMMA SameDecoded ==
  ASSUME UNCHANGED picture
  PROVE  /\ \A bytes, j : Decoded(bytes, j)' = Decoded(bytes, j)
         /\ Depth(cb)' = Depth(cb) /\ Per' = Per /\ (TrnsOK' <=> TrnsOK)
         /\ \A ps : Wide(ps)' = Wide(ps)
<1>1. UNCHANGED <<cb, trns, width, interlaced>>
  BY DEF picture
<1>2. Depth(cb)' = Depth(cb) /\ (TrnsOK' <=> TrnsOK)
  BY <1>1 DEF TrnsOK
<1>3. KeySamples' = KeySamples
  BY <1>1 DEF KeySamples
<1>4. \A bytes, j : Decoded(bytes, j)' = Decoded(bytes, j)
  BY <1>1, <1>3 DEF Decoded
<1> QED
  BY <1>1, <1>2, <1>4 DEF Per, Wide

\* A pixel more
LEMMA OnePixel ==
  ASSUME DecodeInv, OutInv, pc = "unpack", pc' = "unpack", Len(out) < Wide(pass),
         UNCHANGED <<picture, pass, cdat>>, NEW p, out' = Append(out, p),
         p = Decoded(cdat, Len(out)), b' \in Nat, b' < 256,
         Depth(cb) \in Bits /\ (Len(out) + 1) % Per # 0 =>
           b' = Shifted(Depth(cb), cdat[(Len(out) + 1) \div Per], (Len(out) + 1) % Per)
  PROVE  OutInv'
<1> DEFINE n == Len(out)
<1>1. n \in Nat /\ IsSequence(out) /\ Wide(pass) \in Nat
  BY RowInHand
<1>2. /\ Len(out') = n + 1 /\ (\A j \in Nat : j < n => out'[j + 1] = out[j + 1])
      /\ out'[n + 1] = p
  BY <1>1, AppendSequence
<1>3. \A j \in Nat : j < n => out[j + 1] = Decoded(cdat, j)
  BY DEF OutInv
<1>4. p = Decoded(cdat, n) /\ n < Wide(pass)
  OBVIOUS
<1> HIDE DEF n
<1>5. \A j \in Nat : j < Len(out') => out'[j + 1] = Decoded(cdat, j)
  <2> SUFFICES ASSUME NEW j \in Nat, j < n + 1 PROVE out'[j + 1] = Decoded(cdat, j)
    BY <1>2
  <2>1. CASE j < n
    BY <1>2, <1>3, <2>1
  <2>2. CASE j = n
    BY <1>2, <1>4, <2>2
  <2>3. j < n \/ j = n
    BY <1>1
  <2> QED
    BY <2>1, <2>2, <2>3
<1>6. /\ \A bytes, j : Decoded(bytes, j)' = Decoded(bytes, j)
      /\ Depth(cb)' = Depth(cb) /\ Per' = Per /\ (TrnsOK' <=> TrnsOK)
      /\ \A ps : Wide(ps)' = Wide(ps)
  BY SameDecoded
<1>7. Len(out') <= Wide(pass)
  BY <1>1, <1>2, <1>4
<1>8. \A j \in Nat : j < Len(out') => out'[j + 1] = Decoded(cdat, j)'
  BY <1>5, <1>6
<1>9. Wide(pass)' = Wide(pass)
  BY <1>6
<1>10. Depth(cb)' \in Bits /\ Len(out') % Per' # 0 =>
         b' = Shifted(Depth(cb)', cdat'[Len(out') \div Per'], Len(out') % Per')
  BY <1>2, <1>6 DEF n
<1>11. TrnsOK'
  BY <1>6 DEF OutInv
<1> QED
  BY <1>7, <1>8, <1>9, <1>10, <1>11 DEF OutInv

\* A turn of the loops over bits: the pixel is the standard's, and the rest of the
\* byte is in hand.
LEMMA UnpackBitsStep == DecodeInv /\ OutInv /\ UnpackBits => OutInv'
<1> SUFFICES ASSUME DecodeInv, OutInv, UnpackBits PROVE OutInv'
  OBVIOUS
<1> DEFINE n    == Len(out)
           d    == Header[1]
           per  == 8 \div d
           byte == IF Len(out) % per = 0 THEN cdat[Len(out) \div per] ELSE b
           bits == byte \div 2^(8 - d)
           unit == CASE dcb = "cbG1" -> 255
                     [] dcb = "cbG2" -> 85
                     [] dcb = "cbG4" -> 17
                     [] OTHER        -> 1
           p    == IF dcb \in {"cbP1", "cbP2", "cbP4"} THEN <<bits>>
                   ELSE Keyed(Level((bits * unit) % 256), 255)
<1>1. /\ pc = "unpack" /\ n < PassWidth /\ pc' = "unpack"
      /\ dcb \in {"cbG1", "cbG2", "cbG4", "cbP1", "cbP2", "cbP4"}
      /\ b' = (byte * 2^d) % 256 /\ out' = Append(out, p)
      /\ UNCHANGED <<picture, pass, cdat>>
  BY Zenon DEF UnpackBits
<1>2. /\ Sized /\ cb \in DOMAIN Parsed /\ dcb = cb /\ Header = Parsed[cb]
      /\ transparent = Chosen /\ pass \in PassSet /\ IsRow(pass, cdat)
      /\ PassWidth = Wide(pass) /\ n \in Nat
  BY <1>1, RowInHand
<1>3. d = Depth(cb) /\ per = Per /\ Depth(cb) \in Bits
  <2>1. Depth(cb) \in Bits
    BY <1>1, <1>2, ReadFormats
  <2> QED
    BY <1>2, <2>1 DEF Depth, Per
<1>4. n < Wide(pass)
  BY <1>1, <1>2
<1> DEFINE q == n \div Per
           r == n % Per
           e == cdat[q]
           v == Shifted(Depth(cb), e, r) \div 2^(8 - Depth(cb))
<1>5. e \in Nat /\ e < 256 /\ r \in Nat /\ r < Per
  BY <1>2, <1>3, <1>4, BitSample
<1>6. byte = Shifted(Depth(cb), e, r)
  <2>1. CASE r = 0
    <3>1. byte = e
      BY <1>3, <2>1
    <3>2. Shifted(Depth(cb), e, 0) = e
      <4> DEFINE z == Depth(cb) * 0
      <4>1. z = 0
        BY <1>3, BitsAre
      <4> HIDE DEF z
      <4>2. 2^z = 1
        BY <4>1, PowerOne
      <4>3. (e * 1) % 256 = e
        <5> HIDE DEF e
        <5> QED
          BY <1>5
      <4> HIDE DEF e
      <4> QED
        BY <4>2, <4>3 DEF Shifted, z
    <3> QED
      BY <2>1, <3>1, <3>2
  <2>2. CASE r # 0
    <3>1. byte = b
      BY <1>3, <2>2
    <3>2. b = Shifted(Depth(cb), cdat[Len(out) \div Per], Len(out) % Per)
      BY <1>1, <1>3, <2>2 DEF OutInv
    <3> QED
      BY <3>1, <3>2
  <2> QED
    BY <2>1, <2>2
<1> HIDE DEF byte
<1>7. p = Decoded(cdat, n)
  <2>1. bits = v
    BY <1>3, <1>6
  <2>2. (IF dcb \in {"cbP1", "cbP2", "cbP4"} THEN <<v>>
         ELSE Keyed(Level((v * unit) % 256), 255)) = Decoded(cdat, n)
    BY <1>2, <1>3, <1>4, BitIsDecoded DEF OutInv
  <2> HIDE DEF unit, v, bits
  <2> QED
    BY <2>1, <2>2
<1> HIDE DEF p
<1>8. b' = Shifted(Depth(cb), e, r + 1)
  <2>1. r < 8 \div Depth(cb)
    BY <1>5 DEF Per
  <2> HIDE DEF e, r
  <2>2. (Shifted(Depth(cb), e, r) * 2^Depth(cb)) % 256 = Shifted(Depth(cb), e, r + 1)
    BY <1>3, <1>5, <2>1, ShiftOut
  <2> QED
    BY <1>1, <1>3, <1>6, <2>2
<1>9. b' \in Nat /\ b' < 256
  <2> DEFINE w == e * 2^(Depth(cb) * (r + 1))
  <2>1. w \in Nat
    <3>1. Depth(cb) * (r + 1) \in Nat
      <4>1. Depth(cb) \in Nat
        BY <1>3, BitsAre
      <4> HIDE DEF r
      <4> QED
        BY <1>5, <4>1
    <3>2. 2^(Depth(cb) * (r + 1)) \in Nat
      BY <3>1, PowerPositive
    <3> DEFINE u == 2^(Depth(cb) * (r + 1))
    <3> HIDE DEF u, e
    <3> QED
      BY <1>5, <3>2 DEF u
  <2>2. b' = w % 256
    BY <1>8 DEF Shifted
  <2> HIDE DEF w
  <2> QED
    BY <2>1, <2>2
<1>10. (n + 1) % Per # 0 => (n + 1) \div Per = q /\ (n + 1) % Per = r + 1
  <2>1. Per \in {2, 4, 8}
    BY <1>3 DEF Per, Bits
  <2> HIDE DEF n
  <2> QED
    BY <1>2, <2>1
<1>11. Depth(cb) \in Bits /\ (Len(out) + 1) % Per # 0 =>
         b' = Shifted(Depth(cb), cdat[(Len(out) + 1) \div Per], (Len(out) + 1) % Per)
  BY <1>8, <1>10
<1> QED
  BY <1>1, <1>4, <1>7, <1>9, <1>11, OnePixel

\* A turn of the loops over bytes: the pixel is the standard's.
LEMMA UnpackBytesStep == DecodeInv /\ OutInv /\ UnpackBytes => OutInv'
<1> SUFFICES ASSUME DecodeInv, OutInv, UnpackBytes PROVE OutInv'
  OBVIOUS
<1> DEFINE n == Len(out)
           p == PixelAt(n)
<1>1. /\ pc = "unpack" /\ n < PassWidth /\ pc' = "unpack"
      /\ dcb \notin {"cbG1", "cbG2", "cbG4", "cbP1", "cbP2", "cbP4"}
      /\ out' = Append(out, p)
      /\ UNCHANGED <<picture, pass, cdat, b>>
  BY Zenon DEF UnpackBytes
<1>2. /\ Sized /\ cb \in DOMAIN Parsed /\ dcb = cb
      /\ transparent = Chosen /\ pass \in PassSet /\ IsRow(pass, cdat)
      /\ PassWidth = Wide(pass) /\ n \in Nat
  BY <1>1, RowInHand
<1>3. Depth(cb) \notin Bits
  BY <1>1, <1>2, ReadFormats
<1>4. n < Wide(pass)
  BY <1>1, <1>2
<1>5. p = Decoded(cdat, n)
  BY <1>2, <1>3, <1>4, PixelIsDecoded DEF OutInv
<1>6. b' \in Nat /\ b' < 256
  BY <1>1 DEF OutInv
<1> HIDE DEF p
<1> QED
  BY <1>1, <1>3, <1>4, <1>5, <1>6, OnePixel

\* The row in the reader's hand, in every step
LEMMA NextOut ==
  ASSUME DecodeInv, OutInv, [Next]_vars
  PROVE  OutInv'
<1>1. CASE PackIndex \/ PackSamples \/ PackEnd \/ ReadHeader
  <2>1. /\ pc \in {"pack", "header"} /\ pc' \in {"pack", "header", "row"}
        /\ UNCHANGED <<picture, out, b>>
    <3>1. CASE PackIndex
      BY <3>1, Zenon DEF PackIndex, unpacking
    <3>2. CASE PackSamples
      BY <3>2, Zenon DEF PackSamples, unpacking
    <3>3. CASE PackEnd
      BY <3>3 DEF PackEnd, RowWritten, unpacking
    <3>4. CASE ReadHeader
      BY <3>4 DEF ReadHeader
    <3> QED
      BY <1>1, <3>1, <3>2, <3>3, <3>4
  <2>2. TrnsOK' <=> TrnsOK
    BY <2>1, SameDecoded
  <2> QED
    BY <2>1, <2>2 DEF OutInv
<1>2. CASE ReadRow
  <2>1. /\ pc = "row" /\ MoreRows /\ UNCHANGED <<picture, out, b, pass>>
    BY <1>2 DEF ReadRow
  <2>2. out' = <<>> /\ Len(<<>>) = 0
    BY <2>1 DEF OutInv
  <2>3. (TrnsOK' <=> TrnsOK) /\ Wide(pass)' = Wide(pass) /\ Per' = Per /\ Depth(cb)' = Depth(cb)
    BY <2>1, SameDecoded
  <2>4. Wide(pass) \in Nat /\ cb \in DOMAIN Parsed
    BY <2>1, GridBound, FileIsRead DEF DecodeInv, OrderInv, Reading, FormatInv
  <2>5. Depth(cb) \in Bits => 0 % Per = 0
    <3> SUFFICES ASSUME Depth(cb) \in Bits PROVE 0 % Per = 0
      OBVIOUS
    <3>1. Per \in {2, 4, 8}
      BY DEF Per, Bits
    <3> QED
      BY <3>1
  <2>6. Len(out') = 0
    BY <2>2
  <2>7. Len(out') <= Wide(pass)'
    BY <2>3, <2>4, <2>6
  <2>8. \A j \in Nat : ~(j < Len(out'))
    BY <2>6
  <2>9. Depth(cb)' \in Bits => Len(out') % Per' = 0
    BY <2>3, <2>5, <2>6
  <2> QED
    BY <2>1, <2>2, <2>3, <2>7, <2>8, <2>9 DEF OutInv
<1>3. CASE UnpackBits
  BY <1>3, UnpackBitsStep
<1>4. CASE UnpackBytes
  BY <1>4, UnpackBytesStep
<1>5. CASE UnpackEnd
  <2>1. UNCHANGED <<picture, b>> /\ out' = <<>> /\ pc' = "row"
    BY <1>5 DEF UnpackEnd
  <2>2. TrnsOK' <=> TrnsOK
    BY <2>1, SameDecoded
  <2> QED
    BY <2>1, <2>2 DEF OutInv
<1>6. CASE ImageRead \/ mergePassInto
  <2>1. UNCHANGED <<picture, b, out>> /\ pc = "row" /\ pc' \in {"row", "done"}
    BY <1>6 DEF ImageRead, mergePassInto
  <2>2. TrnsOK' <=> TrnsOK
    BY <2>1, SameDecoded
  <2> QED
    BY <2>1, <2>2 DEF OutInv
<1>7. CASE UNCHANGED vars
  <2>1. UNCHANGED <<picture, b, out, pc, pass, cdat>>
    BY <1>7 DEF vars, unpacking
  <2>2. /\ \A bytes, j : Decoded(bytes, j)' = Decoded(bytes, j)
        /\ Depth(cb)' = Depth(cb) /\ Per' = Per /\ (TrnsOK' <=> TrnsOK)
        /\ Wide(pass)' = Wide(pass)
    BY <2>1, SameDecoded
  <2> QED
    BY <2>1, <2>2 DEF OutInv
<1> QED
  BY <1>1, <1>2, <1>3, <1>4, <1>5, <1>6, <1>7 DEF Next

-----------------------------------------------------------------------------
(* The image, from the rows of the file *)

\* A pixel by the standard is in the row of its pass and line, at its number there.
LEMMA ShownIs ==
  ASSUME Sized, FileRows, NEW ps \in PassSet, NEW l \in Nat, NEW k \in Nat,
         NEW n \in DOMAIN file, Key(n) = <<ps, Lin(ps, l)>>
  PROVE  Shown(Col(ps, k), Lin(ps, l)) = Decoded(file[n].bytes, k)
<1> DEFINE column == Col(ps, k)
           line == Lin(ps, l)
<1>1. PassAt(column, line) = ps
  BY GridPoint
<1>2. column \in Nat /\ line \in Nat
  BY GridBound
<1> DEFINE P(r) == file[r].pass = ps /\ file[r].line = line
<1>3. n \in DOMAIN file /\ P(n)
  BY DEF Key
<1>4. ASSUME NEW r \in DOMAIN file, P(r) PROVE r = n
  <2> SUFFICES ASSUME r # n PROVE FALSE
    OBVIOUS
  <2>1. Key(r) = <<ps, line>> /\ Key(n) = <<ps, line>>
    BY <1>4 DEF Key
  <2>2. ~Before(<<ps, line>>, <<ps, line>>)
    <3>1. ps \in Nat
      BY DEF PassSet, Passes
    <3> HIDE DEF line
    <3> QED
      BY <1>2, <3>1 DEF Before
  <2>3. r \in Nat /\ n \in Nat
    BY FileDomain DEF FileRows
  <2>4. r < n \/ n < r
    BY <2>3
  <2>5. Before(Key(r), Key(n)) \/ Before(Key(n), Key(r))
    BY <2>4 DEF FileRows
  <2> QED
    BY <2>1, <2>2, <2>5
<1> DEFINE r0 == CHOOSE r \in DOMAIN file : P(r)
<1>5. r0 = n
  <2>1. r0 \in DOMAIN file /\ P(r0)
    BY <1>3
  <2> HIDE DEF r0
  <2> QED
    BY <1>4, <2>1
<1>6. Cardinality(ColumnsOf(ps, line, column)) = k
  <2>1. ASSUME NEW j \in Nat PROVE Col(ps, j) < column <=> j < k
    <3>1. j < k \/ j = k \/ k < j
      OBVIOUS
    <3>2. j < k => Col(ps, j) < Col(ps, k)
      BY GridRises
    <3>3. k < j => Col(ps, k) < Col(ps, j)
      BY GridRises
    <3>4. Col(ps, j) \in Nat
      BY GridBound
    <3> QED
      BY <1>2, <3>1, <3>2, <3>3, <3>4
  <2> HIDE DEF column
  <2> QED
    BY <1>2, <2>1, ColumnCount
<1>7. Shown(column, line)
        = Color(SamplesAt(file[r0].bytes, cb, Cardinality(ColumnsOf(ps, line, column))), cb,
                KeySamples)
  <2> HIDE DEF column, line
  <2> QED
    BY <1>1 DEF Shown, KeySamples
<1> HIDE DEF r0, column, line
<1>8. Shown(column, line) = Decoded(file[n].bytes, k)
  BY <1>5, <1>6, <1>7 DEF Decoded
<1> QED
  BY <1>8 DEF column, line

\* What is shown depends on the picture and the file alone.
LEMMA SameShown ==
  ASSUME UNCHANGED <<picture, file>>
  PROVE  /\ \A column, line : Shown(column, line)' = Shown(column, line)
         /\ \A column, line : PassAt(column, line)' = PassAt(column, line)
         /\ \A ps, k : Col(ps, k)' = Col(ps, k) /\ Lin(ps, k)' = Lin(ps, k)
         /\ \A ps : Wide(ps)' = Wide(ps)
<1>1. UNCHANGED <<cb, trns, width, interlaced, file>>
  BY DEF picture
<1>2. \A column, line : PassAt(column, line)' = PassAt(column, line)
  BY <1>1 DEF PassAt
<1>3. \A ps, line, end : ColumnsOf(ps, line, end)' = ColumnsOf(ps, line, end)
  BY <1>2 DEF ColumnsOf
<1>4. \A column, line : Shown(column, line)' = Shown(column, line)
  BY <1>1, <1>2, <1>3 DEF Shown
<1>5. \A ps, k : Col(ps, k)' = Col(ps, k) /\ Lin(ps, k)' = Lin(ps, k)
  BY <1>1 DEF Col, Lin
<1>6. \A ps : Wide(ps)' = Wide(ps)
  BY <1>1 DEF Wide
<1> QED
  BY <1>2, <1>4, <1>5, <1>6

\* The pixels of a pass in their places
LEMMA PassIndex ==
  ASSUME NEW w \in Nat \ {0}, NEW h \in Nat, NEW l \in Nat, NEW k \in Nat, l < h, k < w
  PROVE  /\ l * w + k + 1 \in 1..(h * w) /\ (l * w + k + 1) - 1 = l * w + k
         /\ (l * w + k) % w = k /\ (l * w + k) \div w = l
<1>1. k \in 0..(w - 1)
  OBVIOUS
<1>2. l * w + k \in Nat /\ (l * w + k) % w = k /\ (l * w + k) \div w = l
  BY <1>1, RowMajor
<1>3. l + 1 \in Nat /\ l + 1 <= h
  OBVIOUS
<1>4. (l + 1) * w <= h * w /\ h * w \in Nat
  BY <1>3, TimesMonotone
<1>5. (l + 1) * w = l * w + w /\ l * w \in Nat
  OBVIOUS
<1> DEFINE u == l * w
           v == h * w
<1>6. u \in Nat /\ v \in Nat /\ u + w <= v
  BY <1>4, <1>5
<1> HIDE DEF u, v
<1>7. u + k + 1 \in 1..v /\ (u + k + 1) - 1 = u + k
  BY <1>6
<1> QED
  BY <1>2, <1>7 DEF u, v

PixInv ==
  /\ Reading =>
       /\ Len(passImage) = y * Wide(pass)
       /\ \A l, k \in Nat : l < y /\ k < Wide(pass) =>
            passImage[l * Wide(pass) + k + 1] = Shown(Col(pass, k), Lin(pass, l))
  /\ Reading /\ interlaced =>
       \A column \in 0..(width - 1), line \in 0..(height - 1) :
         PassAt(column, line) < pass => image[line * width + column] = Shown(column, line)
  /\ ShowsFile

\* At the start there is nothing to show.
LEMMA InitPix == Init => PixInv
BY DEF Init, InitEncode, InitForeign, PixInv, Reading, ShowsFile

\* Steps between the ends of rows
LEMMA SamePix ==
  ASSUME PixInv, UNCHANGED <<picture, file, passImage, image, y, pass>>,
         Reading, Reading'
  PROVE  PixInv'
<1>1. /\ \A column, line : Shown(column, line)' = Shown(column, line)
      /\ \A column, line : PassAt(column, line)' = PassAt(column, line)
      /\ \A ps, k : Col(ps, k)' = Col(ps, k) /\ Lin(ps, k)' = Lin(ps, k)
      /\ \A ps : Wide(ps)' = Wide(ps)
  BY SameShown
<1>2. UNCHANGED <<width, height, interlaced>>
  BY DEF picture
<1>3. Len(passImage') = y' * Wide(pass)'
  BY <1>1 DEF PixInv
<1>4. \A l, k \in Nat : l < y' /\ k < Wide(pass)' =>
        passImage'[l * Wide(pass)' + k + 1] = Shown(Col(pass, k), Lin(pass, l))'
  <2> SUFFICES ASSUME NEW l \in Nat, NEW k \in Nat, l < y, k < Wide(pass)
               PROVE  passImage[l * Wide(pass) + k + 1] = Shown(Col(pass, k), Lin(pass, l))'
    BY <1>1
  <2>1. passImage[l * Wide(pass) + k + 1] = Shown(Col(pass, k), Lin(pass, l))
    BY DEF PixInv
  <2>2. Shown(Col(pass, k), Lin(pass, l))' = Shown(Col(pass', k), Lin(pass', l))
    BY <1>1
  <2> QED
    BY <2>1, <2>2
<1>5. interlaced' =>
        \A column \in 0..(width' - 1), line \in 0..(height' - 1) :
          PassAt(column, line)' < pass' =>
            image'[line * width' + column] = Shown(column, line)'
  BY <1>1, <1>2 DEF PixInv
<1>6. ShowsFile'
  BY DEF Reading, ShowsFile
<1> QED
  BY <1>3, <1>4, <1>5, <1>6 DEF PixInv

\* A row more
LEMMA UnpackEndPix == DecodeInv /\ OutInv /\ PixInv /\ UnpackEnd => PixInv'
<1> SUFFICES ASSUME DecodeInv, OutInv, PixInv, UnpackEnd PROVE PixInv'
  OBVIOUS
<1>1. /\ pc = "unpack" /\ Len(out) = PassWidth /\ passImage' = passImage \o out
      /\ y' = y + 1 /\ pc' = "row" /\ UNCHANGED <<picture, file, pass, image>>
  BY DEF UnpackEnd
<1>2. /\ Sized /\ FileRows /\ pass \in PassSet /\ PassWidth = Wide(pass)
      /\ Wide(pass) \in Nat /\ IsSequence(out) /\ y \in Nat
      /\ at \in DOMAIN file /\ cdat = file[at].bytes /\ Key(at) = <<pass, Lin(pass, y)>>
  BY <1>1, RowInHand
<1> DEFINE W == Wide(pass)
           m == y * W
<1>3. Len(passImage) = m /\ m \in Nat /\ Len(out) = W
  <2>1. m \in Nat
    <3>1. W \in Nat /\ y \in Nat
      BY <1>2
    <3> HIDE DEF W
    <3> QED
      BY <3>1
  <2>2. Len(passImage) = m
    BY <1>1 DEF PixInv, Reading
  <2> QED
    BY <1>1, <1>2, <2>1, <2>2
<1>4. /\ Len(passImage') = m + W
      /\ \A k \in 1..m : passImage'[k] = passImage[k]
      /\ \A k \in Nat : k < W => passImage'[m + k + 1] = out[k + 1]
  <2>1. PICK S : passImage \in Seq(S)
    BY DEF DecodeInv, ImageInv, IsSequence
  <2>2. PICK T : out \in Seq(T)
    BY <1>2 DEF IsSequence
  <2>3. passImage \in Seq(S \cup T) /\ out \in Seq(S \cup T)
    BY <2>1, <2>2, WiderSeq
  <2>4. /\ Len(passImage \o out) = Len(passImage) + Len(out)
        /\ \A k \in 1..(Len(passImage) + Len(out)) :
             (passImage \o out)[k] = IF k <= Len(passImage) THEN passImage[k]
                                     ELSE out[k - Len(passImage)]
    BY <2>3, ConcatProperties
  <2> DEFINE r == passImage'
  <2>5. r = passImage \o out
    BY <1>1
  <2> HIDE DEF m, W, r
  <2>6. /\ Len(r) = m + W
        /\ \A k \in 1..(m + W) : r[k] = IF k <= m THEN passImage[k] ELSE out[k - m]
    BY <1>3, <2>4, <2>5
  <2>7. W \in Nat
    BY <1>2 DEF W
  <2>8. \A k \in 1..m : r[k] = passImage[k]
    BY <1>3, <2>6, <2>7
  <2>9. ASSUME NEW k \in Nat, k < W PROVE r[m + k + 1] = out[k + 1]
    <3>1. m + k + 1 \in 1..(m + W) /\ ~(m + k + 1 <= m) /\ (m + k + 1) - m = k + 1
      BY <1>3, <2>7, <2>9
    <3> QED
      BY <2>6, <3>1
  <2> QED
    BY <2>6, <2>8, <2>9 DEF r
<1>5. Len(passImage') = y' * W
  <2>1. (y + 1) * W = y * W + W
    <3> HIDE DEF W
    <3> QED
      BY <1>2 DEF W
  <2> QED
    BY <1>1, <1>4, <2>1
<1>6. ASSUME NEW l \in Nat, NEW k \in Nat, l < y', k < W
      PROVE  passImage'[l * W + k + 1] = Shown(Col(pass, k), Lin(pass, l))
  <2>1. CASE l < y
    <3>1. W \in Nat \ {0}
      BY <1>2, <1>6
    <3>2. l * W + k + 1 \in 1..m
      <4> HIDE DEF W
      <4> QED
        BY <1>2, <1>6, <2>1, <3>1, PassIndex
    <3>3. passImage[l * W + k + 1] = Shown(Col(pass, k), Lin(pass, l))
      BY <1>1, <1>6, <2>1 DEF PixInv, Reading
    <3> QED
      BY <1>4, <3>2, <3>3
  <2>2. CASE l = y
    <3>1. out[k + 1] = Decoded(cdat, k)
      BY <1>1, <1>2, <1>6 DEF OutInv
    <3>2. Shown(Col(pass, k), Lin(pass, y)) = Decoded(cdat, k)
      BY <1>2, ShownIs
    <3> QED
      BY <1>4, <1>6, <2>2, <3>1, <3>2
  <2>3. l < y \/ l = y
    BY <1>1, <1>2, <1>6
  <2> QED
    BY <2>1, <2>2, <2>3
<1>7. /\ \A column, line : Shown(column, line)' = Shown(column, line)
      /\ \A column, line : PassAt(column, line)' = PassAt(column, line)
      /\ \A ps, k : Col(ps, k)' = Col(ps, k) /\ Lin(ps, k)' = Lin(ps, k)
      /\ \A ps : Wide(ps)' = Wide(ps)
  BY <1>1, SameShown
<1>8. Wide(pass)' = W
  BY <1>1, <1>7
<1>9. \A l, k \in Nat : l < y' /\ k < Wide(pass)' =>
        passImage'[l * Wide(pass)' + k + 1] = Shown(Col(pass, k), Lin(pass, l))'
  <2> SUFFICES ASSUME NEW l \in Nat, NEW k \in Nat, l < y', k < W
               PROVE  passImage'[l * W + k + 1] = Shown(Col(pass, k), Lin(pass, l))'
    BY <1>8
  <2>1. Shown(Col(pass, k), Lin(pass, l))' = Shown(Col(pass, k), Lin(pass, l))
    BY <1>1, <1>7
  <2> QED
    BY <1>6, <2>1
<1>10. UNCHANGED <<width, height, interlaced>>
  BY <1>1 DEF picture
<1>11. interlaced' =>
         \A column \in 0..(width' - 1), line \in 0..(height' - 1) :
           PassAt(column, line)' < pass' =>
             image'[line * width' + column] = Shown(column, line)'
  BY <1>1, <1>7, <1>10 DEF PixInv, Reading
<1>12. ShowsFile'
  BY <1>1 DEF ShowsFile
<1> QED
  BY <1>5, <1>8, <1>9, <1>11, <1>12 DEF PixInv

\* A pass has been read when there are no more rows.
LEMMA PassRead ==
  ASSUME DecodeInv, PixInv, pc = "row", ~MoreRows, Wide(pass) # 0
  PROVE  /\ Sized /\ pass \in PassSet /\ y = High(pass) /\ y \in Nat
         /\ Wide(pass) \in Nat \ {0} /\ Wide(pass) = PassWidth
         /\ IsSequence(passImage) /\ DOMAIN passImage = 1..(y * Wide(pass))
         /\ \A l, k \in Nat : l < y /\ k < Wide(pass) =>
              passImage[l * Wide(pass) + k + 1] = Shown(Col(pass, k), Lin(pass, l))
<1>1. Sized /\ pass \in PassSet /\ y \in Nat /\ y <= High(pass) /\ IsSequence(passImage)
  BY DEF DecodeInv, ImageInv, OrderInv, Reading, Sized
<1>2. Wide(pass) \in Nat \ {0} /\ High(pass) \in Nat
  BY <1>1, GridBound
<1>3. PassWidth = Wide(pass) /\ PassHeight = High(pass)
  BY DEF PassWidth, PassHeight, Wide, High
<1>4. y = High(pass)
  BY <1>1, <1>2, <1>3 DEF MoreRows
<1>5. DOMAIN passImage = 1..(y * Wide(pass))
  <2>1. Len(passImage) = y * Wide(pass)
    BY DEF PixInv, Reading
  <2> QED
    BY <1>1, <2>1, LenProperties DEF IsSequence
<1>6. \A l, k \in Nat : l < y /\ k < Wide(pass) =>
        passImage[l * Wide(pass) + k + 1] = Shown(Col(pass, k), Lin(pass, l))
  BY DEF PixInv, Reading
<1> QED
  BY <1>1, <1>2, <1>3, <1>4, <1>5, <1>6

\* A number below h * w has a line and a column, ...
LEMMA IndexPass ==
  ASSUME NEW w \in Nat \ {0}, NEW h \in Nat, NEW n \in Nat, n < h * w,
         NEW t, t = n \div w, NEW r, r = n % w
  PROVE  r \in Nat /\ r < w /\ t \in Nat /\ t < h /\ n = t * w + r
<1>1. n = w * (n \div w) + (n % w) /\ n % w \in 0..(w - 1) /\ n \div w \in Nat
  BY DivisionIs
<1>2. n = w * t + r /\ r \in Nat /\ r < w /\ t \in Nat
  BY <1>1
<1>3. n = t * w + r
  BY <1>2
<1>4. t < h
  <2> SUFFICES ASSUME h <= t PROVE FALSE
    BY <1>2
  <2>1. h * w <= t * w /\ h * w \in Nat /\ t * w \in Nat
    BY <1>2, TimesMonotone
  <2> DEFINE u == h * w
             v == t * w
  <2>2. u <= v /\ u \in Nat /\ v \in Nat /\ n < u /\ n = v + r
    BY <1>3, <2>1
  <2> HIDE DEF u, v
  <2> QED
    BY <1>2, <2>2
<1> QED
  BY <1>2, <1>3, <1>4

\* ... so a pixel of a pass has them too.
LEMMA PlaceInPass ==
  ASSUME NEW w \in Nat \ {0}, NEW h \in Nat, NEW j \in 1..(h * w)
  PROVE  \E k, l \in Nat :
           /\ k = (j - 1) % w /\ l = (j - 1) \div w
           /\ k < w /\ l < h /\ j = l * w + k + 1
<1> DEFINE n == j - 1
           t == n \div w
           r == n % w
<1>1. n \in Nat /\ n < h * w /\ j = n + 1
  <2> DEFINE u == h * w
  <2>1. u \in Nat /\ j \in 1..u
    OBVIOUS
  <2> HIDE DEF u
  <2>2. n \in Nat /\ n < u /\ j = n + 1
    BY <2>1
  <2> QED
    BY <2>2 DEF u
<1> SUFFICES \E k, l \in Nat : k = r /\ l = t /\ k < w /\ l < h /\ j = l * w + k + 1
  OBVIOUS
<1> HIDE DEF n
<1>2. t = n \div w /\ r = n % w
  OBVIOUS
<1> HIDE DEF t, r
<1>3. r \in Nat /\ r < w /\ t \in Nat /\ t < h /\ n = t * w + r
  BY <1>1, <1>2, IndexPass
<1> QED
  BY <1>1, <1>3

\* The pass of an image that is not interlaced is the image.
LEMMA ImageReadPix == DecodeInv /\ PixInv /\ ImageRead => PixInv'
<1> SUFFICES ASSUME DecodeInv, PixInv, ImageRead PROVE PixInv'
  OBVIOUS
<1>1. /\ pc = "row" /\ ~MoreRows /\ ~interlaced /\ pc' = "done"
      /\ image' = [n \in DOMAIN image |-> passImage[n + 1]]
      /\ UNCHANGED <<picture, file>>
  BY DEF ImageRead
<1>2. Wide(pass) = width /\ High(pass) = height /\ width \in Nat \ {0} /\ height \in Nat \ {0}
      /\ DOMAIN image = 0..(width * height - 1)
  BY <1>1 DEF Wide, High, DecodeInv, ImageInv
<1>3. /\ y = height
      /\ \A l, k \in Nat : l < height /\ k < width =>
           passImage[l * width + k + 1] = Shown(Col(pass, k), Lin(pass, l))
  BY <1>1, <1>2, PassRead
<1>4. ASSUME NEW column \in 0..(width - 1), NEW line \in 0..(height - 1)
      PROVE  image'[line * width + column] = Shown(column, line)
  <2>1. column \in Nat /\ line \in Nat /\ column < width /\ line < height
    BY <1>2
  <2>2. /\ line * width + column + 1 \in 1..(height * width)
        /\ (line * width + column) \div width = line /\ (line * width + column) % width = column
        /\ (line * width + column + 1) - 1 = line * width + column
    BY <1>2, <2>1, PassIndex
  <2>3. line * width + column \in DOMAIN image
    <3> DEFINE n == line * width + column
               u == height * width
    <3>1. height * width = width * height /\ u \in Nat
      BY <1>2
    <3>2. n \in Nat
      BY <1>2, <2>1, RowMajor
    <3>3. n + 1 \in 1..u
      BY <2>2
    <3> HIDE DEF n, u
    <3>4. n \in 0..(u - 1)
      BY <3>1, <3>2, <3>3
    <3> QED
      BY <1>2, <3>1, <3>4 DEF n, u
  <2>4. image'[line * width + column] = passImage[line * width + column + 1]
    BY <1>1, <2>3
  <2>5. passImage[line * width + column + 1] = Shown(Col(pass, column), Lin(pass, line))
    BY <1>3, <2>1
  <2>6. Col(pass, column) = column /\ Lin(pass, line) = line
    BY <1>1 DEF Col, Lin
  <2> QED
    BY <2>4, <2>5, <2>6
<1>5. UNCHANGED <<width, height>> /\ \A column, line : Shown(column, line)' = Shown(column, line)
  BY <1>1, SameShown DEF picture
<1>6. ShowsFile'
  BY <1>4, <1>5 DEF ShowsFile
<1> QED
  BY <1>1, <1>6 DEF PixInv, Reading

\* mergePassInto puts the pixels of its pass where the standard has them and leaves
\* those of the passes before.
LEMMA MergeShown ==
  ASSUME DecodeInv, PixInv, mergePassInto, NEW column \in 0..(width - 1),
         NEW line \in 0..(height - 1), PassAt(column, line) <= pass
  PROVE  image'[line * width + column] = Shown(column, line)
<1> DEFINE n == line * width + column
           W == Wide(pass)
           from == {k \in DOMAIN passImage :
                      Target(width, pass, (k - 1) % PassWidth, (k - 1) \div PassWidth) = n}
<1>1. /\ pc = "row" /\ ~MoreRows /\ interlaced
      /\ n \in DOMAIN image =>
           image'[n] = IF from = {} THEN image[n] ELSE passImage[CHOOSE k \in from : TRUE]
  BY DEF mergePassInto
<1>2. /\ Sized /\ width \in Nat \ {0} /\ height \in Nat \ {0} /\ ImageInv
      /\ DOMAIN image = 0..(width * height - 1) /\ pass \in Passes /\ pass \in PassSet
  BY <1>1 DEF DecodeInv, ImageInv, OrderInv, Reading, Sized
<1>3. column \in Nat /\ line \in Nat /\ column < width /\ line < height
  BY <1>2
<1>4. n \in DOMAIN image /\ n % width = column /\ n \div width = line
  <2>1. /\ line * width + column + 1 \in 1..(height * width)
        /\ (line * width + column) \div width = line /\ (line * width + column) % width = column
    BY <1>2, <1>3, PassIndex
  <2> DEFINE u == height * width
  <2>2. height * width = width * height /\ u \in Nat
    BY <1>2
  <2>3. n \in Nat /\ n + 1 \in 1..u
    BY <1>2, <1>3, <2>1, RowMajor
  <2>4. n \in 0..(u - 1)
    <3> HIDE DEF n, u
    <3> QED
      BY <2>2, <2>3
  <2> QED
    BY <1>2, <2>1, <2>2, <2>4
<1>5. PassAt(column, line) = PassOf(column, line) /\ PassAt(column, line) \in Passes
  <2>1. PassAt(column, line) \in PassSet
    BY <1>2, <1>3, GridIsPass
  <2> QED
    BY <1>1, <2>1 DEF PassAt, PassSet
<1> HIDE DEF n
<1>6. CASE PassAt(column, line) < pass
  <2>1. image[n] = Shown(column, line)
    BY <1>1, <1>6 DEF PixInv, Reading, n
  <2>2. PassOf(n % width, n \div width) # pass
    BY <1>2, <1>4, <1>5, <1>6 DEF Passes
  <2>3. image'[n] = image[n]
    BY <1>2, <1>4, <2>2, MergeWrites
  <2> QED
    BY <2>1, <2>3 DEF n
<1>7. CASE PassAt(column, line) = pass
  <2>1. PICK k0, l0 \in Nat : column = Col(pass, k0) /\ line = Lin(pass, l0)
    <3>1. /\ Sized /\ column \in Nat /\ line \in Nat /\ pass \in PassSet
          /\ PassAt(column, line) = pass
      BY <1>2, <1>3, <1>7
    <3>2. \E k, l \in Nat : column = Col(pass, k) /\ line = Lin(pass, l)
      BY <3>1, GridIsPass, Zenon
    <3> QED
      BY <3>2
  <2>2. k0 < W /\ l0 < High(pass)
    BY <1>2, <1>3, <2>1, GridBound
  <2>3. W \in Nat \ {0}
    BY <1>2, <2>2, GridBound
  <2>4. /\ y = High(pass) /\ y \in Nat /\ W = PassWidth
        /\ DOMAIN passImage = 1..(y * W)
        /\ \A l, k \in Nat : l < y /\ k < W =>
             passImage[l * W + k + 1] = Shown(Col(pass, k), Lin(pass, l))
    BY <1>1, <2>3, PassRead
  <2> DEFINE j0 == l0 * W + k0 + 1
  <2>5. j0 \in from
    <3>1. /\ j0 \in 1..(y * W) /\ (j0 - 1) % W = k0 /\ (j0 - 1) \div W = l0
      <4>1. W \in Nat \ {0} /\ y \in Nat /\ l0 \in Nat /\ k0 \in Nat /\ l0 < y /\ k0 < W
        BY <2>2, <2>3, <2>4
      <4> HIDE DEF W
      <4>2. /\ l0 * W + k0 + 1 \in 1..(y * W) /\ (l0 * W + k0 + 1) - 1 = l0 * W + k0
            /\ (l0 * W + k0) % W = k0 /\ (l0 * W + k0) \div W = l0
        BY <4>1, PassIndex
      <4> QED
        BY <4>2
    <3>2. Target(width, pass, k0, l0) = n
      <4> DEFINE p == interlacing[pass]
                 cl == k0 * p.xFactor + p.xOffset
                 ln == l0 * p.yFactor + p.yOffset
      <4>1. column = cl /\ line = ln
        BY <1>1, <2>1 DEF Col, Lin, ColumnOf, LineOf
      <4>2. Target(width, pass, k0, l0) = ln * width + p.xOffset + k0 * p.xFactor
        BY DEF Target
      <4>3. p.xFactor \in Nat \ {0} /\ p.xOffset \in Nat
        BY <1>2, Factors
      <4> DEFINE u == k0 * p.xFactor
                 v == line * width
                 o == p.xOffset
      <4>4. u \in Nat /\ v \in Nat /\ o \in Nat
        <5>1. u \in Nat
          <6> DEFINE f == p.xFactor
          <6>1. f \in Nat
            BY <4>3
          <6> HIDE DEF f
          <6>2. k0 * f \in Nat
            BY <6>1
          <6> QED
            BY <6>2 DEF f
        <5> QED
          BY <1>2, <1>3, <4>3, <5>1
      <4>5. Target(width, pass, k0, l0) = v + o + u /\ n = v + (u + o)
        BY <4>1, <4>2 DEF n
      <4> HIDE DEF u, v, o
      <4> QED
        BY <4>4, <4>5
    <3> HIDE DEF j0, W
    <3>3. j0 \in DOMAIN passImage
      BY <2>4, <3>1
    <3>4. (j0 - 1) % PassWidth = k0 /\ (j0 - 1) \div PassWidth = l0
      BY <2>4, <3>1
    <3> QED
      BY <3>2, <3>3, <3>4
  <2> HIDE DEF j0
  <2> DEFINE j == CHOOSE k \in from : TRUE
  <2>6. j \in from
    BY <2>5
  <2>7. image'[n] = passImage[j]
    BY <1>1, <1>4, <2>5
  <2> HIDE DEF j
  <2>8. j \in 1..(y * W)
        /\ Target(width, pass, (j - 1) % PassWidth, (j - 1) \div PassWidth) = n
    BY <2>4, <2>6
  <2>9. PICK k1, l1 \in Nat :
          /\ k1 = (j - 1) % W /\ l1 = (j - 1) \div W
          /\ k1 < W /\ l1 < y /\ j = l1 * W + k1 + 1
    <3>1. W \in Nat \ {0} /\ y \in Nat
      BY <2>3, <2>4
    <3> HIDE DEF W
    <3> QED
      BY <2>8, <3>1, PlaceInPass
  <2>10. Target(width, pass, k1, l1) = n
    BY <2>4, <2>8, <2>9
  <2> HIDE DEF from
  <2>11. n % width = ColumnOf(pass, k1) /\ n \div width = LineOf(pass, l1)
    <3>1. k1 < passWidth(width, pass)
      BY <1>1, <2>9 DEF Wide
    <3> QED
      BY <1>2, <2>9, <2>10, <3>1, TargetInPass
  <2>12. column = Col(pass, k1) /\ line = Lin(pass, l1)
    BY <1>1, <1>4, <2>11 DEF Col, Lin
  <2>13. passImage[j] = Shown(Col(pass, k1), Lin(pass, l1))
    BY <2>4, <2>9
  <2> QED
    BY <2>7, <2>12, <2>13 DEF n
<1>8. PassAt(column, line) < pass \/ PassAt(column, line) = pass
  BY <1>2, <1>5 DEF Passes
<1> QED
  BY <1>6, <1>7, <1>8

\* The pixels of the passes up to this one are those of the image.
LEMMA MergePix == DecodeInv /\ PixInv /\ mergePassInto => PixInv'
<1> SUFFICES ASSUME DecodeInv, PixInv, mergePassInto PROVE PixInv'
  OBVIOUS
<1>1. /\ pc = "row" /\ interlaced /\ y' = 0 /\ passImage' = <<>>
      /\ UNCHANGED <<picture, file>>
      /\ \/ pass < 7 /\ pass' = pass + 1 /\ pc' = "row"
         \/ pass = 7 /\ pc' = "done"
  BY DEF mergePassInto
<1>2. /\ \A column, line : Shown(column, line)' = Shown(column, line)
      /\ \A column, line : PassAt(column, line)' = PassAt(column, line)
      /\ \A ps : Wide(ps)' = Wide(ps)
      /\ UNCHANGED <<width, height, interlaced>>
  BY <1>1, SameShown DEF picture
<1>3. /\ Sized /\ width \in Nat /\ height \in Nat /\ pass \in Passes
  BY <1>1 DEF DecodeInv, ImageInv, Reading, Sized
<1>4. ASSUME NEW column \in 0..(width - 1), NEW line \in 0..(height - 1)
      PROVE  PassAt(column, line) \in Passes
  <2>1. column \in Nat /\ line \in Nat
    BY <1>3
  <2>2. PassAt(column, line) \in PassSet
    BY <1>3, <2>1, GridIsPass
  <2> QED
    BY <1>1, <2>2 DEF PassSet
<1>5. CASE pass = 7
  <2>1. pc' = "done"
    BY <1>1, <1>5
  <2>2. ASSUME NEW column \in 0..(width - 1), NEW line \in 0..(height - 1)
        PROVE  image'[line * width + column] = Shown(column, line)'
    <3>1. PassAt(column, line) <= pass
      BY <1>4, <1>5 DEF Passes
    <3> QED
      BY <1>2, <3>1, MergeShown
  <2>3. ShowsFile'
    BY <1>2, <2>2 DEF ShowsFile
  <2> QED
    BY <2>1, <2>3 DEF PixInv, Reading
<1>6. CASE pass < 7
  <2>1. pass' = pass + 1 /\ pc' = "row"
    BY <1>1, <1>6
  <2>2. ASSUME NEW column \in 0..(width - 1), NEW line \in 0..(height - 1),
               PassAt(column, line) < pass + 1
        PROVE  image'[line * width + column] = Shown(column, line)
    <3>1. PassAt(column, line) <= pass
      BY <1>3, <1>4, <2>2 DEF Passes
    <3> QED
      BY <3>1, MergeShown
  <2>3. \A column \in 0..(width' - 1), line \in 0..(height' - 1) :
          PassAt(column, line)' < pass' => image'[line * width' + column] = Shown(column, line)'
    BY <1>2, <2>1, <2>2
  <2>4. Wide(pass)' \in Nat
    <3>1. pass + 1 \in PassSet
      BY <1>1, <1>3, <1>6 DEF PassSet, Passes
    <3>2. Wide(pass + 1) \in Nat
      BY <1>3, <3>1, GridBound
    <3> QED
      BY <1>2, <2>1, <3>2
  <2>5. Len(passImage') = y' * Wide(pass)'
    <3> DEFINE w == Wide(pass)'
    <3>1. w \in Nat
      BY <2>4
    <3> HIDE DEF w
    <3>2. 0 * w = 0 /\ Len(<<>>) = 0
      BY <3>1
    <3> QED
      BY <1>1, <3>2 DEF w
  <2>6. \A l \in Nat : ~(l < y')
    BY <1>1
  <2>7. ShowsFile'
    BY <2>1 DEF ShowsFile
  <2> QED
    BY <2>3, <2>5, <2>6, <2>7 DEF PixInv
<1> QED
  BY <1>1, <1>5, <1>6

\* The pixels of pass and image, in every step
LEMMA NextPix ==
  ASSUME DecodeInv, OutInv, PixInv, [Next]_vars
  PROVE  PixInv'
<1>1. CASE PackIndex \/ PackSamples \/ PackEnd
  <2>1. pc' \in {"pack", "header"}
    <3>1. CASE PackIndex
      BY <3>1, Zenon DEF PackIndex
    <3>2. CASE PackSamples
      BY <3>2, Zenon DEF PackSamples
    <3>3. CASE PackEnd
      BY <3>3 DEF PackEnd, RowWritten
    <3> QED
      BY <1>1, <3>1, <3>2, <3>3
  <2> QED
    BY <2>1 DEF PixInv, Reading, ShowsFile
<1>2. CASE ReadHeader
  <2>1. /\ pc = "header" /\ pc' = "row" /\ y' = 0 /\ pass' = (IF interlaced THEN 1 ELSE 0)
        /\ UNCHANGED <<picture, file, passImage>>
    BY <1>2 DEF ReadHeader
  <2>2. passImage' = <<>> /\ Sized
    BY <2>1 DEF DecodeInv, ImageInv, Sized
  <2>3. pass' \in PassSet
    BY <2>1 DEF PassSet, Passes
  <2>4. /\ Wide(pass)' = Wide(pass') /\ UNCHANGED <<interlaced, width, height>>
        /\ \A column, line : PassAt(column, line)' = PassAt(column, line)
    BY <2>1, SameShown DEF picture
  <2>5. Len(passImage') = y' * Wide(pass)'
    <3> DEFINE w == Wide(pass')
    <3>1. w \in Nat
      BY <2>2, <2>3, GridBound
    <3> HIDE DEF w
    <3>2. 0 * w = 0 /\ Len(<<>>) = 0
      BY <3>1
    <3> QED
      BY <2>1, <2>2, <2>4, <3>2 DEF w
  <2>6. \A l \in Nat : ~(l < y')
    BY <2>1
  <2>7. ASSUME interlaced, NEW column \in 0..(width - 1), NEW line \in 0..(height - 1)
        PROVE  ~(PassAt(column, line) < pass')
    <3>1. column \in Nat /\ line \in Nat
      BY <2>2 DEF Sized
    <3>2. PassAt(column, line) \in PassSet
      BY <2>2, <3>1, GridIsPass
    <3> QED
      BY <2>1, <2>7, <3>2 DEF PassSet, Passes
  <2>8. interlaced' =>
          \A column \in 0..(width' - 1), line \in 0..(height' - 1) :
            ~(PassAt(column, line)' < pass')
    BY <2>4, <2>7
  <2>9. ShowsFile'
    BY <2>1 DEF ShowsFile
  <2> QED
    BY <2>5, <2>6, <2>8, <2>9 DEF PixInv
<1>3. CASE ReadRow \/ UnpackBits \/ UnpackBytes
  <2>1. /\ pc \in {"row", "unpack"} /\ pc' \in {"row", "unpack"}
        /\ UNCHANGED <<picture, file, passImage, image, y, pass>>
    <3>1. CASE ReadRow
      BY <3>1 DEF ReadRow
    <3>2. CASE UnpackBits
      BY <3>2, Zenon DEF UnpackBits
    <3>3. CASE UnpackBytes
      BY <3>3, Zenon DEF UnpackBytes
    <3> QED
      BY <1>3, <3>1, <3>2, <3>3
  <2> QED
    BY <2>1, SamePix DEF Reading
<1>4. CASE UnpackEnd
  BY <1>4, UnpackEndPix
<1>5. CASE ImageRead
  BY <1>5, ImageReadPix
<1>6. CASE mergePassInto
  BY <1>6, MergePix
<1>7. CASE UNCHANGED vars
  <2>1. UNCHANGED <<picture, file, passImage, image, y, pass, pc>>
    BY <1>7 DEF vars, unpacking
  <2>2. CASE Reading
    BY <2>1, <2>2, SamePix DEF Reading
  <2>3. CASE ~Reading
    <3>1. ShowsFile'
      <4>1. /\ \A column, line : Shown(column, line)' = Shown(column, line)
            /\ UNCHANGED <<width, height>>
        BY <2>1, SameShown DEF picture
      <4> QED
        BY <2>1, <4>1 DEF PixInv, ShowsFile
    <3> QED
      BY <2>1, <2>3, <3>1 DEF PixInv, Reading
  <2> QED
    BY <2>2, <2>3
<1> QED
  BY <1>1, <1>2, <1>3, <1>4, <1>5, <1>6, <1>7 DEF Next

PicturesInv == DecodeInv /\ OutInv /\ PixInv

\* All parts together are an inductive invariant.
LEMMA PicturesInvariant == Spec => []PicturesInv
<1>1. Init => PicturesInv
  BY InitImage, InitEncoder, InitFormat, InitOrder, InitOut, InitPix DEF DecodeInv, PicturesInv
<1>2. PicturesInv /\ [Next]_vars => PicturesInv'
  BY NextImage, NextEncoder, NextFormat, NextOrder, NextOut, NextPix DEF DecodeInv, PicturesInv
<1> QED
  BY <1>1, <1>2, PTL DEF Spec

\* The decoded image is what the standard says of the file: for every size, format,
\* pass and transparent color that another program may have chosen (reader.go:268,
\* 414, 788).
THEOREM DecodedShowsFile == Spec => []ShowsFile
<1>1. PicturesInv => ShowsFile
  BY DEF PicturesInv, PixInv
<1> QED
  BY <1>1, PicturesInvariant, PTL

-----------------------------------------------------------------------------
(* Types, and the writer inside its row *)

TypeInv ==
  /\ <<width, height>> \in (IF interlaced THEN Interlaced ELSE Plain)
  /\ y \in 0..height /\ pass \in 0..7
  /\ pc # "pack" => x = 0 /\ a = 0 /\ c = 0
  /\ pc \in {"pack", "header"} => dcb = "none" /\ transparent = <<>>

\* The rest of the types, at the start ...
LEMMA InitType == Init => TypeInv
<1> SUFFICES ASSUME Init PROVE TypeInv
  OBVIOUS
<1>1. <<width, height>> \in (IF interlaced THEN Interlaced ELSE Plain)
  <2>1. ASSUME NEW size \in Plain \cup Interlaced, width = size[1], height = size[2]
        PROVE  <<width, height>> = size
    <3>1. size \in (Nat \ {0}) \X (Nat \ {0})
      BY SizeAssumption
    <3> QED
      BY <2>1, <3>1
  <2>2. CASE InitEncode
    BY <2>1, <2>2 DEF InitEncode
  <2>3. CASE InitForeign
    <3>1. PICK size \in (IF interlaced THEN Interlaced ELSE Plain) :
            width = size[1] /\ height = size[2]
      BY <2>3 DEF InitForeign
    <3> QED
      BY <2>1, <3>1
  <2> QED
    BY <2>2, <2>3 DEF Init
<1>2. height \in Nat
  BY InitImage DEF ImageInv
<1>3. /\ y = 0 /\ x = 0 /\ a = 0 /\ c = 0 /\ pass = 0 /\ dcb = "none" /\ transparent = <<>>
  BY DEF Init, Start
<1> QED
  BY <1>1, <1>2, <1>3 DEF TypeInv

\* ... and in every step
LEMMA NextType ==
  ASSUME DecodeInv, TypeInv, [Next]_vars
  PROVE  TypeInv'
<1>1. width \in Nat \ {0} /\ height \in Nat \ {0} /\ Sized
  BY DEF DecodeInv, ImageInv, Sized
<1>2. ASSUME UNCHANGED picture
      PROVE  UNCHANGED <<width, height, interlaced>>
  BY <1>2 DEF picture
<1>3. CASE PackIndex \/ PackSamples
  <2>1. /\ pc = "pack" /\ UNCHANGED <<picture, pc, y, pass, dcb, transparent>>
    <3>1. CASE PackIndex
      BY <3>1, Zenon DEF PackIndex, unpacking, header
    <3>2. CASE PackSamples
      BY <3>2, Zenon DEF PackSamples, unpacking, header
    <3> QED
      BY <1>3, <3>1, <3>2
  <2> QED
    BY <1>2, <2>1 DEF TypeInv
<1>4. CASE PackEnd
  <2>1. /\ pc = "pack" /\ y' = y + 1 /\ pc' \in {"pack", "header"}
        /\ x' = 0 /\ a' = 0 /\ c' = 0 /\ UNCHANGED <<picture, pass, dcb, transparent>>
    BY <1>4 DEF PackEnd, RowWritten, unpacking, header
  <2>2. y \in Nat /\ y < height
    BY <2>1 DEF DecodeInv, EncoderInv, Packing
  <2>3. y' \in 0..height
    BY <1>1, <2>1, <2>2
  <2> QED
    BY <1>2, <2>1, <2>3 DEF TypeInv
<1>5. CASE ReadHeader
  <2>1. /\ pc = "header" /\ pc' = "row" /\ y' = 0 /\ pass' \in 0..7
        /\ UNCHANGED <<picture, x, a, c>>
    BY <1>5 DEF ReadHeader, packing
  <2> QED
    BY <1>1, <1>2, <2>1 DEF TypeInv
<1>6. CASE ReadRow \/ UnpackBits \/ UnpackBytes \/ ImageRead
  <2>1. /\ pc \notin {"pack", "header"} /\ pc' \notin {"pack", "header"}
        /\ UNCHANGED <<picture, y, pass, x, a, c>>
    <3>1. CASE ReadRow
      BY <3>1 DEF ReadRow, packing
    <3>2. CASE UnpackBits
      BY <3>2, Zenon DEF UnpackBits, packing
    <3>3. CASE UnpackBytes
      BY <3>3, Zenon DEF UnpackBytes, packing
    <3>4. CASE ImageRead
      BY <3>4 DEF ImageRead, packing
    <3> QED
      BY <1>6, <3>1, <3>2, <3>3, <3>4
  <2> QED
    BY <1>2, <2>1 DEF TypeInv
<1>7. CASE UnpackEnd
  <2>1. /\ pc = "unpack" /\ pc' = "row" /\ y' = y + 1
        /\ UNCHANGED <<picture, pass, x, a, c>>
    BY <1>7 DEF UnpackEnd, packing
  <2>2. pass \in PassSet /\ y \in Nat /\ y < High(pass)
    BY <2>1 DEF DecodeInv, OrderInv, Reading
  <2>3. y < height
    <3>1. Lin(pass, y) \in Nat /\ Lin(pass, y) < height
      BY <1>1, <2>2, GridBound
    <3>2. CASE interlaced
      <4> DEFINE f == interlacing[pass].yFactor
                 o == interlacing[pass].yOffset
      <4>1. pass \in Passes
        BY <2>2, <3>2 DEF PassSet
      <4>2. f \in Nat \ {0} /\ o \in Nat
        BY <4>1, Factors
      <4>3. Lin(pass, y) = y * f + o
        BY <3>2 DEF Lin, LineOf
      <4> HIDE DEF f, o
      <4>4. 1 \in Nat /\ 1 <= f /\ f \in Nat
        BY <4>2
      <4>5. 1 * y <= f * y /\ f * y \in Nat
        BY <2>2, <4>4, TimesMonotone
      <4>6. f * y = y * f /\ 1 * y = y
        BY <2>2, <4>2
      <4> DEFINE u == y * f
      <4>7. u \in Nat /\ y <= u /\ Lin(pass, y) = u + o
        BY <4>3, <4>5, <4>6
      <4> HIDE DEF u
      <4> QED
        BY <1>1, <2>2, <3>1, <4>2, <4>7
    <3>3. CASE ~interlaced
      BY <3>1, <3>3 DEF Lin
    <3> QED
      BY <3>2, <3>3
  <2>4. y' \in 0..height
    BY <1>1, <2>1, <2>2, <2>3
  <2> QED
    BY <1>2, <2>1, <2>4 DEF TypeInv
<1>8. CASE mergePassInto
  <2>1. /\ pc = "row" /\ pc' \in {"row", "done"} /\ y' = 0
        /\ pass' = pass \/ (pass < 7 /\ pass' = pass + 1)
        /\ UNCHANGED <<picture, x, a, c>>
    BY <1>8 DEF mergePassInto, packing
  <2> QED
    BY <1>1, <1>2, <2>1 DEF TypeInv
<1>9. CASE UNCHANGED vars
  <2>1. UNCHANGED <<picture, pc, y, pass, x, a, c, dcb, transparent>>
    BY <1>9 DEF vars, unpacking, packing, header
  <2> QED
    BY <1>2, <2>1 DEF TypeInv
<1> QED
  BY <1>3, <1>4, <1>5, <1>6, <1>7, <1>8, <1>9 DEF Next

\* The writer: pixels, bits in hand and the place of the next byte
LEMMA PackingTypes ==
  ASSUME EncoderInv, pc = "pack"
  PROVE  /\ x \in 0..width /\ a \in 0..255 /\ c \in 0..7
         /\ i + (IF c # 0 THEN 1 ELSE 0) <= Cardinality(DOMAIN row)
<1>1. IsImage /\ Packing
  BY DEF EncoderInv
<1>2. width \in Nat \ {0}
  BY <1>1 DEF IsImage
<1>3. CASE WriterBits[cb] < 8
  <2> DEFINE d == Depth(cb)
             per == 8 \div d
  <2>1. d \in Bits /\ WriterBits[cb] = d
    BY <1>1, <1>3, SmallFormat
  <2>2. /\ x \in Nat /\ x <= width /\ i \in Nat /\ a \in Nat /\ c \in Nat
        /\ c < per /\ x = i * per + c /\ a < 2^(d * c) /\ DOMAIN row = 0..(WriterSize - 1)
    BY <1>1, <1>3 DEF Packing, Packed, Part
  <2>3. WriterSize = (d * width + 7) \div 8
    BY <2>1 DEF WriterSize, RowBytes
  <2> HIDE DEF d
  <2>4. /\ c \in 0..7 /\ d * c \in Nat /\ d * c <= 8
        /\ i + (IF c # 0 THEN 1 ELSE 0) <= WriterSize /\ WriterSize \in Nat
    <3>1. CASE d = 1
      BY <1>2, <2>2, <2>3, <3>1
    <3>2. CASE d = 2
      BY <1>2, <2>2, <2>3, <3>2
    <3>3. CASE d = 4
      BY <1>2, <2>2, <2>3, <3>3
    <3> QED
      BY <2>1, <3>1, <3>2, <3>3 DEF Bits
  <2>5. a < 256
    <3> DEFINE e == d * c
               u == 2^e
    <3>1. u <= 2^8 /\ 2^8 = 256
      <4>1. e \in Nat /\ e <= 8 /\ 8 \in Nat
        BY <2>4
      <4> DEFINE m == 8
      <4>2. m \in Nat /\ e <= m
        BY <4>1
      <4> HIDE DEF e, m
      <4>3. 2^e <= 2^m
        BY <4>1, <4>2, PowerLE
      <4> QED
        BY <4>3, Powers DEF m
    <3>2. u \in Nat /\ a < u
      BY <2>2, <2>4, PowerPositive
    <3> HIDE DEF u
    <3> QED
      BY <2>2, <3>1, <3>2
  <2>6. Cardinality(DOMAIN row) = WriterSize
    <3> DEFINE n == WriterSize
    <3>1. n \in Nat /\ DOMAIN row = 0..(n - 1)
      BY <2>2, <2>4
    <3> HIDE DEF n
    <3>2. Cardinality(0..(n - 1)) = n
      BY <3>1, FS_Interval
    <3> QED
      BY <3>1, <3>2 DEF n
  <2> QED
    BY <1>2, <2>2, <2>4, <2>5, <2>6
<1>4. CASE ~(WriterBits[cb] < 8)
  <2>1. /\ x \in Nat /\ x <= width /\ i = x * Unit /\ a = 0 /\ c = 0
        /\ DOMAIN row = 0..(WriterSize - 1)
    BY <1>1, <1>4 DEF Packing, PackedBytes, Part, Unit
  <2>2. Unit \in Nat \ {0} /\ WriterSize = width * Unit
    <3>1. WriterBits[cb] >= 8
      BY <1>1, <1>4, SmallFormat
    <3> QED
      BY <1>1, <3>1, WideFormat
  <2>3. x * Unit <= width * Unit /\ x * Unit \in Nat /\ width * Unit \in Nat
    <3> DEFINE u == Unit
    <3>1. u \in Nat
      BY <2>2
    <3> HIDE DEF u
    <3>2. x * u <= width * u /\ x * u \in Nat /\ width * u \in Nat
      BY <1>2, <2>1, <3>1, TimesMonotone
    <3> QED
      BY <3>2 DEF u
  <2>4. Cardinality(DOMAIN row) = WriterSize
    <3> DEFINE n == WriterSize
    <3>1. n \in Nat /\ DOMAIN row = 0..(n - 1)
      BY <2>1, <2>2, <2>3
    <3> HIDE DEF n
    <3>2. Cardinality(0..(n - 1)) = n
      BY <3>1, FS_Interval
    <3> QED
      BY <3>1, <3>2 DEF n
  <2> DEFINE s == x * Unit
             t == width * Unit
  <2>5. i = s /\ s <= t /\ s \in Nat /\ Cardinality(DOMAIN row) = t
    BY <2>1, <2>2, <2>3, <2>4
  <2> HIDE DEF s, t
  <2> QED
    BY <1>2, <2>1, <2>5
<1> QED
  BY <1>3, <1>4

\* The parts of the invariant are the types.
LEMMA TypesHold == PicturesInv /\ TypeInv => TypeOK
<1> SUFFICES ASSUME PicturesInv, TypeInv PROVE TypeOK
  OBVIOUS
<1>1. cb \in DOMAIN Parsed
  BY DEF PicturesInv, DecodeInv, FormatInv
<1>2. /\ width \in Nat \ {0} /\ height \in Nat \ {0} /\ Sized
      /\ pc \in {"pack", "header", "row", "unpack", "done"}
  BY DEF PicturesInv, DecodeInv, ImageInv, Sized
<1>3. x \in 0..width /\ a \in 0..255 /\ c \in 0..7
  <2>1. CASE pc = "pack"
    BY <2>1, PackingTypes DEF PicturesInv, DecodeInv
  <2>2. CASE pc # "pack"
    BY <1>2, <2>2 DEF TypeInv
  <2> QED
    BY <2>1, <2>2
<1>4. pc = "pack" => i + (IF c # 0 THEN 1 ELSE 0) <= Cardinality(DOMAIN row)
  BY PackingTypes DEF PicturesInv, DecodeInv
<1>5. b \in 0..255
  BY DEF PicturesInv, OutInv
<1>6. dcb \in DOMAIN Parsed \cup {"none"} /\ Len(transparent) \in {0, 2, 6}
  <2>1. CASE pc \in {"pack", "header"}
    <3>1. dcb = "none" /\ transparent = <<>> /\ Len(<<>>) = 0
      BY <2>1 DEF TypeInv
    <3> QED
      BY <3>1
  <2>2. CASE pc \in {"row", "unpack", "done"}
    <3>1. dcb = cb /\ transparent = Chosen /\ TrnsOK
      BY <2>2 DEF PicturesInv, DecodeInv, FormatInv, OutInv
    <3> QED
      BY <1>1, <3>1, TransparentIs
  <2> QED
    BY <1>2, <2>1, <2>2
<1>7. at \in 0..Len(file)
  <2>1. IsSequence(file)
    BY DEF PicturesInv, DecodeInv, EncoderInv, FormatInv, FileRows, WrittenRows
  <2>2. Len(file) \in Nat
    BY <2>1, FileDomain
  <2>3. CASE pc \in {"pack", "header"}
    BY <2>2, <2>3 DEF PicturesInv, DecodeInv, OrderInv
  <2>4. CASE pc \in {"row", "unpack"}
    BY <2>4 DEF PicturesInv, DecodeInv, OrderInv, Reading
  <2>5. CASE pc = "done"
    BY <2>2, <2>5 DEF PicturesInv, DecodeInv, OrderInv
  <2> QED
    BY <1>2, <2>3, <2>4, <2>5
<1>8. Len(out) <= width
  <2>1. CASE pc = "unpack"
    <3>1. Len(out) <= Wide(pass) /\ Len(out) \in Nat /\ Wide(pass) \in Nat /\ pass \in PassSet
      BY <2>1, RowInHand DEF PicturesInv, OutInv
    <3>2. Wide(pass) <= width
      <4>1. CASE interlaced
        <5>1. pass \in Passes /\ Wide(pass) = passWidth(width, pass)
          BY <3>1, <4>1 DEF PassSet, Wide
        <5> DEFINE p == interlacing[pass]
        <5>2. p.xFactor \in {1, 2, 4, 8} /\ p.xOffset \in Nat
          BY <5>1, Table, PassesAre DEF scan
        <5>3. Wide(pass) = (width - p.xOffset + p.xFactor - 1) \div p.xFactor
          BY <5>1 DEF passWidth
        <5> HIDE DEF p
        <5> DEFINE f == p.xFactor
                   o == p.xOffset
        <5>4. f \in {1, 2, 4, 8} /\ o \in Nat /\ Wide(pass) = (width - o + f - 1) \div f
          BY <5>2, <5>3
        <5> HIDE DEF f, o
        <5>5. CASE f = 1
          BY <1>2, <5>4, <5>5
        <5>6. CASE f = 2
          BY <1>2, <5>4, <5>6
        <5>7. CASE f = 4
          BY <1>2, <5>4, <5>7
        <5>8. CASE f = 8
          BY <1>2, <5>4, <5>8
        <5> QED
          BY <5>4, <5>5, <5>6, <5>7, <5>8
      <4>2. CASE ~interlaced
        BY <1>2, <4>2 DEF Wide
      <4> QED
        BY <4>1, <4>2
    <3> QED
      BY <1>2, <3>1, <3>2
  <2>2. CASE pc # "unpack"
    <3>1. out = <<>> /\ Len(<<>>) = 0
      BY <2>2 DEF PicturesInv, OutInv
    <3> QED
      BY <1>2, <3>1
  <2> QED
    BY <2>1, <2>2
<1> QED
  BY <1>1, <1>2, <1>3, <1>4, <1>5, <1>6, <1>7, <1>8 DEF TypeInv, TypeOK

\* The variables have their types, and the writer stays inside its row.
THEOREM TypeCorrect == Spec => []TypeOK
<1>1. Init => TypeInv
  BY InitType
<1>2. PicturesInv /\ TypeInv /\ [Next]_vars => TypeInv'
  BY NextType DEF PicturesInv
<1>3. PicturesInv /\ TypeInv => TypeOK
  BY TypesHold
<1> QED
  BY <1>1, <1>2, <1>3, PicturesInvariant, PTL DEF Spec

-----------------------------------------------------------------------------
(* What comes back *)

\* The types of the formats that are written
LEMMA WrittenTypes ==
  ASSUME NEW f \in DOMAIN Written
  PROVE  /\ f \in {"cbG8", "cbG16"} =>
              Parsed[f][2] = ctGrayscale /\ Depth(f) \in {8, 16} /\ Channels(f) = 1
         /\ f \in {"cbTC8", "cbTC16"} =>
              Parsed[f][2] = ctTrueColor /\ Depth(f) \in {8, 16} /\ Channels(f) = 3
         /\ f \in {"cbTCA8", "cbTCA16"} =>
              Parsed[f][2] = ctTrueColorAlpha /\ Depth(f) \in {8, 16} /\ Channels(f) = 4
         /\ f \in {"cbP1", "cbP2", "cbP4", "cbP8"} => Parsed[f][2] = ctPaletted
         /\ f \in {"cbG8", "cbG16"} \cup {"cbTC8", "cbTC16"} \cup {"cbTCA8", "cbTCA16"}
                   \cup {"cbP1", "cbP2", "cbP4", "cbP8"}
<1>1. f \in {"cbG8", "cbG16", "cbTC8", "cbTC16", "cbTCA8", "cbTCA16", "cbP1", "cbP2",
             "cbP4", "cbP8"}
  BY DEF Written
<1>2. f \in DOMAIN Parsed
  BY Formats
<1>3. f \in {"cbG8", "cbG16"} => Parsed[f][2] = ctGrayscale /\ Depth(f) \in {8, 16}
  BY DEF Parsed, Depth
<1>4. f \in {"cbTC8", "cbTC16"} => Parsed[f][2] = ctTrueColor /\ Depth(f) \in {8, 16}
  BY DEF Parsed, Depth
<1>5. f \in {"cbTCA8", "cbTCA16"} => Parsed[f][2] = ctTrueColorAlpha /\ Depth(f) \in {8, 16}
  BY DEF Parsed, Depth
<1>6. f \in {"cbP1", "cbP2", "cbP4", "cbP8"} => Parsed[f][2] = ctPaletted
  BY DEF Parsed
<1> QED
  BY <1>1, <1>2, <1>3, <1>4, <1>5, <1>6, ColorTypesAre

\* The color of a pixel whose samples tRNS does not name
LEMMA ColorOpaque ==
  ASSUME NEW f \in DOMAIN Parsed, NEW s, NEW key, s = [k \in 1..Channels(f) |-> s[k]],
         s \in Seq(Nat), Len(s) = Channels(f), s # key
  PROVE  LET type == Parsed[f][2]
             u == Factor(f)
             full == Full(f)
             color == Color(s, f, key)
         IN  /\ type = ctPaletted => color = s
             /\ type = ctGrayscale => color = <<s[1] * u, s[1] * u, s[1] * u, full>>
             /\ type = ctTrueColor => color = <<s[1] * u, s[2] * u, s[3] * u, full>>
             /\ type = ctTrueColorAlpha => color = <<s[1] * u, s[2] * u, s[3] * u, s[4]>>
<1> DEFINE u == Factor(f)
           full == Full(f)
           color == Color(s, f, key)
           type == Parsed[f][2]
           alpha == IF s = key THEN 0 ELSE full
<1>1. color =
        IF type = ctPaletted THEN s
        ELSE IF type = ctGrayscale THEN <<s[1] * u, s[1] * u, s[1] * u, alpha>>
        ELSE IF type = ctGrayscaleAlpha THEN <<s[1] * u, s[1] * u, s[1] * u, s[2]>>
        ELSE IF type = ctTrueColor THEN <<s[1] * u, s[2] * u, s[3] * u, alpha>>
        ELSE <<s[1] * u, s[2] * u, s[3] * u, s[4]>>
  BY ColorIs
<1>2. alpha = full
  OBVIOUS
<1> HIDE DEF color, alpha, type, u, full
<1>3. /\ type = ctPaletted => color = s
      /\ type = ctGrayscale => color = <<s[1] * u, s[1] * u, s[1] * u, full>>
      /\ type = ctTrueColor => color = <<s[1] * u, s[2] * u, s[3] * u, full>>
      /\ type = ctTrueColorAlpha => color = <<s[1] * u, s[2] * u, s[3] * u, s[4]>>
  BY <1>1, <1>2 DEF ctGrayscale, ctPaletted, ctTrueColor, ctGrayscaleAlpha, ctTrueColorAlpha
<1> QED
  BY <1>3 DEF color, type, u, full

\* A pixel that is not the transparent one is shown as it was.
LEMMA ShownAsIs ==
  ASSUME NEW f \in DOMAIN Written, NEW p \in Encodable(f), NEW key,
         NEW s \in Seq(Nat), Len(s) = Channels(f), s # key,
         \A k \in 1..Channels(f) : s[k] = p[k]
  PROVE  Color(s, f, key)
           = IF f \in {"cbG8", "cbG16"} THEN Append(Level(p[1]), Full(f)) ELSE p
<1> DEFINE m == Channels(f)
           u == Factor(f)
           full == Full(f)
           color == Color(s, f, key)
<1>1. /\ p \in Seq(Nat) /\ Len(p) >= m
      /\ \A k \in 1..m : p[k] \in Nat /\ p[k] < 2^Depth(f)
      /\ IF f \in {"cbTC8", "cbTC16"} THEN Len(p) = 4 /\ p[4] = 2^Depth(f) - 1
         ELSE Len(p) = m
  BY EncodablePixel
<1>2. f \in DOMAIN Parsed /\ m \in Nat
  BY Formats
<1>3. /\ s = [k \in 1..m |-> s[k]] /\ s \in Seq(Nat) /\ Len(s) = m
      /\ \A k \in 1..m : s[k] = p[k]
  BY LenProperties
<1>4. /\ Parsed[f][2] = ctPaletted => color = s
      /\ Parsed[f][2] = ctGrayscale => color = <<s[1] * u, s[1] * u, s[1] * u, full>>
      /\ Parsed[f][2] = ctTrueColor => color = <<s[1] * u, s[2] * u, s[3] * u, full>>
      /\ Parsed[f][2] = ctTrueColorAlpha => color = <<s[1] * u, s[2] * u, s[3] * u, s[4]>>
  <2>1. s = [k \in 1..Channels(f) |-> s[k]] /\ s \in Seq(Nat) /\ Len(s) = Channels(f) /\ s # key
    BY <1>3
  <2> QED
    BY <1>2, <2>1, ColorOpaque
<1>5. Depth(f) \in {8, 16} =>
        u = 1 /\ full \in Nat /\ full = 2^Depth(f) - 1
  <2>1. CASE Depth(f) = 8
    BY <1>2, <2>1, FactorIs, Powers
  <2>2. CASE Depth(f) = 16
    BY <1>2, <2>2, FactorIs, Powers
  <2> QED
    BY <2>1, <2>2
<1>6. CASE f \in {"cbG8", "cbG16"}
  <2>1. m = 1 /\ u = 1 /\ full \in Nat /\ color = <<s[1] * u, s[1] * u, s[1] * u, full>>
    BY <1>4, <1>5, <1>6, WrittenTypes
  <2>2. s[1] = p[1] /\ p[1] \in Nat
    BY <1>1, <1>3, <2>1
  <2> HIDE DEF u, full, color
  <2>3. color = <<p[1], p[1], p[1], full>>
    BY <2>1, <2>2
  <2>4. Append(<<p[1], p[1], p[1]>>, full) = <<p[1], p[1], p[1], full>>
    BY <2>1, <2>2, AppendThree
  <2>5. color = Append(Level(p[1]), full)
    BY <2>3, <2>4 DEF Level
  <2> QED
    BY <1>6, <2>5 DEF color, full
<1>7. CASE f \in {"cbTC8", "cbTC16"} \/ f \in {"cbTCA8", "cbTCA16"}
  <2>1. Len(p) = 4 /\ m \in {3, 4} /\ u = 1
    BY <1>1, <1>5, <1>7, WrittenTypes
  <2>2. p = <<p[1], p[2], p[3], p[4]>> /\ p[1] \in Nat /\ p[2] \in Nat /\ p[3] \in Nat
    BY <1>1, <2>1, QuadIs
  <2>3. s[1] = p[1] /\ s[2] = p[2] /\ s[3] = p[3]
    <3>1. 1 \in 1..m /\ 2 \in 1..m /\ 3 \in 1..m
      BY <2>1
    <3> HIDE DEF m
    <3> QED
      BY <1>3, <3>1
  <2>4. s[1] * u = p[1] /\ s[2] * u = p[2] /\ s[3] * u = p[3]
    <3> HIDE DEF u
    <3> QED
      BY <2>1, <2>2, <2>3
  <2>5. color = <<s[1] * u, s[2] * u, s[3] * u, p[4]>>
    <3>1. CASE f \in {"cbTC8", "cbTC16"}
      BY <1>1, <1>4, <1>5, <3>1, WrittenTypes
    <3>2. CASE f \in {"cbTCA8", "cbTCA16"}
      <4>1. m = 4 /\ color = <<s[1] * u, s[2] * u, s[3] * u, s[4]>>
        BY <1>4, <3>2, WrittenTypes
      <4> QED
        BY <1>3, <4>1
    <3> QED
      BY <1>7, <3>1, <3>2
  <2> HIDE DEF u, color
  <2>6. color = p
    BY <2>2, <2>4, <2>5
  <2> QED
    BY <1>7, <2>6 DEF color
<1>8. CASE f \in {"cbP1", "cbP2", "cbP4", "cbP8"}
  <2>1. Parsed[f][2] = ctPaletted
    BY <1>8, WrittenTypes
  <2>2. color = s /\ Len(p) = m
    BY <1>1, <1>4, <1>8, <2>1
  <2>3. s = p
    BY <1>1, <1>3, <2>2, SeqEqual
  <2> QED
    BY <1>8, <2>2, <2>3
<1> QED
  BY <1>6, <1>7, <1>8, WrittenTypes

\* The line and the column of a pixel, from its number
LEMMA NumberIs ==
  ASSUME NEW w \in Nat \ {0}, NEW h \in Nat, NEW n \in 0..(w * h - 1)
  PROVE  /\ n % w \in Nat /\ n % w < w /\ n \div w \in Nat /\ n \div w < h
         /\ n = (n \div w) * w + (n % w)
<1>1. n \in Nat /\ n < h * w
  <2> DEFINE v == w * h
  <2>1. v \in Nat /\ h * w = v
    OBVIOUS
  <2>2. n \in 0..(v - 1)
    OBVIOUS
  <2> HIDE DEF v
  <2>3. n \in Nat /\ n < v
    BY <2>1, <2>2
  <2> QED
    BY <2>1, <2>3
<1> DEFINE t == n \div w
           r == n % w
<1>2. r \in Nat /\ r < w /\ t \in Nat /\ t < h /\ n = t * w + r
  BY <1>1, IndexPass
<1> QED
  BY <1>2

\* What writeImage has put into its rows is what the standard reads in them.
LEMMA RoundTripHolds == PicturesInv => RoundTrip
<1> SUFFICES ASSUME PicturesInv, pc = "done", pixels # <<>>, NEW n \in DOMAIN image
             PROVE  image[n] = IF cb \in {"cbG8", "cbG16"}
                               THEN Append(Level(pixels[n][1]), Full(cb)) ELSE pixels[n]
  BY DEF RoundTrip
<1>1. /\ ImageInv /\ EncoderInv /\ FormatInv /\ ShowsFile
  BY DEF PicturesInv, DecodeInv, PixInv
<1>2. IsImage /\ WrittenRows(height)
  BY <1>1 DEF EncoderInv
<1>3. /\ cb \in DOMAIN Written /\ interlaced = FALSE /\ trns = <<>>
      /\ width \in Nat \ {0} /\ height \in Nat \ {0}
      /\ DOMAIN pixels = 0..(width * height - 1)
      /\ \A k \in DOMAIN pixels : pixels[k] \in Encodable(cb)
  BY <1>2 DEF IsImage
<1>4. DOMAIN image = 0..(width * height - 1)
  BY <1>1 DEF ImageInv
<1> DEFINE line == n \div width
           column == n % width
<1>5. /\ column \in Nat /\ column < width /\ line \in Nat /\ line < height
      /\ n = line * width + column
  BY <1>3, <1>4, NumberIs
<1> HIDE DEF line, column
<1>6. image[n] = Shown(column, line)
  BY <1>1, <1>3, <1>5 DEF ShowsFile
<1> DEFINE bytes == file[line + 1].bytes
<1>7. Shown(column, line) = Decoded(bytes, column)
  <2>1. FileRows /\ Sized
    BY <1>1, FileIsRead
  <2>2. 0 \in PassSet /\ Lin(0, line) = line /\ Col(0, column) = column
    BY <1>3 DEF PassSet, Lin, Col
  <2>3. line + 1 \in DOMAIN file
    BY <1>2, <1>3, <1>5, LenProperties DEF WrittenRows, IsSequence
  <2>4. Key(line + 1) = <<0, line>>
    <3>1. line + 1 \in 1..height /\ (line + 1) - 1 = line
      BY <1>3, <1>5
    <3> QED
      BY <1>2, <3>1 DEF WrittenRows, Key
  <2> QED
    BY <1>5, <2>1, <2>2, <2>3, <2>4, ShownIs
<1> DEFINE s == SamplesAt(bytes, cb, column)
           p == pixels[n]
<1>8. p \in Encodable(cb)
  BY <1>3, <1>4
<1>9. s = [k \in 1..Channels(cb) |-> p[k]]
  <2>1. RowIsPixels
    BY <1>1, RowsHold
  <2>2. line + 1 \in DOMAIN file
    BY <1>2, <1>3, <1>5, LenProperties DEF WrittenRows, IsSequence
  <2>3. column \in 0..(width - 1) /\ (line + 1) - 1 = line
    BY <1>3, <1>5
  <2>4. s = SubSeq(pixels[line * width + column], 1, Channels(cb))
    BY <2>1, <2>2, <2>3 DEF RowIsPixels
  <2>5. s = Kept(p)
    BY <1>5, <2>4 DEF Kept
  <2> QED
    BY <1>2, <1>8, <2>5, KeptIs
<1> HIDE DEF bytes, p
<1>10. s # KeySamples
  <2>1. DOMAIN KeySamples = {}
    <3>1. DOMAIN <<>> = {}
      OBVIOUS
    <3> QED
      BY <1>3, <3>1 DEF KeySamples
  <2>2. DOMAIN s = 1..Channels(cb) /\ Channels(cb) \in {1, 3, 4}
    BY <1>3, <1>9, Formats
  <2>3. 1 \in DOMAIN s
    BY <2>2
  <2> QED
    BY <2>1, <2>3
<1>11. /\ s \in Seq(Nat) /\ Len(s) = Channels(cb)
       /\ \A k \in 1..Channels(cb) : s[k] = p[k]
  <2> DEFINE m == Channels(cb)
  <2>1. m \in Nat /\ p \in Seq(Nat) /\ Len(p) >= m /\ \A k \in 1..m : p[k] \in Nat
    BY <1>3, <1>8, EncodablePixel, Formats
  <2> HIDE DEF s, m
  <2>2. s = [k \in 1..m |-> p[k]]
    BY <1>9 DEF m
  <2>3. s \in [1..m -> Nat]
    BY <2>1, <2>2
  <2>4. s \in Seq(Nat) /\ Len(s) = m
    BY <2>1, <2>3, FunctionIsSeq
  <2>5. \A k \in 1..m : s[k] = p[k]
    BY <2>2
  <2> QED
    BY <2>4, <2>5 DEF m
<1> HIDE DEF s
<1>12. Color(s, cb, KeySamples)
         = IF cb \in {"cbG8", "cbG16"} THEN Append(Level(p[1]), Full(cb)) ELSE p
  <2>1. cb \in DOMAIN Written
    BY <1>3
  <2> QED
    BY <1>8, <1>10, <1>11, <2>1, ShownAsIs
<1>13. image[n] = Color(s, cb, KeySamples)
  BY <1>6, <1>7 DEF Decoded, s
<1> QED
  BY <1>12, <1>13 DEF p

\* An image comes back from Encode and Decode.
THEOREM ImagesRoundTrip == Spec => []RoundTrip
<1> QED
  BY RoundTripHolds, PicturesInvariant, PTL
=============================================================================
