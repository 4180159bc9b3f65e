----------------------------- MODULE PngFilter ------------------------------
(***************************************************************************)
(* The row filters of internal/png: paeth.go, and the arithmetic that      *)
(* writer.go and reader.go do on the bytes of two successive rows.         *)
(*                                                                         *)
(* A row is a function on 0..N-1, without the filter type in front of it.  *)
(***************************************************************************)
EXTENDS Integers

CONSTANTS
  N,    \* bytes in a row
  Bpp   \* bytes from a byte to the one of the pixel to its left

ASSUME RowAssumption == N \in Nat /\ Bpp \in Nat \ {0} /\ Bpp <= N

Byte == 0..255
Columns == 0..(N - 1)
Row == [Columns -> Byte]
Zeros == [k \in Columns |-> 0]

ftNone == 0
ftSub == 1
ftUp == 2
ftAverage == 3
ftPaeth == 4
FilterType == 0..4

Abs(x) == IF x < 0 THEN -x ELSE x

\* paeth and the inner step of filterPaeth: which of left, up and upper left is
\* nearest to left + up - upper left
Paeth(a, b, c) ==
  LET pa == Abs(b - c)
      pb == Abs(a - c)
      pc == Abs((b - c) + (a - c))
  IN  IF pa <= pb /\ pa <= pc THEN a ELSE IF pb <= pc THEN b ELSE c

\* What a filter expects of a byte, of the first pixel, which has nothing to
\* its left, ...
First(f, up) ==
  CASE f \in {ftNone, ftSub} -> 0
    [] f \in {ftUp, ftPaeth} -> up
    [] f = ftAverage         -> up \div 2

\* ... and of the others.
Later(f, left, up, upLeft) ==
  CASE f = ftNone    -> 0
    [] f = ftSub     -> left
    [] f = ftUp      -> up
    [] f = ftAverage -> (left + up) \div 2
    [] f = ftPaeth   -> Paeth(left, up, upLeft)

\* The prediction for byte k of row cur below row prev.
Predict(f, cur, prev, k) ==
  IF k < Bpp THEN First(f, prev[k])
  ELSE Later(f, cur[k - Bpp], prev[k], prev[k - Bpp])

\* The row filtered as a whole: what remains of the bytes, as uint8.
Filtered(f, cur, prev) ==
  [k \in Columns |-> (cur[k] - Predict(f, cur, prev, k)) % 256]

-----------------------------------------------------------------------------
(* filter: the choice of the filter for a row. *)

abs8(d) == IF d < 128 THEN d ELSE 256 - d

\* sum after each of the bytes
Sums(row) ==
  LET s[k \in 0..N] == IF k = 0 THEN 0 ELSE s[k - 1] + abs8(row[k - 1])
  IN  s

\* The first byte after which the loop may break: the first pixel has a loop of
\* its own.
FirstCheck(f) == IF f = ftNone THEN 1 ELSE Bpp + 1

\* How many bytes of the row have been computed when the loop ends.
Computed(f, s, best) ==
  LET stops(k) == ~(s[k] < best) /\ \A l \in FirstCheck(f)..(k - 1) : s[l] < best
  IN  IF \E k \in FirstCheck(f)..N : stops(k)
      THEN CHOOSE k \in FirstCheck(f)..N : stops(k)
      ELSE N

\* What the buffer of a filter holds beyond that: bytes of an earlier row.
Stale == -1

\* Mutant of Try: what the sum was when the loop broke does not matter.
TryHalf(t, f, cur, prev) ==
  LET row  == Filtered(f, cur, prev)
      s    == Sums(row)
      done == Computed(f, s, t.best)
  IN  IF s[done] <= t.best
      THEN [best |-> s[done], filter |-> f,
            row |-> [k \in Columns |-> IF k < done THEN row[k] ELSE Stale]]
      ELSE t

\* Try filter f after those that have led to t: the least sum so far, its filter
\* and the buffer that holds its row.
Try(t, f, cur, prev) ==
  LET row  == Filtered(f, cur, prev)
      s    == Sums(row)
      done == Computed(f, s, t.best)
  IN  IF s[done] < t.best
      THEN [best |-> s[done], filter |-> f,
            row |-> [k \in Columns |-> IF k < done THEN row[k] ELSE Stale]]
      ELSE t

\* Mutant of Chosen: best is not updated after the Paeth filter.
ChosenForgetful(cur, prev) ==
  LET up      == Filtered(ftUp, cur, prev)
      first   == [best |-> Sums(up)[N], filter |-> ftUp, row |-> up]
      paeth   == Try(first, ftPaeth, cur, prev)
      none    == Try([paeth EXCEPT !.best = first.best], ftNone, cur, prev)
      sub     == Try(none, ftSub, cur, prev)
  IN  Try(sub, ftAverage, cur, prev)

\* In the order of filter; the sum for ftUp never stops early.
Chosen(cur, prev) ==
  LET up      == Filtered(ftUp, cur, prev)
      first   == [best |-> Sums(up)[N], filter |-> ftUp, row |-> up]
      paeth   == Try(first, ftPaeth, cur, prev)
      none    == Try(paeth, ftNone, cur, prev)
      sub     == Try(none, ftSub, cur, prev)
  IN  Try(sub, ftAverage, cur, prev)
=============================================================================
