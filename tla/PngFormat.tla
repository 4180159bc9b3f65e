----------------------------- MODULE PngFormat ------------------------------
(***************************************************************************)
(* The formats of pixels in internal/png: the tables of writer.go and of   *)
(* reader.go, and what the PNG standard says of the bytes of a row.        *)
(*                                                                         *)
(* A pixel is a sequence of samples: gray, an index into a palette, or red,*)
(* green, blue and alpha (not premultiplied).                              *)
(***************************************************************************)
EXTENDS Integers, Sequences, SequencesExt, ColorTypes

\* The depth and the color type that writeIHDR writes for a cb
Written ==
  [cbG8 |-> <<8, ctGrayscale>>,       cbG16 |-> <<16, ctGrayscale>>,
   cbTC8 |-> <<8, ctTrueColor>>,      cbTC16 |-> <<16, ctTrueColor>>,
   cbTCA8 |-> <<8, ctTrueColorAlpha>>, cbTCA16 |-> <<16, ctTrueColorAlpha>>,
   cbP1 |-> <<1, ctPaletted>>, cbP2 |-> <<2, ctPaletted>>,
   cbP4 |-> <<4, ctPaletted>>, cbP8 |-> <<8, ctPaletted>>]

\* The cb that parseIHDR finds for a depth and a color type
Parsed ==
  [cbG1 |-> <<1, ctGrayscale>>, cbP1 |-> <<1, ctPaletted>>,
   cbG2 |-> <<2, ctGrayscale>>, cbP2 |-> <<2, ctPaletted>>,
   cbG4 |-> <<4, ctGrayscale>>, cbP4 |-> <<4, ctPaletted>>,
   cbG8 |-> <<8, ctGrayscale>>, cbP8 |-> <<8, ctPaletted>>,
   cbTC8 |-> <<8, ctTrueColor>>, cbTCA8 |-> <<8, ctTrueColorAlpha>>,
   cbGA8 |-> <<8, ctGrayscaleAlpha>>, cbGA16 |-> <<16, ctGrayscaleAlpha>>,
   cbG16 |-> <<16, ctGrayscale>>, cbTC16 |-> <<16, ctTrueColor>>,
   cbTCA16 |-> <<16, ctTrueColorAlpha>>]

\* bitsPerPixel in writeImage ...
WriterBits ==
  [cbG8 |-> 8, cbTC8 |-> 24, cbP8 |-> 8, cbP4 |-> 4, cbP2 |-> 2, cbP1 |-> 1,
   cbTCA8 |-> 32, cbTC16 |-> 48, cbTCA16 |-> 64, cbG16 |-> 16]

\* ... and in readImagePass, where some have the depth
ReaderBits(c, depth) ==
  CASE c \in {"cbG1", "cbG2", "cbG4", "cbG8", "cbP1", "cbP2", "cbP4", "cbP8"} -> depth
    [] c \in {"cbGA8", "cbG16"}   -> 16
    [] c = "cbTC8"                -> 24
    [] c \in {"cbTCA8", "cbGA16"} -> 32
    [] c = "cbTC16"               -> 48
    [] c = "cbTCA16"              -> 64

\* Mutant of RowBytes: rounds down.
RowBytesDown(bits, w) == (bits * w) \div 8

\* The size of a row without the filter type
RowBytes(bits, w) == (bits * w + 7) \div 8

-----------------------------------------------------------------------------
(* What the standard says of a row. *)

Depth(c) == Parsed[c][1]
Gray(c) == Parsed[c][2] \in {ctGrayscale, ctGrayscaleAlpha}
Paletted(c) == Parsed[c][2] = ctPaletted
HasAlpha(c) == Parsed[c][2] \in {ctGrayscaleAlpha, ctTrueColorAlpha}

Channels(c) ==
  CASE Parsed[c][2] \in {ctGrayscale, ctPaletted} -> 1
    [] Parsed[c][2] = ctGrayscaleAlpha -> 2
    [] Parsed[c][2] = ctTrueColor      -> 3
    [] Parsed[c][2] = ctTrueColorAlpha -> 4

\* Sample number k of a row, the high bits first
SampleAt(bytes, depth, k) ==
  IF depth = 16 THEN bytes[2 * k] * 256 + bytes[2 * k + 1]
  ELSE LET bit == k * depth
       IN  (bytes[bit \div 8] \div 2^((8 - depth) - (bit % 8))) % 2^depth

SamplesAt(bytes, c, n) ==
  [k \in 1..Channels(c) |-> SampleAt(bytes, Depth(c), n * Channels(c) + k - 1)]

\* Opaque in the image that is decoded, which has 8 or 16 bits a channel
Full(c) == IF Depth(c) = 16 THEN 65535 ELSE 255

\* The color or the index of a pixel: samples are scaled to the image's depth; the
\* ones that tRNS names are transparent.
Color(samples, c, trns) ==
  LET scaled == [k \in DOMAIN samples |-> samples[k] * (Full(c) \div (2^Depth(c) - 1))]
      alpha  == IF HasAlpha(c) THEN Last(samples)
                ELSE IF samples = trns THEN 0
                ELSE Full(c)
  IN  CASE Paletted(c) -> samples
        [] ~Paletted(c) /\ Gray(c) -> <<scaled[1], scaled[1], scaled[1], alpha>>
        [] ~Paletted(c) /\ ~Gray(c) -> <<scaled[1], scaled[2], scaled[3], alpha>>
=============================================================================
