---------------------------- MODULE MCPngTransfer ---------------------------
(* Instances of PngTransfer for TLC. *)
EXTENDS PngTransfer

Image(p, a, mo, o, n) ==
  [palette |-> p, alphas |-> a, model |-> mo, opaque |-> o, rows |-> n]

\* Palettes at the limits of the depths and beyond, a color model for every format,
\* an empty image.
Kinds ==
  {m \in {Image(p, a, "Palette", a = 0, 1) :
            p \in {0, 1, 2, 3, 4, 5, 16, 17, 256, 257}, a \in {0, 2}} :
     m.alphas <= m.palette}
  \cup {Image(-1, 0, mo, o, 2) :
     mo \in {"Gray", "Gray16", "RGBA", "NRGBA64"}, o \in BOOLEAN}
  \cup {Image(-1, 0, "Gray16", TRUE, 0), Image(-1, 0, "Gray16", TRUE, 3)}

Header(d, t, i, n) ==
  [known |-> TRUE, interlace |-> i, rows |-> n, depth |-> d, ct |-> t]

\* Every color type at 8 and 16 bits, grayscale also at 2, palettes also
\* interlaced; and what parseIHDR refuses: a method, a color type, an image without
\* pixels.
All ==
  {Header(d, t, itNone, 1) :
     d \in {8, 16}, t \in {ctGrayscale, ctTrueColor, ctGrayscaleAlpha, ctTrueColorAlpha}}
  \cup
  {Header(2, ctGrayscale, itNone, 1), Header(8, ctTrueColor, itNone, 2),
   Header(2, ctPaletted, itNone, 2), Header(2, ctPaletted, itAdam7, 1),
   Header(8, ctPaletted, itNone, 2),
   [Header(8, ctGrayscale, itNone, 1) EXCEPT !.known = FALSE],
   Header(8, ctGrayscale, 2, 1), Header(16, ctPaletted, itNone, 1),
   Header(8, ctGrayscale, itNone, 0)}

Large == {Header(8, ctPaletted, itNone, 1)}
=============================================================================
