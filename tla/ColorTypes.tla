----------------------------- MODULE ColorTypes -----------------------------
(* The color types of the PNG standard, as internal/png names them. *)

ctGrayscale == 0
ctTrueColor == 2
ctPaletted == 3
ctGrayscaleAlpha == 4
ctTrueColorAlpha == 6
=============================================================================
