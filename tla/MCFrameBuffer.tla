--------------------------- MODULE MCFrameBuffer ---------------------------
(***************************************************************************)
(* FrameBuffer for TLC: a screen of 2 lines of 3 columns with tab stops    *)
(* every 2, so that a tab both stays on a line and leaves it.              *)
(***************************************************************************)
EXTENDS FrameBuffer

\* A glyph and the blank.
TwoGlyphs == {"a", " "}
=============================================================================
