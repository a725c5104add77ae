----------------------------- MODULE MCConsole -----------------------------
(***************************************************************************)
(* Console for TLC: a screen of 2 lines of 3 columns.                      *)
(***************************************************************************)
EXTENDS Console

TwoGlyphs == {"a", " "}

\* Messages that end lines by a glyph, a tab and a newline.
Messages == {<<"a", "a", "LF", "a">>, <<"TAB", "a">>, <<"CR", "none", "TAB">>}
=============================================================================
