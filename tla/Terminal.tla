------------------------------ MODULE Terminal ------------------------------
(***************************************************************************)
(* What a text console promises: a page of lines, a position on it, and    *)
(* characters that go where the position is.  The page is a sequence of    *)
(* lines; to advance past the last one drops the first and adds a blank    *)
(* one.                                                                    *)
(***************************************************************************)
EXTENDS Integers, Sequences

CONSTANTS Rows, Cols, Tab, Glyphs, Attrs

VARIABLES
  lines,  \* the page, top line first
  row,    \* the position, counted from 0
  col,
  style   \* the attribute of what is written next

terminalVars == <<lines, row, col, style>>

Cell == [char : Glyphs, attr : Attrs]
Line == [0 .. (Cols - 1) -> Cell]

Blank(attr) == [char |-> " ", attr |-> attr]
BlankLine(attr) == [c \in 0 .. (Cols - 1) |-> Blank(attr)]

TerminalInit ==
  /\ lines \in [1 .. Rows -> Line]
  /\ row = 0
  /\ col = 0
  /\ style \in Attrs

\* The page with a new blank line at the bottom if the position leaves it.
NextLineOf(page) ==
  /\ col' = 0
  /\ IF row + 1 < Rows
     THEN lines' = page /\ row' = row + 1
     ELSE lines' = Append(Tail(page), BlankLine(style)) /\ row' = row

\* The position moves right to column c, or to the next line.
AdvanceTo(page, c) ==
  \/ c < Cols /\ lines' = page /\ col' = c /\ UNCHANGED row
  \/ c >= Cols /\ NextLineOf(page)

Write(glyph) ==
  /\ AdvanceTo([lines EXCEPT ![row + 1][col] = [char |-> glyph, attr |-> style]],
               col + 1)
  /\ UNCHANGED style

Tabulate ==
  /\ AdvanceTo(lines, Tab * (col \div Tab + 1))
  /\ UNCHANGED style

NewLine == NextLineOf(lines) /\ UNCHANGED style

MoveTo(r, c) ==
  /\ row' = r
  /\ col' = c
  /\ UNCHANGED <<lines, style>>

Erase ==
  /\ lines' = [r \in 1 .. Rows |-> BlankLine(style)]
  /\ row' = 0
  /\ col' = 0
  /\ UNCHANGED style

Recolor == \E attr \in Attrs : style' = attr /\ UNCHANGED <<lines, row, col>>

\* Backspace and carriage return move the position on its line.
TerminalNext ==
  \/ \E glyph \in Glyphs : Write(glyph)
  \/ Tabulate
  \/ NewLine
  \/ \E r \in 0 .. (Rows - 1), c \in 0 .. (Cols - 1) : MoveTo(r, c)
  \/ Erase
  \/ Recolor

TerminalSpec == TerminalInit /\ [][TerminalNext]_terminalVars
=============================================================================
