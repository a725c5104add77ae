----------------------------- MODULE FrameBuffer -----------------------------
(***************************************************************************)
(* The text-mode console of the kernel:                                    *)
(*   src/FrameBuffer/FrameBuffer.cc, include/FrameBuffer/FrameBuffer.h     *)
(* called by one caller at a time.  Video memory is flat, as in the code;  *)
(* a character is a model of what PrintChar tells apart: the control       *)
(* characters it handles, the glyphs it prints, and anything else.         *)
(***************************************************************************)
EXTENDS Integers, Sequences

CONSTANTS
  kNumRows, kNumCols,  \* the size of the screen: 25 by 80
  kNumTab,             \* columns between tab stops: 4
  ByteMod,             \* values of a byte: 256
  Glyphs,              \* the characters from ' ' on
  FgColors, BgColors   \* the colours callers use, of FrameBufferColor

ASSUME ScreenAssumption ==
  /\ kNumRows \in Nat \ {0}
  /\ kNumCols \in Nat \ {0}
  /\ kNumTab \in Nat \ {0}
  /\ ByteMod \in Nat \ {0}
  /\ kNumRows * kNumCols <= ByteMod * ByteMod

\* FrameBufferColor, and the colours the constructor sets.
kWhite == 15
kBlack == 0

ASSUME ColorsAssumption ==
  /\ FgColors \subseteq 0 .. 15 /\ kWhite \in FgColors
  /\ BgColors \subseteq 0 .. 15 /\ kBlack \in BgColors

VARIABLES
  video_mem,   \* video_mem_, by index
  cursor_pos,  \* cursor_pos_
  attr_byte,   \* attr_byte_
  crtc         \* the cursor registers of the display controller

vars == <<video_mem, cursor_pos, attr_byte, crtc>>

\* The attribute byte of a pair of colours: background in the high half.
AttrByte(fg, bg) == 16 * bg + (fg % 16)
Attrs == {AttrByte(fg, bg) : fg \in FgColors, bg \in BgColors}

Cells == 0 .. (kNumRows * kNumCols - 1)
Cell  == [char : Glyphs, attr : Attrs]

\* The control characters PrintChar handles, and the values it ignores: other
\* control characters, and the bytes past 127, which a signed char makes negative.
Controls == {"BS", "TAB", "CR", "LF", "none"}

ASSUME GlyphsAssumption == " " \in Glyphs /\ Glyphs \cap Controls = {}

Space == [char |-> " ", attr |-> attr_byte]

-----------------------------------------------------------------------------
(***************************************************************************)
(* Operations on the members, as functions of their values.                *)
(***************************************************************************)

\* Mutant: one line too few is moved up.
ScrolledShort(mem) ==
  [i \in Cells |-> IF i < (kNumRows - 2) * kNumCols THEN mem[i + kNumCols] ELSE Space]

\* The lines move up by one, the last is blank in the current colours.
Scrolled(mem) ==
  [i \in Cells |-> IF i < (kNumRows - 1) * kNumCols THEN mem[i + kNumCols] ELSE Space]

\* ScrollScreen on the memory and the position PrintChar has come to.
ScrollScreen(mem, pos) ==
  IF pos.y < kNumRows
  THEN [mem |-> mem, pos |-> pos]
  ELSE [mem |-> Scrolled(mem), pos |-> [pos EXCEPT !.y = kNumRows - 1]]

\* Mutant: a tab skips a stop.
TabStopTwo(x) == kNumTab * ((x + 2 * kNumTab) \div kNumTab)

\* (x + kNumTab) & ~(kNumTab - 1), for a kNumTab that is a power of two.
TabStop(x) == kNumTab * ((x + kNumTab) \div kNumTab)

\* Where PrintChar leaves the cursor before it looks at the screen's edges.
Step(c, pos) ==
  CASE c = "BS" /\ pos.x # 0 -> [pos EXCEPT !.x = @ - 1]
    [] c = "TAB" -> [pos EXCEPT !.x = TabStop(@)]
    [] c = "CR" -> [pos EXCEPT !.x = 0]
    [] c = "LF" -> [x |-> 0, y |-> pos.y + 1]
    [] c \in Glyphs -> [pos EXCEPT !.x = @ + 1]
    [] OTHER -> pos

\* Mutant: the end of the line is noticed one character late.
WrapLate(pos) ==
  IF pos.x > kNumCols THEN [x |-> 0, y |-> pos.y + 1] ELSE pos

Wrap(pos) ==
  IF pos.x >= kNumCols THEN [x |-> 0, y |-> pos.y + 1] ELSE pos

Valid(row, col) ==
  0 <= row /\ row < kNumRows /\ 0 <= col /\ col < kNumCols

\* Mutant: the high byte is not shifted down.
RegistersUnshifted(row, col) ==
  LET pos == row * kNumCols + col
  IN  [high |-> pos % ByteMod, low |-> pos % ByteMod]

\* The two bytes MoveCursor sends to the display controller.
Registers(row, col) ==
  LET pos == row * kNumCols + col
  IN  [high |-> (pos \div ByteMod) % ByteMod, low |-> pos % ByteMod]

\* MoveCursor on a given cursor: nothing happens to an invalid position.
MoveCursorFrom(pos, row, col) ==
  IF Valid(row, col)
  THEN /\ cursor_pos' = [x |-> col, y |-> row]
       /\ crtc' = Registers(row, col)
  ELSE /\ cursor_pos' = pos
       /\ UNCHANGED crtc

\* What PrintChar makes of memory and cursor: a glyph goes to the cursor; then
\* the end of the line and the scroll.
Printed(c) ==
  LET location == cursor_pos.y * kNumCols + cursor_pos.x
      mem      == IF c \in Glyphs
                  THEN [video_mem EXCEPT ![location] =
                          [char |-> c, attr |-> attr_byte]]
                  ELSE video_mem
  IN  ScrollScreen(mem, Wrap(Step(c, cursor_pos)))

-----------------------------------------------------------------------------
(***************************************************************************)
(* The interface.                                                          *)
(***************************************************************************)
Init ==
  /\ video_mem \in [Cells -> Cell]
  /\ cursor_pos = [x |-> 0, y |-> 0]
  /\ attr_byte = AttrByte(kWhite, kBlack)
  /\ crtc \in [high : 0 .. (ByteMod - 1), low : 0 .. (ByteMod - 1)]

ClearScreen ==
  /\ video_mem' = [i \in Cells |-> Space]
  /\ MoveCursorFrom(cursor_pos, 0, 0)
  /\ UNCHANGED attr_byte

MoveCursor(row, col) ==
  /\ MoveCursorFrom(cursor_pos, row, col)
  /\ UNCHANGED <<video_mem, attr_byte>>

PrintChar(c) ==
  LET screen == Printed(c)
  IN  /\ video_mem' = screen.mem
      /\ MoveCursorFrom(screen.pos, screen.pos.y, screen.pos.x)
      /\ UNCHANGED attr_byte

SetColor(fg, bg) ==
  /\ attr_byte' = AttrByte(fg, bg)
  /\ UNCHANGED <<video_mem, cursor_pos, crtc>>

\* PrintString prints its characters one by one.
Next ==
  \/ ClearScreen
  \/ \E row \in -1 .. kNumRows, col \in -1 .. kNumCols : MoveCursor(row, col)
  \/ \E c \in Glyphs \cup Controls : PrintChar(c)
  \/ \E fg \in FgColors, bg \in BgColors : SetColor(fg, bg)

Spec == Init /\ [][Next]_vars

-----------------------------------------------------------------------------
(***************************************************************************)
(* Properties.                                                             *)
(***************************************************************************)

\* Types: between calls the cursor is on the screen, so that the next glyph
\* goes to a cell of video memory, whatever was printed before.
TypeOK ==
  /\ video_mem \in [Cells -> Cell]
  /\ cursor_pos \in [x : 0 .. (kNumCols - 1), y : 0 .. (kNumRows - 1)]
  /\ attr_byte \in Attrs
  /\ crtc \in [high : 0 .. (ByteMod - 1), low : 0 .. (ByteMod - 1)]

\* The display's cursor is at the position of cursor_pos.
CursorShown ==
  ByteMod * crtc.high + crtc.low = kNumCols * cursor_pos.y + cursor_pos.x

\* Whenever a call changes the screen or the position, it leaves the cursor the
\* display shows where the next character goes (before the first such call the
\* registers hold what the boot loader left).
DisplayedCursor ==
  [][(video_mem' # video_mem \/ cursor_pos' # cursor_pos) => CursorShown']_vars

\* Video memory as lines, top line first.
Page ==
  [r \in 1 .. kNumRows |->
     [c \in 0 .. (kNumCols - 1) |-> video_mem[(r - 1) * kNumCols + c]]]

T == INSTANCE Terminal WITH
  Rows  <- kNumRows,
  Cols  <- kNumCols,
  Tab   <- kNumTab,
  lines <- Page,
  row   <- cursor_pos.y,
  col   <- cursor_pos.x,
  style <- attr_byte

\* The calls on flat memory, which ScrollScreen moves cell by cell, implement a
\* page of lines: no line is lost, split or copied but the top one at a scroll.
ImplementsTerminal == T!TerminalSpec
=============================================================================
