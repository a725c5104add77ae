------------------------------- MODULE Console -------------------------------
(***************************************************************************)
(* FrameBuffer shared by kernel_main, which prints its messages with       *)
(* interrupts on, and by the keyboard handler, which prints a character    *)
(* with interrupts off.  A key may be printed between any two accesses of  *)
(* kernel_main's PrintChar to the cursor, to video memory or to a port: no *)
(* lock and no volatile keeps it out.                                      *)
(*                                                                         *)
(* kernel_main works on copies of cursor_pos_.x and cursor_pos_.y in       *)
(* registers.  Where the source reads a member the build may read memory   *)
(* again or use the copy it has; what the source writes may stay in a      *)
(* register until MoveCursor stores it, or go to memory at any time before *)
(* that.  The accesses are otherwise in the order of the source.           *)
(***************************************************************************)
EXTENDS FrameBuffer

CONSTANTS
  Texts,     \* what kernel_main may have to print
  KeyChars,  \* the characters of the keyboard's layout
  MaxKeys    \* bound: how many keys are pressed

\* kernel_main prints glyphs and newlines, never a backspace, whose test of the
\* column and decrement a key could separate; a key may be a backspace.
ASSUME ConsoleAssumption ==
  /\ Texts \subseteq Seq(Glyphs \cup (Controls \ {"BS"}))
  /\ KeyChars \subseteq Glyphs \cup Controls
  /\ MaxKeys \in Nat

VARIABLES
  text,      \* what kernel_main has still to print
  pc,        \* where it is in PrintChar
  reg,       \* its copies of the cursor's members
  dirty,     \* the members whose newest value is only in reg
  index,     \* the i of ScrollScreen's loops
  word,      \* the cell a loop of ScrollScreen is about to store
  port,      \* the cursor register the command port has selected
  keys,      \* how many keys have been printed
  expected   \* the screen this PrintChar should leave, or a key has come

consoleVars ==
  <<vars, text, pc, reg, dirty, index, word, port, keys, expected>>

Interrupted == [mem |-> <<>>]

\* PrintLogo has cleared the screen and printed some lines.
ConsoleInit ==
  /\ video_mem = [i \in Cells |-> [char |-> " ", attr |-> AttrByte(kWhite, kBlack)]]
  /\ cursor_pos \in [x : 0 .. (kNumCols - 1), y : 0 .. (kNumRows - 1)]
  /\ attr_byte = AttrByte(kWhite, kBlack)
  /\ crtc = Registers(cursor_pos.y, cursor_pos.x)
  /\ text \in Texts
  /\ pc = "idle"
  /\ reg = cursor_pos
  /\ dirty = {}
  /\ index = 0
  /\ word = Space
  /\ port = "low"
  /\ keys = 0
  /\ expected = [mem |-> video_mem, pos |-> cursor_pos]

-----------------------------------------------------------------------------
(***************************************************************************)
(* kernel_main in PrintChar, one access at a time.                         *)
(***************************************************************************)
Char == Head(text)

Goto(from, to) == pc = from /\ pc' = to

\* The source reads a member: from memory, or from the register that has it.
Read(f) ==
  /\ \/ UNCHANGED reg
     \/ f \notin dirty /\ reg' = [reg EXCEPT ![f] = cursor_pos[f]]
  /\ UNCHANGED <<vars, text, dirty, index, word, port, keys, expected>>

\* The source writes a member: the value is in a register first, ...
Write(f, value) ==
  /\ reg' = [reg EXCEPT ![f] = value]
  /\ dirty' = dirty \cup {f}
  /\ UNCHANGED <<vars, text, index, word, port, keys, expected>>

\* ... from which the build may store it at any time.
Store(f) ==
  /\ f \in dirty
  /\ cursor_pos' = [cursor_pos EXCEPT ![f] = reg[f]]
  /\ dirty' = dirty \ {f}
  /\ UNCHANGED <<video_mem, attr_byte, crtc, text, pc, reg, index, word, port, keys,
                 expected>>

\* The members are read for the first time.
LoadRow ==
  /\ text # <<>>
  /\ Goto("idle", "column")
  /\ reg' = [reg EXCEPT !.y = cursor_pos.y]
  /\ index' = 0
  /\ expected' = Printed(Char)
  /\ UNCHANGED <<vars, text, dirty, word, port, keys>>

LoadColumn ==
  /\ Goto("column", "cell")
  /\ reg' = [reg EXCEPT !.x = cursor_pos.x]
  /\ UNCHANGED <<vars, text, dirty, index, word, port, keys, expected>>

\* A glyph goes to the cell whose location was computed from them.
PutGlyph ==
  /\ Goto("cell", "step")
  /\ IF Char \in Glyphs
     THEN video_mem' = [video_mem EXCEPT ![reg.y * kNumCols + reg.x] =
                          [char |-> Char, attr |-> attr_byte]]
     ELSE UNCHANGED video_mem
  /\ UNCHANGED <<cursor_pos, attr_byte, crtc, text, reg, dirty, index, word, port, keys,
                 expected>>

\* The reads of the column: to advance it, to compare it with the end of the line,
\* and as the argument of MoveCursor.
ReadColumn ==
  /\ \/ Goto("step", "advance")
     \/ Goto("wrap", "edge")
     \/ Goto("column argument", "row argument")
  /\ Read("x")

\* The reads of the row: to advance it at a newline or behind the end of a line, to
\* compare it with the last line, and as the argument of MoveCursor.
ReadRow ==
  /\ \/ Goto("newline", "newline row")
     \/ Goto("down", "down row")
     \/ Goto("scroll", "last line")
     \/ Goto("row argument", "store row")
  /\ Read("y")

\* The column of the next character; a newline has its row to advance yet.
Advance ==
  /\ Goto("advance", IF Char = "LF" THEN "newline" ELSE "wrap")
  /\ IF Char = "none"
     THEN UNCHANGED <<vars, text, reg, dirty, index, word, port, keys, expected>>
     ELSE Write("x", Step(Char, reg).x)

\* The end of the line, whose row follows.
WrapLine ==
  \/ /\ reg.x >= kNumCols
     /\ Goto("edge", "down")
     /\ Write("x", Wrap(reg).x)
  \/ /\ reg.x < kNumCols
     /\ Goto("edge", "scroll")
     /\ UNCHANGED <<vars, text, reg, dirty, index, word, port, keys, expected>>

Down ==
  /\ Goto("newline row", "wrap") \/ Goto("down row", "scroll")
  /\ Write("y", reg.y + 1)

\* Mutant: the row ScrollScreen leaves is past the last one.
ScrolledRowPast == kNumRows
ScrolledRow == kNumRows - 1

\* Mutant: the loop copies one cell too few.
LastMovedShort == (kNumRows - 1) * kNumCols - 1
LastMoved == (kNumRows - 1) * kNumCols

\* ScrollScreen: return at once, or ...
TestRow ==
  /\ Goto("last line", IF reg.y < kNumRows THEN "column argument" ELSE "copy")
  /\ UNCHANGED <<vars, text, reg, dirty, index, word, port, keys, expected>>

\* ... load and store one cell after the other, and set the row.
CopyCell ==
  /\ index < kNumRows * kNumCols
  /\ Goto("copy", "paste")
  /\ word' = IF index < LastMoved THEN video_mem[index + kNumCols] ELSE Space
  /\ UNCHANGED <<vars, text, reg, dirty, index, port, keys, expected>>

PasteCell ==
  /\ Goto("paste", "copy")
  /\ video_mem' = [video_mem EXCEPT ![index] = word]
  /\ index' = index + 1
  /\ UNCHANGED <<cursor_pos, attr_byte, crtc, text, reg, dirty, word, port, keys,
                 expected>>

EndScroll ==
  /\ index = kNumRows * kNumCols
  /\ Goto("copy", "column argument")
  /\ Write("y", ScrolledRow)

\* MoveCursor compares its arguments and stores the row, or returns at once; then
\* it stores the column.
StoreRow ==
  /\ IF Valid(reg.y, reg.x)
     THEN /\ Goto("store row", "store column")
          /\ cursor_pos' = [cursor_pos EXCEPT !.y = reg.y]
          /\ dirty' = dirty \ {"y"}
          /\ UNCHANGED text
     ELSE /\ dirty = {}
          /\ Goto("store row", "idle")
          /\ text' = Tail(text)
          /\ UNCHANGED <<cursor_pos, dirty>>
  /\ UNCHANGED <<video_mem, attr_byte, crtc, reg, index, word, port, keys, expected>>

StoreColumn ==
  /\ Goto("store column", "command high")
  /\ cursor_pos' = [cursor_pos EXCEPT !.x = reg.x]
  /\ dirty' = dirty \ {"x"}
  /\ UNCHANGED <<video_mem, attr_byte, crtc, text, reg, index, word, port, keys,
                 expected>>

\* The four writes to the ports; what they send was computed from the arguments.
Command ==
  /\ \/ Goto("command high", "data high") /\ port' = "high"
     \/ Goto("command low", "data low") /\ port' = "low"
  /\ UNCHANGED <<vars, text, reg, dirty, index, word, keys, expected>>

Data ==
  /\ \/ /\ Goto("data high", "command low")
        /\ crtc' = [crtc EXCEPT ![port] = Registers(reg.y, reg.x).high]
        /\ UNCHANGED text
     \/ /\ Goto("data low", "idle")
        /\ crtc' = [crtc EXCEPT ![port] = Registers(reg.y, reg.x).low]
        /\ text' = Tail(text)
  /\ UNCHANGED <<video_mem, cursor_pos, attr_byte, reg, dirty, index, word, port, keys,
                 expected>>

KernelMain ==
  \/ LoadRow \/ LoadColumn \/ PutGlyph \/ ReadColumn \/ ReadRow \/ Advance \/ WrapLine
  \/ Down \/ TestRow \/ CopyCell \/ PasteCell \/ EndScroll \/ StoreRow \/ StoreColumn
  \/ Command \/ Data
  \/ \E f \in {"x", "y"} : Store(f)

-----------------------------------------------------------------------------
(***************************************************************************)
(* The keyboard handler prints a whole character in between.               *)
(***************************************************************************)
Key(c) ==
  /\ keys < MaxKeys
  /\ PrintChar(c)
  /\ port' = "low"
  /\ keys' = keys + 1
  /\ expected' = IF pc = "idle" THEN Printed(c) ELSE Interrupted
  /\ UNCHANGED <<text, pc, reg, dirty, index, word>>

Halted == pc = "idle" /\ text = <<>> /\ UNCHANGED consoleVars

ConsoleNext == KernelMain \/ (\E c \in KeyChars : Key(c)) \/ Halted

ConsoleSpec ==
  ConsoleInit /\ [][ConsoleNext]_consoleVars /\ WF_consoleVars(KernelMain)

-----------------------------------------------------------------------------
(***************************************************************************)
(* Properties.                                                             *)
(***************************************************************************)
Position(xs, ys) == [x : 0 .. xs, y : 0 .. ys]

\* Types: inside PrintChar the cursor may be past an edge, by a tab stop at most,
\* whatever the keys do to it meanwhile.
ConsoleTypeOK ==
  /\ video_mem \in [Cells -> Cell]
  /\ cursor_pos \in Position(kNumCols + kNumTab - 1, kNumRows)
  /\ reg \in Position(kNumCols + kNumTab - 1, kNumRows)
  /\ dirty \subseteq {"x", "y"}
  /\ crtc \in [high : 0 .. (ByteMod - 1), low : 0 .. (ByteMod - 1)]
  /\ word \in Cell
  /\ index \in 0 .. (kNumRows * kNumCols)
  /\ keys \in 0 .. MaxKeys
  /\ port \in {"high", "low"}

\* However keys interrupt kernel_main, the cursor is on the screen again whenever
\* PrintChar has returned: MoveCursor never has a position to refuse.
CursorReturns ==
  pc \in {"idle", "command high", "data high", "command low", "data low"} =>
    Valid(cursor_pos.y, cursor_pos.x)

\* A key repairs what the race before it did to the hardware cursor: it is
\* printed in one piece, from any state PrintChar can be interrupted in.
KeyShowsCursor == [][keys' # keys => CursorShown']_consoleVars

\* A PrintChar that no key interrupts leaves the screen of the atomic PrintChar,
\* and with it the page of Terminal, whatever earlier interruptions left behind.
UninterruptedIsAtomic ==
  (pc = "idle" /\ expected # Interrupted) =>
    /\ video_mem = expected.mem
    /\ cursor_pos = expected.pos
    /\ crtc = Registers(expected.pos.y, expected.pos.x)

(***************************************************************************)
(* What the comments say and the interleaving does not keep.               *)
(***************************************************************************)

\* PrintChar prints to the screen: a glyph goes to a cell of video memory.
KeysOnScreen ==
  [][(\E c \in KeyChars \cap Glyphs : Key(c)) =>
       kNumCols * cursor_pos.y + cursor_pos.x \in Cells]_consoleVars
=============================================================================
