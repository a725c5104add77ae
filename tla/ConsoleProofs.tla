---------------------------- MODULE ConsoleProofs ----------------------------
(***************************************************************************)
(* Theorems about the console, for a screen of any size: first for one     *)
(* caller at a time (FrameBuffer and its refinement of Terminal), then for *)
(* PrintChar of kernel_main with keys printed in between, for any text     *)
(* without a backspace and any number of keys (Console).                   *)
(***************************************************************************)
EXTENDS Console, SequenceTheorems, TLAPS


-----------------------------------------------------------------------------
(***************************************************************************)
(* Arithmetic.  Products of variables are kept to a few facts.             *)
(***************************************************************************)
LEMMA Division ==
  ASSUME NEW a \in Nat, NEW d \in Nat \ {0}
  PROVE  /\ a \div d \in Nat
         /\ a % d \in 0 .. (d - 1)
         /\ a = d * (a \div d) + (a % d)
  BY SMT

LEMMA QuotientUnique ==
  ASSUME NEW d \in Nat \ {0}, NEW q \in Int, NEW p \in Int,
         NEW r \in 0 .. (d - 1), NEW s \in 0 .. (d - 1),
         d * q + r = d * p + s
  PROVE  q = p /\ r = s
  BY SMT

LEMMA ProductLess ==
  ASSUME NEW a \in Int, NEW b \in Int, NEW d \in Nat \ {0}, a < b
  PROVE  /\ d * a \in Int /\ d * b \in Int
         /\ d * a + d <= d * b
  BY SMT

LEMMA ProductTurned ==
  ASSUME NEW a \in Int, NEW d \in Int
  PROVE  /\ a * d = d * a /\ d * a \in Int
         /\ d * (a + 1) = d * a + d
         /\ d * (a - 1) = d * a - d
  BY SMT

-----------------------------------------------------------------------------
(***************************************************************************)
(* The cells of the screen: every position has one, no two share one.      *)
(***************************************************************************)
LEMMA Sizes ==
  /\ kNumRows \in Nat \ {0} /\ kNumCols \in Nat \ {0} /\ kNumTab \in Nat \ {0}
  /\ ByteMod \in Nat \ {0}
  /\ kNumRows * kNumCols = kNumCols * kNumRows
  /\ (kNumRows - 1) * kNumCols = kNumCols * kNumRows - kNumCols
  /\ kNumCols * kNumRows \in Nat
  /\ kNumCols * kNumRows <= ByteMod * ByteMod
<1>1. /\ kNumRows \in Nat \ {0} /\ kNumCols \in Nat \ {0} /\ kNumTab \in Nat \ {0}
      /\ ByteMod \in Nat \ {0} /\ kNumRows * kNumCols <= ByteMod * ByteMod
  BY ScreenAssumption
<1>2. kNumRows * kNumCols = kNumCols * kNumRows /\ kNumCols * kNumRows \in Int
  BY <1>1, ProductTurned
<1>3. (kNumRows - 1) * kNumCols = kNumCols * kNumRows - kNumCols
  BY <1>1, ProductTurned
<1>4. kNumCols * 0 + kNumCols <= kNumCols * kNumRows
  BY <1>1, ProductLess
<1>5. kNumCols * 0 = 0
  BY <1>1
<1> QED BY <1>1, <1>2, <1>3, <1>4, <1>5

LEMMA CellOf ==
  ASSUME NEW y \in 0 .. (kNumRows - 1), NEW x \in 0 .. (kNumCols - 1)
  PROVE  /\ y * kNumCols + x \in Cells
         /\ y * kNumCols + x = kNumCols * y + x
         /\ kNumCols * y \in Nat
<1>1. kNumCols * y + kNumCols <= kNumCols * kNumRows /\ kNumCols * y \in Int
      /\ kNumCols * kNumRows \in Int
  BY Sizes, ProductLess
<1>2. y * kNumCols = kNumCols * y
  BY Sizes, ProductTurned
<1>3. kNumCols * y >= 0
  BY Sizes, SMT
<1>4. Cells = 0 .. (kNumCols * kNumRows - 1)
  BY Sizes DEF Cells
<1>5. kNumCols * y + x \in 0 .. (kNumCols * kNumRows - 1)
  BY <1>1, <1>3, Sizes
<1> QED BY <1>1, <1>2, <1>3, <1>4, <1>5

LEMMA CellUnique ==
  ASSUME NEW y \in 0 .. (kNumRows - 1), NEW x \in 0 .. (kNumCols - 1),
         NEW v \in 0 .. (kNumRows - 1), NEW u \in 0 .. (kNumCols - 1),
         y * kNumCols + x = v * kNumCols + u
  PROVE  y = v /\ x = u
<1>1. kNumCols * y + x = kNumCols * v + u
  BY CellOf
<1> QED BY <1>1, Sizes, QuotientUnique

-----------------------------------------------------------------------------
(***************************************************************************)
(* Where the cursor goes.                                                  *)
(***************************************************************************)
OnScreen(pos) == pos \in [x : 0 .. (kNumCols - 1), y : 0 .. (kNumRows - 1)]

LEMMA TabStopRight ==
  ASSUME NEW x \in Nat
  PROVE  /\ TabStop(x) \in Nat /\ TabStop(x) = kNumTab * (x \div kNumTab + 1)
         /\ x < TabStop(x) /\ TabStop(x) <= x + kNumTab
<1> DEFINE q == x \div kNumTab
           r == x % kNumTab
           p == (x + kNumTab) \div kNumTab
           s == (x + kNumTab) % kNumTab
<1>0. x + kNumTab \in Nat /\ kNumTab \in Nat \ {0}
  BY Sizes
<1>a. q \in Nat /\ r \in 0 .. (kNumTab - 1) /\ x = kNumTab * q + r
  BY <1>0, Division
<1>b. p \in Nat /\ s \in 0 .. (kNumTab - 1) /\ x + kNumTab = kNumTab * p + s
  BY <1>0, Division
<1>1. /\ q \in Nat /\ r \in 0 .. (kNumTab - 1) /\ x = kNumTab * q + r
      /\ p \in Nat /\ s \in 0 .. (kNumTab - 1) /\ x + kNumTab = kNumTab * p + s
  BY <1>a, <1>b
<1>2. TabStop(x) = kNumTab * p
  BY DEF TabStop
<1> HIDE DEF q, r, p, s
<1>3. kNumTab * (q + 1) = kNumTab * q + kNumTab /\ kNumTab * q \in Int
      /\ kNumTab * p \in Int /\ kNumTab * (q + 1) \in Int
  BY <1>1, Sizes, ProductTurned
<1>4. kNumTab * (q + 1) + r = kNumTab * p + s
  BY <1>1, <1>3, Sizes
<1>5. q + 1 = p /\ r = s
  BY <1>1, <1>4, Sizes, QuotientUnique
<1>6. kNumTab * p = kNumTab * q + kNumTab
  BY <1>3, <1>5
<1>7. TabStop(x) = x + kNumTab - r
  BY <1>1, <1>2, <1>3, <1>6, Sizes
<1> QED BY <1>1, <1>2, <1>5, <1>7, Sizes DEF q

\* Where a character leads, from any position: at most a tab stop to the right and
\* a line down.
LEMMA StepOf ==
  ASSUME NEW pos \in [x : Nat, y : Nat], NEW c \in Glyphs \cup Controls
  PROVE  /\ Step(c, pos) \in [x : Nat, y : Nat]
         /\ Step(c, pos).x <= pos.x + kNumTab
         /\ Step(c, pos).y = IF c = "LF" THEN pos.y + 1 ELSE pos.y
         /\ Step(c, pos).x = CASE c = "BS" -> (IF pos.x # 0 THEN pos.x - 1 ELSE 0)
                               [] c = "TAB" -> TabStop(pos.x)
                               [] c = "CR" -> 0
                               [] c = "LF" -> 0
                               [] c = "none" -> pos.x
                               [] OTHER -> pos.x + 1
         /\ c = "LF" => Step(c, pos).x = 0
<1>1. pos.x \in Nat /\ pos.y \in Nat /\ kNumTab \in Nat \ {0}
  BY Sizes
<1>2. pos = [x |-> pos.x, y |-> pos.y]
  BY <1>1
<1>3. pos.y + 1 \in Nat /\ pos.x + 1 <= pos.x + kNumTab
  BY <1>1
<1>4. c \in Glyphs => c \notin {"BS", "TAB", "CR", "LF", "none"}
  BY GlyphsAssumption DEF Controls
<1>5. CASE c = "BS"
  <2>1. Step(c, pos) = IF pos.x # 0 THEN [pos EXCEPT !.x = pos.x - 1] ELSE pos
    BY <1>4, <1>5 DEF Step
  <2> QED BY <1>1, <1>3, <1>5, <2>1
<1>6. CASE c = "TAB"
  <2>1. Step(c, pos) = [pos EXCEPT !.x = TabStop(pos.x)]
    BY <1>4, <1>6 DEF Step
  <2>2. TabStop(pos.x) \in Nat /\ TabStop(pos.x) <= pos.x + kNumTab
    BY <1>1, TabStopRight
  <2> QED BY <1>1, <1>3, <1>6, <2>1, <2>2
<1>7. CASE c = "CR"
  <2>1. Step(c, pos) = [pos EXCEPT !.x = 0]
    BY <1>4, <1>7 DEF Step
  <2> QED BY <1>1, <1>3, <1>7, <2>1
<1>8. CASE c = "LF"
  <2>1. Step(c, pos) = [x |-> 0, y |-> pos.y + 1]
    BY <1>4, <1>8 DEF Step
  <2> QED BY <1>1, <1>3, <1>8, <2>1
<1>9. CASE c = "none"
  <2>1. Step(c, pos) = pos
    BY <1>4, <1>9 DEF Step
  <2> QED BY <1>1, <1>3, <1>9, <2>1
<1>10. CASE c \in Glyphs
  <2>1. Step(c, pos) = [pos EXCEPT !.x = pos.x + 1]
    BY <1>4, <1>10 DEF Step
  <2> QED BY <1>1, <1>3, <1>4, <1>10, <2>1
<1> QED BY <1>5, <1>6, <1>7, <1>8, <1>9, <1>10 DEF Controls

\* Video memory with the glyph of PrintChar, before the screen scrolls.
Put(c) ==
  IF c \in Glyphs
  THEN [video_mem EXCEPT ![cursor_pos.y * kNumCols + cursor_pos.x] =
          [char |-> c, attr |-> attr_byte]]
  ELSE video_mem

\* PrintChar goes on at the start of the next line.
LineEnds(c) == c = "LF" \/ Step(c, cursor_pos).x >= kNumCols

LEMMA PrintedOf ==
  ASSUME TypeOK, NEW c \in Glyphs \cup Controls
  PROVE  Printed(c) =
           IF ~LineEnds(c)
           THEN [mem |-> Put(c), pos |-> [x |-> Step(c, cursor_pos).x, y |-> cursor_pos.y]]
           ELSE IF cursor_pos.y + 1 < kNumRows
           THEN [mem |-> Put(c), pos |-> [x |-> 0, y |-> cursor_pos.y + 1]]
           ELSE [mem |-> Scrolled(Put(c)), pos |-> [x |-> 0, y |-> kNumRows - 1]]
<1> DEFINE st == Step(c, cursor_pos)
           y  == cursor_pos.y
<1>1. cursor_pos \in [x : Nat, y : Nat] /\ y \in 0 .. (kNumRows - 1)
  BY DEF TypeOK
<1>2. /\ st \in [x : Nat, y : Nat]
      /\ st.y = IF c = "LF" THEN y + 1 ELSE y
      /\ c = "LF" => st.x = 0
  BY <1>1, StepOf
<1>3. Printed(c) = ScrollScreen(Put(c), Wrap(st))
  BY DEF Printed, Put
<1>4. LineEnds(c) <=> c = "LF" \/ st.x >= kNumCols
  BY DEF LineEnds
<1> HIDE DEF st
<1>5. Wrap(st) = IF LineEnds(c) THEN [x |-> 0, y |-> y + 1] ELSE [x |-> st.x, y |-> y]
  <2>1. st = [x |-> st.x, y |-> st.y]
    BY <1>2
  <2>2. CASE c = "LF"
    <3>1. ~(st.x >= kNumCols) /\ st.y = y + 1 /\ st.x = 0
      BY <1>2, <2>2, Sizes
    <3> QED BY <1>4, <2>1, <2>2, <3>1 DEF Wrap
  <2>3. CASE c # "LF"
    <3>1. st.y = y
      BY <1>2, <2>3
    <3> QED BY <1>4, <2>1, <2>3, <3>1 DEF Wrap
  <2> QED BY <2>2, <2>3
<1>6. CASE ~LineEnds(c)
  <2>1. Wrap(st) = [x |-> st.x, y |-> y] /\ y < kNumRows
    BY <1>1, <1>5, <1>6, Sizes
  <2> QED BY <1>3, <1>6, <2>1 DEF ScrollScreen, st
<1>7. CASE LineEnds(c) /\ y + 1 < kNumRows
  <2>1. Wrap(st) = [x |-> 0, y |-> y + 1]
    BY <1>5, <1>7
  <2> QED BY <1>3, <1>7, <2>1 DEF ScrollScreen
<1>8. CASE LineEnds(c) /\ ~(y + 1 < kNumRows)
  <2>1. Wrap(st) = [x |-> 0, y |-> y + 1]
    BY <1>5, <1>8
  <2>2. [Wrap(st) EXCEPT !.y = kNumRows - 1] = [x |-> 0, y |-> kNumRows - 1]
    BY <2>1
  <2> QED BY <1>3, <1>8, <2>1, <2>2 DEF ScrollScreen
<1> QED BY <1>6, <1>7, <1>8

LEMMA AttrTypes ==
  /\ AttrByte(kWhite, kBlack) \in Attrs
  /\ \A fg \in FgColors, bg \in BgColors : AttrByte(fg, bg) \in Attrs
  BY ColorsAssumption DEF Attrs

\* What PrintChar needs to find; the cursor may be off the screen.
Printable ==
  /\ video_mem \in [Cells -> Cell]
  /\ attr_byte \in Attrs
  /\ cursor_pos \in [x : Nat, y : Nat]

LEMMA TypePrintable == TypeOK => Printable
  BY DEF TypeOK, Printable

LEMMA SpaceType == Printable => Space \in Cell
  BY GlyphsAssumption DEF Printable, Space, Cell

LEMMA ScrolledType ==
  ASSUME Printable, NEW mem \in [Cells -> Cell]
  PROVE  Scrolled(mem) \in [Cells -> Cell]
<1>1. ASSUME NEW i \in Cells, i < (kNumRows - 1) * kNumCols PROVE i + kNumCols \in Cells
  <2>1. i \in 0 .. (kNumCols * kNumRows - 1) /\ i < kNumCols * kNumRows - kNumCols
    BY <1>1, Sizes DEF Cells
  <2>2. i + kNumCols \in 0 .. (kNumCols * kNumRows - 1)
    BY <2>1, Sizes
  <2> QED BY <2>2, Sizes DEF Cells
<1> QED BY <1>1, SpaceType DEF Scrolled

LEMMA PutType ==
  ASSUME Printable, NEW c \in Glyphs \cup Controls
  PROVE  /\ Put(c) \in [Cells -> Cell]
         /\ Scrolled(Put(c)) \in [Cells -> Cell]
<1>1. Put(c) \in [Cells -> Cell]
  BY DEF Printable, Put, Cell
<1> QED BY <1>1, ScrolledType

\* The ends of line and screen bring any position back to the screen.
LEMMA ScrollScreenLands ==
  ASSUME Printable, NEW mem \in [Cells -> Cell], NEW pos \in [x : Nat, y : Nat]
  PROVE  /\ Wrap(pos) \in [x : 0 .. (kNumCols - 1), y : Nat]
         /\ ScrollScreen(mem, Wrap(pos)).mem \in [Cells -> Cell]
         /\ OnScreen(ScrollScreen(mem, Wrap(pos)).pos)
<1>1. Wrap(pos) \in [x : 0 .. (kNumCols - 1), y : Nat]
  BY Sizes DEF Wrap
<1> DEFINE at == Wrap(pos)
<1> HIDE DEF at
<1>2. at \in [x : 0 .. (kNumCols - 1), y : Nat]
  BY <1>1 DEF at
<1>3. CASE at.y < kNumRows
  <2>1. ScrollScreen(mem, at) = [mem |-> mem, pos |-> at]
    BY <1>3 DEF ScrollScreen
  <2>2. at.y \in 0 .. (kNumRows - 1)
    BY <1>2, <1>3, Sizes
  <2> QED BY <1>1, <1>2, <2>1, <2>2 DEF OnScreen, at
<1>4. CASE ~(at.y < kNumRows)
  <2>1. ScrollScreen(mem, at) = [mem |-> Scrolled(mem), pos |-> [at EXCEPT !.y = kNumRows - 1]]
    BY <1>4 DEF ScrollScreen
  <2>2. [at EXCEPT !.y = kNumRows - 1] \in [x : 0 .. (kNumCols - 1), y : 0 .. (kNumRows - 1)]
    BY <1>2, Sizes
  <2> QED BY <1>1, <2>1, <2>2, ScrolledType DEF OnScreen, at
<1> QED BY <1>3, <1>4

\* PrintChar comes to a position of the screen, from wherever the cursor is.
LEMMA PrintedType ==
  ASSUME Printable, NEW c \in Glyphs \cup Controls
  PROVE  /\ Printed(c).mem \in [Cells -> Cell]
         /\ OnScreen(Printed(c).pos)
<1>1. Printed(c) = ScrollScreen(Put(c), Wrap(Step(c, cursor_pos)))
  BY DEF Printed, Put
<1>2. Step(c, cursor_pos) \in [x : Nat, y : Nat]
  BY StepOf DEF Printable
<1> QED BY <1>1, <1>2, PutType, ScrollScreenLands

-----------------------------------------------------------------------------
(***************************************************************************)
(* The cursor of the display.                                              *)
(***************************************************************************)
LEMMA RegistersOf ==
  ASSUME NEW y \in 0 .. (kNumRows - 1), NEW x \in 0 .. (kNumCols - 1)
  PROVE  /\ Registers(y, x) \in [high : 0 .. (ByteMod - 1), low : 0 .. (ByteMod - 1)]
         /\ ByteMod * Registers(y, x).high + Registers(y, x).low = kNumCols * y + x
<1> DEFINE p == y * kNumCols + x
           q == p \div ByteMod
           r == p % ByteMod
<1>1. p \in Nat /\ p < ByteMod * ByteMod /\ p = kNumCols * y + x
  <2>1. p \in Cells /\ p = kNumCols * y + x
    BY CellOf
  <2>2. p \in 0 .. (kNumCols * kNumRows - 1)
    BY <2>1, Sizes DEF Cells
  <2>3. ByteMod * ByteMod \in Nat
    BY Sizes
  <2> HIDE DEF p
  <2> QED BY <2>1, <2>2, <2>3, Sizes
<1>2. q \in Nat /\ r \in 0 .. (ByteMod - 1) /\ p = ByteMod * q + r
  <2> HIDE DEF p
  <2> QED BY <1>1, Sizes, Division
<1>3. Registers(y, x) = [high |-> q % ByteMod, low |-> r]
  BY DEF Registers
<1> HIDE DEF p, q, r
<1>4. q < ByteMod
  <2>1. SUFFICES ASSUME ByteMod <= q PROVE FALSE
    BY <1>2, Sizes
  <2>2. ByteMod < q + 1
    BY <1>2, <2>1, Sizes
  <2>3. ByteMod * ByteMod + ByteMod <= ByteMod * (q + 1) /\ ByteMod * (q + 1) = ByteMod * q + ByteMod
        /\ ByteMod * ByteMod \in Int /\ ByteMod * q \in Int
    BY <1>2, <2>2, Sizes, ProductLess, ProductTurned
  <2> QED BY <1>1, <1>2, <2>3, Sizes
<1>5. q % ByteMod = q
  BY <1>2, <1>4, Sizes
<1>6. Registers(y, x).high = q /\ Registers(y, x).low = r
  BY <1>3, <1>5
<1>7. q \in 0 .. (ByteMod - 1)
  BY <1>2, <1>4, Sizes
<1> QED BY <1>1, <1>2, <1>3, <1>5, <1>6, <1>7

LEMMA Moved ==
  ASSUME NEW pos, NEW row \in Int, NEW col \in Int, MoveCursorFrom(pos, row, col)
  PROVE  \/ /\ Valid(row, col)
            /\ cursor_pos' = [x |-> col, y |-> row]
            /\ OnScreen(cursor_pos')
            /\ crtc' \in [high : 0 .. (ByteMod - 1), low : 0 .. (ByteMod - 1)]
            /\ CursorShown'
            /\ crtc' = Registers(row, col)
         \/ ~Valid(row, col) /\ cursor_pos' = pos /\ crtc' = crtc
<1>1. CASE Valid(row, col)
  <2>1. row \in 0 .. (kNumRows - 1) /\ col \in 0 .. (kNumCols - 1)
    BY <1>1, Sizes DEF Valid
  <2>2. cursor_pos' = [x |-> col, y |-> row] /\ crtc' = Registers(row, col)
    BY <1>1 DEF MoveCursorFrom
  <2>3. CursorShown'
    BY <2>1, <2>2, RegistersOf DEF CursorShown
  <2> QED BY <1>1, <2>1, <2>2, <2>3, RegistersOf DEF OnScreen
<1>2. CASE ~Valid(row, col)
  BY <1>2 DEF MoveCursorFrom
<1> QED BY <1>1, <1>2

\* PrintChar never has MoveCursor refuse its position.
LEMMA PrintCharMoves ==
  ASSUME Printable, NEW c \in Glyphs \cup Controls, PrintChar(c)
  PROVE  /\ video_mem' = Printed(c).mem /\ cursor_pos' = Printed(c).pos
         /\ attr_byte' = attr_byte
         /\ OnScreen(cursor_pos')
         /\ crtc' \in [high : 0 .. (ByteMod - 1), low : 0 .. (ByteMod - 1)]
         /\ crtc' = Registers(Printed(c).pos.y, Printed(c).pos.x)
         /\ CursorShown'
<1> DEFINE pos == Printed(c).pos
<1>1. /\ video_mem' = Printed(c).mem /\ attr_byte' = attr_byte
      /\ MoveCursorFrom(pos, pos.y, pos.x)
  BY DEF PrintChar
<1>2. OnScreen(pos)
  BY PrintedType
<1> HIDE DEF pos
<1>3. pos.x \in 0 .. (kNumCols - 1) /\ pos.y \in 0 .. (kNumRows - 1)
      /\ pos = [x |-> pos.x, y |-> pos.y]
  BY <1>2 DEF OnScreen
<1>4. Valid(pos.y, pos.x) /\ pos.y \in Int /\ pos.x \in Int
  BY <1>3, Sizes DEF Valid
<1>5. /\ cursor_pos' = [x |-> pos.x, y |-> pos.y] /\ OnScreen(cursor_pos')
      /\ crtc' \in [high : 0 .. (ByteMod - 1), low : 0 .. (ByteMod - 1)]
      /\ CursorShown' /\ crtc' = Registers(pos.y, pos.x)
  BY <1>1, <1>4, Moved
<1>6. cursor_pos' = pos
  BY <1>3, <1>5
<1> QED BY <1>1, <1>5, <1>6 DEF pos

LEMMA ClearScreenMoves ==
  ASSUME TypeOK, ClearScreen
  PROVE  /\ video_mem' = [i \in Cells |-> Space] /\ cursor_pos' = [x |-> 0, y |-> 0]
         /\ attr_byte' = attr_byte
         /\ OnScreen(cursor_pos')
         /\ crtc' \in [high : 0 .. (ByteMod - 1), low : 0 .. (ByteMod - 1)]
         /\ CursorShown'
<1>1. /\ video_mem' = [i \in Cells |-> Space] /\ attr_byte' = attr_byte
      /\ MoveCursorFrom(cursor_pos, 0, 0)
  BY DEF ClearScreen
<1>2. Valid(0, 0) /\ 0 \in Int
  BY Sizes DEF Valid
<1> QED BY <1>1, <1>2, Moved

-----------------------------------------------------------------------------
(***************************************************************************)
(* The cursor stays on the screen, and the display shows it.               *)
(***************************************************************************)
LEMMA TypeOK_Init == Init => TypeOK
<1> SUFFICES ASSUME Init PROVE TypeOK
  OBVIOUS
<1>1. cursor_pos \in [x : 0 .. (kNumCols - 1), y : 0 .. (kNumRows - 1)]
  BY Sizes DEF Init
<1> QED BY <1>1, AttrTypes DEF Init, TypeOK

\* One step, with the cursor of the display.
LEMMA StepShows ==
  ASSUME TypeOK, Next
  PROVE  /\ TypeOK'
         /\ video_mem' # video_mem \/ cursor_pos' # cursor_pos => CursorShown'
<1>1. CASE ClearScreen
  <2>1. [i \in Cells |-> Space] \in [Cells -> Cell]
    BY SpaceType, TypePrintable
  <2> QED BY <1>1, <2>1, ClearScreenMoves DEF TypeOK, OnScreen
<1>2. ASSUME NEW row \in -1 .. kNumRows, NEW col \in -1 .. kNumCols, MoveCursor(row, col)
      PROVE  /\ TypeOK'
             /\ video_mem' # video_mem \/ cursor_pos' # cursor_pos => CursorShown'
  <2>1. /\ MoveCursorFrom(cursor_pos, row, col) /\ row \in Int /\ col \in Int
        /\ UNCHANGED <<video_mem, attr_byte>>
    BY <1>2, Sizes DEF MoveCursor
  <2>2. \/ /\ OnScreen(cursor_pos')
           /\ crtc' \in [high : 0 .. (ByteMod - 1), low : 0 .. (ByteMod - 1)]
           /\ CursorShown'
        \/ cursor_pos' = cursor_pos /\ crtc' = crtc
    BY <2>1, Moved
  <2> QED BY <2>1, <2>2 DEF TypeOK, OnScreen
<1>3. ASSUME NEW c \in Glyphs \cup Controls, PrintChar(c)
      PROVE  TypeOK' /\ CursorShown'
  BY <1>3, PrintCharMoves, PrintedType, TypePrintable DEF TypeOK, OnScreen
<1>4. ASSUME NEW fg \in FgColors, NEW bg \in BgColors, SetColor(fg, bg)
      PROVE  TypeOK' /\ video_mem' = video_mem /\ cursor_pos' = cursor_pos
  BY <1>4, AttrTypes DEF SetColor, TypeOK
<1> QED BY <1>1, <1>2, <1>3, <1>4, ClearScreenMoves DEF Next

\* Between calls the cursor is on the screen and every cell holds a glyph, for a
\* screen of any size and whatever is printed.
THEOREM CursorStaysOnScreen == Spec => []TypeOK
<1>1. TypeOK /\ UNCHANGED vars => TypeOK'
  BY DEF TypeOK, vars
<1>2. TypeOK /\ [Next]_vars => TypeOK'
  BY <1>1, StepShows
<1> QED BY <1>2, TypeOK_Init, PTL DEF Spec

\* A call that changes the screen or the position leaves the cursor of the display
\* where the next character goes.
THEOREM DisplayShowsCursor == Spec => DisplayedCursor
<1>1. TypeOK /\ [Next]_vars =>
        [(video_mem' # video_mem \/ cursor_pos' # cursor_pos) => CursorShown']_vars
  BY StepShows
<1> QED BY <1>1, CursorStaysOnScreen, PTL DEF Spec, DisplayedCursor

-----------------------------------------------------------------------------
(***************************************************************************)
(* The console implements a page of lines.                                 *)
(***************************************************************************)
PageOf(mem) ==
  [r \in 1 .. kNumRows |-> [c \in 0 .. (kNumCols - 1) |-> mem[(r - 1) * kNumCols + c]]]

Columns == 0 .. (kNumCols - 1)

LEMMA PageType ==
  ASSUME NEW mem \in [Cells -> Cell]
  PROVE  /\ PageOf(mem) \in [1 .. kNumRows -> [Columns -> Cell]]
         /\ PageOf(mem) \in Seq([Columns -> Cell])
         /\ Len(PageOf(mem)) = kNumRows
         /\ \A r \in 1 .. kNumRows, c \in Columns :
              PageOf(mem)[r][c] = mem[(r - 1) * kNumCols + c]
<1>1. ASSUME NEW r \in 1 .. kNumRows, NEW c \in Columns
      PROVE  (r - 1) * kNumCols + c \in Cells
  <2>1. r - 1 \in 0 .. (kNumRows - 1)
    BY Sizes
  <2> QED BY <2>1, CellOf DEF Columns
<1>2. PageOf(mem) \in [1 .. kNumRows -> [Columns -> Cell]]
  BY <1>1 DEF PageOf, Columns
<1>3. PageOf(mem) \in Seq([Columns -> Cell]) /\ Len(PageOf(mem)) = kNumRows
  BY <1>2, Sizes
<1>4. \A r \in 1 .. kNumRows, c \in Columns :
        PageOf(mem)[r][c] = mem[(r - 1) * kNumCols + c]
  BY DEF PageOf, Columns
<1> QED BY <1>2, <1>3, <1>4

LEMMA FunctionsEqual ==
  ASSUME NEW S, NEW V, NEW f \in [S -> V], NEW g \in [S -> V], \A s \in S : f[s] = g[s]
  PROVE  f = g
  OBVIOUS

\* A page is determined by its cells.
LEMMA PagesEqual ==
  ASSUME NEW p \in [1 .. kNumRows -> [Columns -> Cell]],
         NEW q \in [1 .. kNumRows -> [Columns -> Cell]],
         \A r \in 1 .. kNumRows, c \in Columns : p[r][c] = q[r][c]
  PROVE  p = q
<1>1. ASSUME NEW r \in 1 .. kNumRows PROVE p[r] = q[r]
  <2>1. p[r] \in [Columns -> Cell] /\ q[r] \in [Columns -> Cell]
    OBVIOUS
  <2>2. \A c \in Columns : p[r][c] = q[r][c]
    OBVIOUS
  <2> QED BY <2>1, <2>2, FunctionsEqual
<1>2. \A r \in 1 .. kNumRows : p[r] = q[r]
  BY <1>1
<1>3. p = [r \in 1 .. kNumRows |-> p[r]]
  OBVIOUS
<1>4. q = [r \in 1 .. kNumRows |-> q[r]]
  OBVIOUS
<1>5. [r \in 1 .. kNumRows |-> p[r]] = [r \in 1 .. kNumRows |-> q[r]]
  BY <1>2, Zenon
<1> QED BY <1>3, <1>4, <1>5, Zenon

LEMMA PutOnPage ==
  ASSUME TypeOK, NEW glyph \in Glyphs
  PROVE  PageOf(Put(glyph)) =
           [PageOf(video_mem) EXCEPT ![cursor_pos.y + 1][cursor_pos.x] =
              [char |-> glyph, attr |-> attr_byte]]
<1> DEFINE y    == cursor_pos.y
           x    == cursor_pos.x
           cell == [char |-> glyph, attr |-> attr_byte]
           old  == PageOf(video_mem)
           new  == PageOf(Put(glyph))
           page == [old EXCEPT ![y + 1][x] = cell]
<1>1. y \in 0 .. (kNumRows - 1) /\ x \in Columns /\ cell \in Cell
      /\ video_mem \in [Cells -> Cell]
  BY DEF TypeOK, Columns, Cell
<1>2. y * kNumCols + x \in Cells
  BY <1>1, CellOf DEF Columns
<1>3. Put(glyph) = [video_mem EXCEPT ![y * kNumCols + x] = cell]
      /\ Put(glyph) \in [Cells -> Cell]
  BY PutType, TypePrintable DEF Put
<1>4. /\ old \in [1 .. kNumRows -> [Columns -> Cell]]
      /\ \A r \in 1 .. kNumRows, c \in Columns : old[r][c] = video_mem[(r - 1) * kNumCols + c]
  BY <1>1, PageType
<1>5. /\ new \in [1 .. kNumRows -> [Columns -> Cell]]
      /\ \A r \in 1 .. kNumRows, c \in Columns : new[r][c] = Put(glyph)[(r - 1) * kNumCols + c]
  BY <1>3, PageType
<1> HIDE DEF cell, old, new, y, x
<1>6. y + 1 \in 1 .. kNumRows
  BY <1>1, Sizes
<1>7. /\ page \in [1 .. kNumRows -> [Columns -> Cell]]
      /\ \A r \in 1 .. kNumRows, c \in Columns :
           page[r][c] = IF r = y + 1 /\ c = x THEN cell ELSE old[r][c]
  BY <1>1, <1>4, <1>6
<1> HIDE DEF page
<1>8. ASSUME NEW r \in 1 .. kNumRows, NEW c \in Columns PROVE new[r][c] = page[r][c]
  <2>1. r - 1 \in 0 .. (kNumRows - 1)
    BY Sizes
  <2>2. (r - 1) * kNumCols + c \in Cells
    BY <2>1, CellOf DEF Columns
  <2>3. CASE r = y + 1 /\ c = x
    <3>1. r - 1 = y
      BY <1>1, <2>3, Sizes
    <3> QED BY <1>1, <1>2, <1>3, <1>5, <1>7, <2>3, <3>1
  <2>4. CASE ~(r = y + 1 /\ c = x)
    <3>1. ~(r - 1 = y /\ c = x)
      BY <1>1, <2>4, Sizes
    <3>2. (r - 1) * kNumCols + c # y * kNumCols + x
      BY <1>1, <2>1, <3>1, CellUnique DEF Columns
    <3>3. Put(glyph)[(r - 1) * kNumCols + c] = video_mem[(r - 1) * kNumCols + c]
      BY <1>1, <1>3, <2>2, <3>2
    <3> QED BY <1>4, <1>5, <1>7, <2>4, <3>3
  <2> QED BY <2>3, <2>4
<1>9. new = page
  BY <1>5, <1>7, <1>8, PagesEqual
<1> QED BY <1>9 DEF new, page, old, cell, y, x

BlankRow == [c \in Columns |-> Space]

LEMMA ScrolledPage ==
  ASSUME TypeOK, NEW mem \in [Cells -> Cell], Scrolled(mem) \in [Cells -> Cell]
  PROVE  PageOf(Scrolled(mem)) = Append(Tail(PageOf(mem)), BlankRow)
<1> DEFINE old  == PageOf(mem)
           new  == PageOf(Scrolled(mem))
           page == Append(Tail(old), BlankRow)
<1>1. /\ old \in Seq([Columns -> Cell]) /\ Len(old) = kNumRows
      /\ \A r \in 1 .. kNumRows, c \in Columns : old[r][c] = mem[(r - 1) * kNumCols + c]
  BY PageType
<1>2. /\ new \in [1 .. kNumRows -> [Columns -> Cell]]
      /\ \A r \in 1 .. kNumRows, c \in Columns :
           new[r][c] = Scrolled(mem)[(r - 1) * kNumCols + c]
  BY PageType
<1>3. BlankRow \in [Columns -> Cell] /\ \A c \in Columns : BlankRow[c] = Space
  BY SpaceType, TypePrintable DEF BlankRow
<1> HIDE DEF old, new
<1>4. old # <<>>
  BY <1>1, Sizes
<1>5. /\ Tail(old) \in Seq([Columns -> Cell]) /\ Len(Tail(old)) = kNumRows - 1
      /\ \A r \in 1 .. (kNumRows - 1) : Tail(old)[r] = old[r + 1]
  BY <1>1, <1>4, Sizes
<1>6. /\ page \in Seq([Columns -> Cell]) /\ Len(page) = kNumRows
      /\ \A r \in 1 .. (kNumRows - 1) : page[r] = old[r + 1]
      /\ page[kNumRows] = BlankRow
  <2> DEFINE tail == Tail(old)
  <2> HIDE DEF tail
  <2>1. /\ tail \in Seq([Columns -> Cell]) /\ Len(tail) = kNumRows - 1
        /\ \A r \in 1 .. (kNumRows - 1) : tail[r] = old[r + 1]
    BY <1>5 DEF tail
  <2>2. /\ Append(tail, BlankRow) \in Seq([Columns -> Cell])
        /\ Len(Append(tail, BlankRow)) = Len(tail) + 1
        /\ \A r \in 1 .. Len(tail) : Append(tail, BlankRow)[r] = tail[r]
        /\ Append(tail, BlankRow)[Len(tail) + 1] = BlankRow
    BY <1>3, <2>1
  <2>3. Len(tail) + 1 = kNumRows
    BY <2>1, Sizes
  <2>4. page = Append(tail, BlankRow)
    BY DEF tail
  <2> QED BY <2>1, <2>2, <2>3, <2>4
<1> HIDE DEF page
<1>7. page \in [1 .. kNumRows -> [Columns -> Cell]]
  BY <1>6
<1>8. ASSUME NEW r \in 1 .. kNumRows, NEW c \in Columns PROVE new[r][c] = page[r][c]
  <2> DEFINE i == (r - 1) * kNumCols + c
  <2>1. r - 1 \in 0 .. (kNumRows - 1) /\ c \in 0 .. (kNumCols - 1)
    BY Sizes DEF Columns
  <2>2. i \in Cells /\ i = kNumCols * (r - 1) + c /\ kNumCols * (r - 1) \in Nat
    BY <2>1, CellOf
  <2>3. Scrolled(mem)[i] = IF i < (kNumRows - 1) * kNumCols THEN mem[i + kNumCols] ELSE Space
    BY <2>2 DEF Scrolled
  <2>4. new[r][c] = Scrolled(mem)[i]
    BY <1>2
  <2>5. CASE r < kNumRows
    <3>1. r \in 1 .. (kNumRows - 1) /\ r + 1 \in 1 .. kNumRows /\ r - 1 < kNumRows - 1
          /\ (r + 1) - 1 = r /\ r \in Int /\ kNumRows - 1 \in Int /\ r - 1 \in Int
      BY <2>5, Sizes
    <3>2. kNumCols * (r - 1) + kNumCols <= kNumCols * (kNumRows - 1)
          /\ kNumCols * (kNumRows - 1) \in Int
      BY <3>1, Sizes, ProductLess
    <3>3. (kNumRows - 1) * kNumCols = kNumCols * (kNumRows - 1)
      BY <3>1, Sizes, ProductTurned
    <3>4. r * kNumCols = kNumCols * r /\ kNumCols * (r - 1) = kNumCols * r - kNumCols
          /\ kNumCols * r \in Int
      BY <3>1, Sizes, ProductTurned
    <3>5. page[r][c] = mem[((r + 1) - 1) * kNumCols + c]
      BY <1>1, <1>6, <3>1
    <3>6. page[r][c] = mem[r * kNumCols + c]
      BY <3>1, <3>5
    <3> HIDE DEF i
    <3>7. i < (kNumRows - 1) * kNumCols
      BY <2>1, <2>2, <3>2, <3>3, Sizes
    <3>8. i + kNumCols = r * kNumCols + c
      BY <2>1, <2>2, <3>4, Sizes
    <3> QED BY <2>3, <2>4, <3>6, <3>7, <3>8
  <2>6. CASE r = kNumRows
    <3>1. (kNumRows - 1) * kNumCols \in Int
      BY Sizes
    <3>2. ~(i < (kNumRows - 1) * kNumCols)
      BY <2>1, <2>6, <3>1, Sizes
    <3>3. page[r][c] = Space
      BY <1>3, <1>6, <2>6
    <3> QED BY <2>3, <2>4, <3>2, <3>3
  <2> QED BY <2>5, <2>6, Sizes
<1>9. new = page
  BY <1>2, <1>7, <1>8, PagesEqual
<1> QED BY <1>9 DEF new, page, old

LEMMA ClearedPage ==
  ASSUME TypeOK
  PROVE  PageOf([i \in Cells |-> Space]) = [r \in 1 .. kNumRows |-> BlankRow]
<1> DEFINE mem  == [i \in Cells |-> Space]
           page == [r \in 1 .. kNumRows |-> BlankRow]
<1>1. mem \in [Cells -> Cell] /\ BlankRow \in [Columns -> Cell]
  BY SpaceType, TypePrintable DEF BlankRow
<1>2. page \in [1 .. kNumRows -> [Columns -> Cell]]
  BY <1>1
<1>3. /\ PageOf(mem) \in [1 .. kNumRows -> [Columns -> Cell]]
      /\ \A r \in 1 .. kNumRows, c \in Columns : PageOf(mem)[r][c] = mem[(r - 1) * kNumCols + c]
  <2> HIDE DEF mem
  <2> QED BY <1>1, PageType
<1>4. ASSUME NEW r \in 1 .. kNumRows, NEW c \in Columns PROVE PageOf(mem)[r][c] = page[r][c]
  <2>1. r - 1 \in 0 .. (kNumRows - 1)
    BY Sizes
  <2>2. (r - 1) * kNumCols + c \in Cells
    BY <2>1, CellOf DEF Columns
  <2>3. mem[(r - 1) * kNumCols + c] = Space
    BY <2>2
  <2>4. page[r][c] = Space
    BY DEF BlankRow
  <2> QED BY <1>3, <2>3, <2>4
<1> HIDE DEF mem, page
<1>5. PageOf(mem) = page
  BY <1>2, <1>3, <1>4, PagesEqual
<1> QED BY <1>5 DEF mem, page

LEMMA PageIs == Page = PageOf(video_mem) /\ Page' = PageOf(video_mem')
  BY DEF Page, PageOf

LEMMA BlankRowIs == T!BlankLine(attr_byte) = BlankRow
  BY DEF T!BlankLine, T!Blank, BlankRow, Columns, Space

\* At the end of a line the position goes to the next one; past the last line the
\* page loses its first.
LEMMA LineEndsNextLine ==
  ASSUME TypeOK, NEW c \in Glyphs \cup Controls, PrintChar(c), LineEnds(c)
  PROVE  T!NextLineOf(PageOf(Put(c)))
<1>1. video_mem' = Printed(c).mem /\ cursor_pos' = Printed(c).pos
  BY PrintCharMoves, TypePrintable
<1>2. cursor_pos.y \in 0 .. (kNumRows - 1)
  BY DEF TypeOK
<1>3. CASE cursor_pos.y + 1 < kNumRows
  <2>1. Printed(c) = [mem |-> Put(c), pos |-> [x |-> 0, y |-> cursor_pos.y + 1]]
    BY <1>3, PrintedOf
  <2>2. Page' = PageOf(Put(c)) /\ cursor_pos'.x = 0 /\ cursor_pos'.y = cursor_pos.y + 1
    BY <1>1, <2>1, PageIs
  <2> QED BY <1>3, <2>2 DEF T!NextLineOf
<1>4. CASE ~(cursor_pos.y + 1 < kNumRows)
  <2>1. Printed(c) = [mem |-> Scrolled(Put(c)), pos |-> [x |-> 0, y |-> kNumRows - 1]]
    BY <1>4, PrintedOf
  <2>2. /\ Page' = PageOf(Scrolled(Put(c)))
        /\ cursor_pos'.x = 0 /\ cursor_pos'.y = kNumRows - 1
    BY <1>1, <2>1, PageIs
  <2>3. Page' = Append(Tail(PageOf(Put(c))), BlankRow)
    BY <2>2, PutType, TypePrintable, ScrolledPage
  <2>4. cursor_pos.y = kNumRows - 1
    BY <1>2, <1>4, Sizes
  <2> QED BY <1>4, <2>2, <2>3, <2>4, BlankRowIs DEF T!NextLineOf
<1> QED BY <1>3, <1>4

LEMMA LineGoesOn ==
  ASSUME TypeOK, NEW c \in Glyphs \cup Controls, PrintChar(c), ~LineEnds(c)
  PROVE  /\ Page' = PageOf(Put(c)) /\ cursor_pos'.x = Step(c, cursor_pos).x
         /\ cursor_pos'.y = cursor_pos.y
         /\ Step(c, cursor_pos).x \in 0 .. (kNumCols - 1)
<1>1. video_mem' = Printed(c).mem /\ cursor_pos' = Printed(c).pos
  BY PrintCharMoves, TypePrintable
<1>2. Printed(c) = [mem |-> Put(c),
                    pos |-> [x |-> Step(c, cursor_pos).x, y |-> cursor_pos.y]]
  BY PrintedOf
<1>3. Step(c, cursor_pos).x \in Nat
  BY StepOf, TypePrintable DEF Printable
<1>4. Step(c, cursor_pos).x \in 0 .. (kNumCols - 1)
  BY <1>3, Sizes DEF LineEnds
<1> QED BY <1>1, <1>2, <1>4, PageIs

\* A character of PrintChar is a step of the terminal.
LEMMA PrintChar_Terminal ==
  ASSUME TypeOK, NEW c \in Glyphs \cup Controls, PrintChar(c)
  PROVE  T!TerminalNext
<1> DEFINE x == cursor_pos.x
           y == cursor_pos.y
           to == Step(c, cursor_pos).x
<1>1. /\ x \in 0 .. (kNumCols - 1) /\ y \in 0 .. (kNumRows - 1) /\ OnScreen(cursor_pos)
      /\ attr_byte' = attr_byte
  BY PrintCharMoves, TypePrintable DEF TypeOK, OnScreen
<1>2. to = CASE c = "BS" -> (IF x # 0 THEN x - 1 ELSE 0)
             [] c = "TAB" -> TabStop(x)
             [] c = "CR" -> 0
             [] c = "LF" -> 0
             [] c = "none" -> x
             [] OTHER -> x + 1
  BY StepOf, TypePrintable DEF Printable
<1>3. c \notin Glyphs => Put(c) = video_mem
  BY DEF Put
<1>4. LineEnds(c) <=> c = "LF" \/ to >= kNumCols
  BY DEF LineEnds
<1>5. c \in Glyphs => c \notin {"BS", "TAB", "CR", "LF", "none"}
  BY GlyphsAssumption DEF Controls
<1>6. ASSUME NEW page, page = PageOf(Put(c)), c # "LF"
      PROVE  T!AdvanceTo(page, to)
  <2>1. CASE LineEnds(c)
    <3>1. to >= kNumCols /\ T!NextLineOf(PageOf(Put(c)))
      BY <1>4, <1>6, <2>1, LineEndsNextLine
    <3> QED BY <1>6, <3>1 DEF T!AdvanceTo
  <2>2. CASE ~LineEnds(c)
    <3>1. Page' = page /\ cursor_pos'.x = to /\ cursor_pos'.y = cursor_pos.y
          /\ to \in 0 .. (kNumCols - 1)
      BY <1>6, <2>2, LineGoesOn
    <3>2. to < kNumCols
      BY <3>1, Sizes
    <3> QED BY <3>1, <3>2 DEF T!AdvanceTo
  <2> QED BY <2>1, <2>2
<1>7. CASE c \in Glyphs
  <2>1. to = x + 1 /\ c # "LF"
    BY <1>2, <1>5, <1>7
  <2>2. T!AdvanceTo([Page EXCEPT ![y + 1][x] = [char |-> c, attr |-> attr_byte]], to)
    BY <1>6, <1>7, <2>1, PutOnPage, PageIs
  <2>3. T!Write(c)
    BY <1>1, <2>1, <2>2 DEF T!Write
  <2> QED BY <1>7, <2>3 DEF T!TerminalNext
<1>8. CASE c = "TAB"
  <2>1. to = kNumTab * (x \div kNumTab + 1) /\ Put(c) = video_mem
    BY <1>1, <1>2, <1>3, <1>5, <1>8, TabStopRight
  <2>2. T!AdvanceTo(Page, to)
    BY <1>6, <1>8, <2>1, PageIs
  <2>3. T!Tabulate
    BY <1>1, <2>1, <2>2 DEF T!Tabulate
  <2> QED BY <2>3 DEF T!TerminalNext
<1>9. CASE c = "LF"
  <2>1. T!NextLineOf(Page)
    BY <1>3, <1>4, <1>5, <1>9, LineEndsNextLine, PageIs
  <2>2. T!NewLine
    BY <1>1, <2>1 DEF T!NewLine
  <2> QED BY <2>2 DEF T!TerminalNext
<1>10. CASE c \in {"BS", "CR", "none"}
  <2>1. to \in 0 .. (kNumCols - 1)
    BY <1>1, <1>2, <1>10, Sizes
  <2>2. ~LineEnds(c) /\ Put(c) = video_mem
    BY <1>3, <1>4, <1>5, <1>10, <2>1, Sizes
  <2>3. Page' = Page /\ cursor_pos'.x = to /\ cursor_pos'.y = y
    BY <2>2, LineGoesOn, PageIs
  <2>4. T!MoveTo(y, to)
    BY <1>1, <2>3 DEF T!MoveTo
  <2> QED BY <1>1, <2>1, <2>4 DEF T!TerminalNext
<1> QED BY <1>7, <1>8, <1>9, <1>10 DEF Controls

\* The calls on flat video memory implement the page of lines of Terminal.
THEOREM ConsoleImplementsTerminal == Spec => ImplementsTerminal
<1>1. Init => T!TerminalInit
  <2> SUFFICES ASSUME Init PROVE T!TerminalInit
    OBVIOUS
  <2>1. video_mem \in [Cells -> Cell] /\ attr_byte \in Attrs
        /\ cursor_pos.x = 0 /\ cursor_pos.y = 0
    BY AttrTypes DEF Init
  <2>2. Page \in [1 .. kNumRows -> [Columns -> Cell]]
    BY <2>1, PageType, PageIs
  <2>3. T!Line = [Columns -> Cell]
    BY DEF T!Line, T!Cell, Columns, Cell
  <2> QED BY <2>1, <2>2, <2>3 DEF T!TerminalInit
<1>2. TypeOK /\ [Next]_vars => [T!TerminalNext]_(T!terminalVars)
  <2> SUFFICES ASSUME TypeOK, [Next]_vars
               PROVE  T!TerminalNext \/ UNCHANGED T!terminalVars
    OBVIOUS
  <2>1. CASE ClearScreen
    <3>1. /\ Page' = [r \in 1 .. kNumRows |-> BlankRow] /\ attr_byte' = attr_byte
          /\ cursor_pos'.x = 0 /\ cursor_pos'.y = 0
      BY <2>1, ClearScreenMoves, ClearedPage, PageIs
    <3>2. T!Erase
      BY <3>1, BlankRowIs DEF T!Erase
    <3> QED BY <3>2 DEF T!TerminalNext
  <2>2. ASSUME NEW row \in -1 .. kNumRows, NEW col \in -1 .. kNumCols, MoveCursor(row, col)
        PROVE  T!TerminalNext \/ UNCHANGED T!terminalVars
    <3>1. /\ MoveCursorFrom(cursor_pos, row, col) /\ row \in Int /\ col \in Int
          /\ UNCHANGED <<video_mem, attr_byte>>
      BY <2>2, Sizes DEF MoveCursor
    <3>2. Page' = Page
      BY <3>1, PageIs
    <3>3. CASE Valid(row, col)
      <4>1. cursor_pos' = [x |-> col, y |-> row]
        BY <3>1, <3>3, Moved
      <4>2. row \in 0 .. (kNumRows - 1) /\ col \in 0 .. (kNumCols - 1)
        BY <3>1, <3>3, Sizes DEF Valid
      <4>3. T!MoveTo(row, col)
        BY <3>1, <3>2, <4>1 DEF T!MoveTo
      <4> QED BY <4>2, <4>3 DEF T!TerminalNext
    <3>4. CASE ~Valid(row, col)
      BY <3>1, <3>2, <3>4, Moved DEF T!terminalVars
    <3> QED BY <3>3, <3>4
  <2>3. ASSUME NEW c \in Glyphs \cup Controls, PrintChar(c)
        PROVE  T!TerminalNext
    BY <2>3, PrintChar_Terminal
  <2>4. ASSUME NEW fg \in FgColors, NEW bg \in BgColors, SetColor(fg, bg)
        PROVE  T!TerminalNext
    <3>1. /\ attr_byte' = AttrByte(fg, bg) /\ AttrByte(fg, bg) \in Attrs
          /\ Page' = Page /\ cursor_pos' = cursor_pos
      BY <2>4, AttrTypes, PageIs DEF SetColor
    <3> QED BY <3>1 DEF T!TerminalNext, T!Recolor
  <2>5. CASE UNCHANGED vars
    BY <2>5, PageIs DEF vars, T!terminalVars
  <2> QED BY <2>1, <2>2, <2>3, <2>4, <2>5 DEF Next
<1> QED
  BY <1>1, <1>2, CursorStaysOnScreen, PTL DEF Spec, ImplementsTerminal, T!TerminalSpec

-----------------------------------------------------------------------------
(***************************************************************************)
(* Keys in between: the inductive invariant.                               *)
(***************************************************************************)
PortPoints == {"command high", "data high", "command low", "data low"}

\* The points of PrintChar, by what it has come to.
QuietPoints    == {"idle", "column", "cell", "step", "advance"} \cup PortPoints
RowPoints      == {"newline", "newline row"}
EdgePoints     == {"wrap", "edge"}
DownPoints     == {"down", "down row"}
ScrollPoints   == {"scroll", "last line"}
CopyPoints     == {"copy", "paste"}
ArgumentPoints == {"column argument", "row argument", "store row", "store column"}

EarlyPoints ==
  {"column", "cell", "step", "advance"} \cup RowPoints \cup EdgePoints \cup DownPoints
    \cup ScrollPoints

Points == QuietPoints \cup EarlyPoints \cup CopyPoints \cup ArgumentPoints

MoreTypes ==
  /\ attr_byte \in Attrs
  /\ text \in Seq(Glyphs \cup (Controls \ {"BS"}))
  /\ pc \in Points
  /\ pc # "idle" => text # <<>>
  /\ pc \in EarlyPoints => index = 0
  /\ pc = "paste" => index \in Cells

\* How far past an edge the cursor may be, in registers and in memory, depends on
\* where PrintChar is.  A key leaves the copy in memory on the screen, a later read
\* may bring it into a register, and a later store may bring the register's copy to
\* memory: at no point may the one be where the other must not be.
Copies ==
  /\ pc \in QuietPoints => dirty = {}
  /\ pc \in RowPoints \cup {"store column"} => dirty \subseteq {"x"}
  /\ pc \in QuietPoints \cup RowPoints => OnScreen(reg) /\ OnScreen(cursor_pos)
  /\ pc \in EdgePoints =>
       /\ cursor_pos.x >= kNumCols => reg.x >= kNumCols
       /\ reg.x >= kNumCols => reg.y < kNumRows /\ cursor_pos.y < kNumRows
  /\ pc \in DownPoints => reg.y < kNumRows /\ cursor_pos.y < kNumRows
  /\ pc \in EdgePoints \cup ScrollPoints =>
       (cursor_pos.y >= kNumRows => reg.y >= kNumRows)
  /\ pc \in DownPoints \cup ScrollPoints \cup CopyPoints \cup {"column argument"} =>
       /\ reg.x < kNumCols
       /\ cursor_pos.x >= kNumCols => "x" \in dirty
  /\ pc \in {"column argument", "row argument"} =>
       /\ reg.y < kNumRows
       /\ cursor_pos.y >= kNumRows => "y" \in dirty
  /\ pc \in {"row argument", "store row", "store column"} => reg.x < kNumCols
  /\ pc \in {"store row", "store column"} => reg.y < kNumRows
  /\ pc = "store column" => cursor_pos.y < kNumRows

\* What ScrollScreen leaves of memory when it has come to cell n.
ScrolledFrom(n, mem) ==
  [i \in Cells |-> IF i < n THEN mem[i]
                   ELSE IF i < LastMoved THEN mem[i + kNumCols] ELSE Space]

\* Unless a write waits in a register, register and memory have the same value.
Agree ==
  /\ "x" \in dirty \/ reg.x = cursor_pos.x
  /\ "y" \in dirty \/ reg.y = cursor_pos.y

\* While no key comes, the rest of PrintChar leads to the expected screen.
Progress ==
  expected # Interrupted =>
    /\ pc \notin {"idle", "column"} => Agree
    /\ pc \in {"column", "cell"} => expected = Printed(Char)
    /\ pc = "column" => reg.y = cursor_pos.y
    /\ pc \in {"step", "advance"} =>
         expected = ScrollScreen(video_mem, Wrap(Step(Char, reg)))
    /\ pc \in RowPoints \cup DownPoints =>
         /\ expected = ScrollScreen(video_mem, [x |-> 0, y |-> reg.y + 1])
         /\ reg.x = 0
    /\ pc \in EdgePoints => expected = ScrollScreen(video_mem, Wrap(reg))
    /\ pc \in ScrollPoints => expected = ScrollScreen(video_mem, reg)
    /\ pc \in CopyPoints =>
         expected = [mem |-> ScrolledFrom(index, video_mem),
                     pos |-> [x |-> reg.x, y |-> kNumRows - 1]]
    /\ pc = "paste" =>
         word = IF index < LastMoved THEN video_mem[index + kNumCols] ELSE Space
    /\ pc \in ArgumentPoints \cup PortPoints => expected = [mem |-> video_mem, pos |-> reg]
    /\ pc = "data high" => port = "high"
    /\ pc = "data low" => port = "low"
    /\ pc \in {"command low", "data low"} => crtc.high = Registers(reg.y, reg.x).high
    /\ pc = "idle" => /\ expected = [mem |-> video_mem, pos |-> cursor_pos]
                      /\ crtc = Registers(cursor_pos.y, cursor_pos.x)

ConsoleInv ==
  /\ ConsoleTypeOK
  /\ MoreTypes
  /\ Copies
  /\ Progress

-----------------------------------------------------------------------------
(***************************************************************************)
(* The two copies of the cursor.                                           *)
(***************************************************************************)
Near(pos) == pos \in Position(kNumCols + kNumTab - 1, kNumRows)

LEMMA NearScreen ==
  ASSUME NEW pos
  PROVE  /\ OnScreen(pos) => Near(pos)
         /\ Near(pos) => pos \in [x : Nat, y : Nat]
         /\ OnScreen(pos) => Valid(pos.y, pos.x)
         /\ OnScreen(pos) => pos.x < kNumCols /\ pos.y < kNumRows
         /\ Near(pos) /\ pos.x < kNumCols /\ pos.y < kNumRows => OnScreen(pos)
<1>1. OnScreen(pos) => Near(pos)
  BY Sizes DEF OnScreen, Near, Position
<1>2. Near(pos) => pos \in [x : Nat, y : Nat]
  BY Sizes DEF Near, Position
<1>3. OnScreen(pos) => Valid(pos.y, pos.x) /\ pos.x < kNumCols /\ pos.y < kNumRows
  BY Sizes DEF OnScreen, Valid
<1>4. Near(pos) /\ pos.x < kNumCols /\ pos.y < kNumRows => OnScreen(pos)
  <2> SUFFICES ASSUME Near(pos), pos.x < kNumCols, pos.y < kNumRows PROVE OnScreen(pos)
    OBVIOUS
  <2>1. /\ pos = [x |-> pos.x, y |-> pos.y]
        /\ pos.x \in 0 .. (kNumCols - 1) /\ pos.y \in 0 .. (kNumRows - 1)
    BY Sizes DEF Near, Position
  <2> QED BY <2>1 DEF OnScreen
<1> QED BY <1>1, <1>2, <1>3, <1>4

\* The types of the copies, as one fact.
LEMMA CopyTypes ==
  ASSUME ConsoleInv
  PROVE  /\ Near(cursor_pos) /\ Near(reg) /\ dirty \subseteq {"x", "y"}
         /\ cursor_pos.x \in Nat /\ cursor_pos.y \in Nat
         /\ reg.x \in Nat /\ reg.y \in Nat /\ reg = [x |-> reg.x, y |-> reg.y]
         /\ cursor_pos = [x |-> cursor_pos.x, y |-> cursor_pos.y]
<1>1. Near(cursor_pos) /\ Near(reg) /\ dirty \subseteq {"x", "y"}
  BY DEF ConsoleInv, ConsoleTypeOK, Near
<1>2. cursor_pos \in [x : Nat, y : Nat] /\ reg \in [x : Nat, y : Nat]
  BY <1>1, NearScreen
<1> QED BY <1>1, <1>2

LEMMA QuietCopies ==
  ASSUME ConsoleInv, pc \in QuietPoints
  PROVE  /\ dirty = {} /\ OnScreen(reg) /\ OnScreen(cursor_pos)
         /\ reg.x < kNumCols /\ reg.y < kNumRows
         /\ cursor_pos.x < kNumCols /\ cursor_pos.y < kNumRows
<1>1. dirty = {} /\ OnScreen(reg) /\ OnScreen(cursor_pos)
  BY DEF ConsoleInv, Copies
<1> QED BY <1>1, NearScreen

\* A position made of members in range is near the screen.
LEMMA NearMembers ==
  ASSUME NEW a \in 0 .. (kNumCols + kNumTab - 1), NEW b \in 0 .. kNumRows
  PROVE  Near([x |-> a, y |-> b])
  BY DEF Near, Position

LEMMA ReadX ==
  ASSUME ConsoleInv, Read("x")
  PROVE  /\ reg' = [x |-> reg'.x, y |-> reg'.y] /\ reg'.y = reg.y
         /\ reg'.x = reg.x \/ ("x" \notin dirty /\ reg'.x = cursor_pos.x)
         /\ Near(reg') /\ reg'.x \in Nat /\ reg'.y \in Nat
         /\ Agree => reg' = reg
<1>1. /\ Near(cursor_pos) /\ Near(reg) /\ reg = [x |-> reg.x, y |-> reg.y]
      /\ \/ reg' = reg
         \/ "x" \notin dirty /\ reg' = [reg EXCEPT !.x = cursor_pos.x]
  BY CopyTypes DEF Read
<1>2. CASE reg' = reg
  BY <1>1, <1>2, CopyTypes
<1>3. CASE "x" \notin dirty /\ reg' = [reg EXCEPT !.x = cursor_pos.x]
  <2>1. reg' = [x |-> cursor_pos.x, y |-> reg.y]
    BY <1>1, <1>3
  <2>2. Near(reg')
    BY <1>1, <2>1 DEF Near, Position
  <2>3. Agree => cursor_pos.x = reg.x
    BY <1>3 DEF Agree
  <2> QED BY <1>1, <1>3, <2>1, <2>2, <2>3, CopyTypes
<1> QED BY <1>1, <1>2, <1>3

LEMMA ReadY ==
  ASSUME ConsoleInv, Read("y")
  PROVE  /\ reg' = [x |-> reg'.x, y |-> reg'.y] /\ reg'.x = reg.x
         /\ reg'.y = reg.y \/ ("y" \notin dirty /\ reg'.y = cursor_pos.y)
         /\ Near(reg') /\ reg'.x \in Nat /\ reg'.y \in Nat
         /\ Agree => reg' = reg
<1>1. /\ Near(cursor_pos) /\ Near(reg) /\ reg = [x |-> reg.x, y |-> reg.y]
      /\ \/ reg' = reg
         \/ "y" \notin dirty /\ reg' = [reg EXCEPT !.y = cursor_pos.y]
  BY CopyTypes DEF Read
<1>2. CASE reg' = reg
  BY <1>1, <1>2, CopyTypes
<1>3. CASE "y" \notin dirty /\ reg' = [reg EXCEPT !.y = cursor_pos.y]
  <2>1. reg' = [x |-> reg.x, y |-> cursor_pos.y]
    BY <1>1, <1>3
  <2>2. Near(reg')
    BY <1>1, <2>1 DEF Near, Position
  <2>3. Agree => cursor_pos.y = reg.y
    BY <1>3 DEF Agree
  <2> QED BY <1>1, <1>3, <2>1, <2>2, <2>3, CopyTypes
<1> QED BY <1>1, <1>2, <1>3

LEMMA WriteX ==
  ASSUME ConsoleInv, NEW v, Write("x", v)
  PROVE  reg' = [x |-> v, y |-> reg.y] /\ dirty' = dirty \cup {"x"}
<1>1. reg = [x |-> reg.x, y |-> reg.y]
  BY CopyTypes
<1> QED BY <1>1 DEF Write

LEMMA WriteY ==
  ASSUME ConsoleInv, NEW v, Write("y", v)
  PROVE  reg' = [x |-> reg.x, y |-> v] /\ dirty' = dirty \cup {"y"}
<1>1. reg = [x |-> reg.x, y |-> reg.y]
  BY CopyTypes
<1> QED BY <1>1 DEF Write

LEMMA CharType ==
  ASSUME ConsoleInv, pc # "idle" \/ text # <<>>
  PROVE  Char \in Glyphs \cup Controls
<1>1. text \in Seq(Glyphs \cup (Controls \ {"BS"})) /\ text # <<>>
  BY DEF ConsoleInv, MoreTypes
<1>2. Char \in Glyphs \cup (Controls \ {"BS"})
  BY <1>1 DEF Char
<1> QED BY <1>2

LEMMA ConsolePrintable == ConsoleInv => Printable
<1> SUFFICES ASSUME ConsoleInv PROVE Printable
  OBVIOUS
<1>1. cursor_pos \in [x : Nat, y : Nat]
  BY CopyTypes, NearScreen
<1> QED BY <1>1 DEF ConsoleInv, ConsoleTypeOK, MoreTypes, Printable

\* The scroll from the first cell is that of ScrollScreen, the one from behind the
\* last cell leaves memory as it is.
LEMMA ScrolledFromEnds ==
  ASSUME NEW mem \in [Cells -> Cell]
  PROVE  /\ ScrolledFrom(0, mem) = Scrolled(mem)
         /\ ScrolledFrom(kNumRows * kNumCols, mem) = mem
<1>1. \A i \in Cells : ~(i < 0) /\ i < kNumRows * kNumCols
  BY Sizes DEF Cells
<1>2. ScrolledFrom(0, mem) = Scrolled(mem)
  BY <1>1 DEF ScrolledFrom, Scrolled, LastMoved
<1>3. ScrolledFrom(kNumRows * kNumCols, mem) = [i \in Cells |-> mem[i]]
  BY <1>1 DEF ScrolledFrom
<1> QED BY <1>2, <1>3

\* Moving one cell leaves what the whole scroll will make of memory.
LEMMA ScrolledFromNext ==
  ASSUME NEW mem \in [Cells -> Cell], NEW n \in Cells, NEW cell,
         cell = IF n < LastMoved THEN mem[n + kNumCols] ELSE Space
  PROVE  ScrolledFrom(n + 1, [mem EXCEPT ![n] = cell]) = ScrolledFrom(n, mem)
<1> DEFINE new == [mem EXCEPT ![n] = cell]
<1>1. \A i \in Cells : new[i] = IF i = n THEN cell ELSE mem[i]
  OBVIOUS
<1>2. n \in Int /\ LastMoved \in Int /\ kNumCols \in Nat \ {0}
      /\ \A i \in Cells : i \in Int /\ (i < LastMoved => i + kNumCols \in Cells)
  <2>1. LastMoved = kNumCols * kNumRows - kNumCols /\ Cells = 0 .. (kNumCols * kNumRows - 1)
    BY Sizes DEF LastMoved, Cells
  <2> QED BY <2>1, Sizes
<1> HIDE DEF new
<1>3. ASSUME NEW i \in Cells
      PROVE  (IF i < n + 1 THEN new[i]
              ELSE IF i < LastMoved THEN new[i + kNumCols] ELSE Space)
             = (IF i < n THEN mem[i]
                ELSE IF i < LastMoved THEN mem[i + kNumCols] ELSE Space)
  <2>1. i \in Int /\ n \in Int /\ (i < LastMoved => i + kNumCols \in Cells)
    BY <1>2
  <2>2. CASE i < n
    BY <1>1, <2>1, <2>2
  <2>3. CASE i = n
    BY <1>1, <2>1, <2>3
  <2>4. CASE i > n
    <3>1. i + kNumCols # n
      BY <1>2, <2>1, <2>4
    <3>2. i < LastMoved => new[i + kNumCols] = mem[i + kNumCols]
      BY <1>1, <2>1, <3>1
    <3> QED BY <2>1, <2>4, <3>2
  <2> QED BY <2>1, <2>2, <2>3, <2>4
<1>4. ScrolledFrom(n + 1, new) = ScrolledFrom(n, mem)
  BY <1>3 DEF ScrolledFrom
<1> QED BY <1>4 DEF new

LEMMA ScrollScreenIs ==
  ASSUME NEW mem \in [Cells -> Cell], NEW pos \in [x : Nat, y : Nat]
  PROVE  /\ pos.y < kNumRows => ScrollScreen(mem, pos) = [mem |-> mem, pos |-> pos]
         /\ ~(pos.y < kNumRows) =>
              ScrollScreen(mem, pos) = [mem |-> ScrolledFrom(0, mem),
                                        pos |-> [x |-> pos.x, y |-> kNumRows - 1]]
<1>1. [pos EXCEPT !.y = kNumRows - 1] = [x |-> pos.x, y |-> kNumRows - 1]
  OBVIOUS
<1> QED BY <1>1, ScrolledFromEnds DEF ScrollScreen

\* Nothing in PrintChar changes the colours a scroll leaves.
LEMMA StyleKept ==
  ASSUME attr_byte' = attr_byte
  PROVE  /\ ScrollScreen(video_mem, Wrap(Step(Char, reg)))' =
              ScrollScreen(video_mem', Wrap(Step(Char', reg')))
         /\ ScrollScreen(video_mem, [x |-> 0, y |-> reg.y + 1])' =
              ScrollScreen(video_mem', [x |-> 0, y |-> reg'.y + 1])
         /\ ScrollScreen(video_mem, Wrap(reg))' = ScrollScreen(video_mem', Wrap(reg'))
         /\ ScrollScreen(video_mem, reg)' = ScrollScreen(video_mem', reg')
         /\ ScrolledFrom(index, video_mem)' = ScrolledFrom(index', video_mem')
         /\ Space' = Space
<1>1. Space' = Space
  BY DEF Space
<1>2. ScrollScreen(video_mem, Wrap(Step(Char, reg)))' =
        ScrollScreen(video_mem', Wrap(Step(Char', reg')))
  BY <1>1 DEF ScrollScreen, Scrolled
<1>3. ScrollScreen(video_mem, [x |-> 0, y |-> reg.y + 1])' =
        ScrollScreen(video_mem', [x |-> 0, y |-> reg'.y + 1])
  BY <1>1 DEF ScrollScreen, Scrolled
<1>4. ScrollScreen(video_mem, Wrap(reg))' = ScrollScreen(video_mem', Wrap(reg'))
  BY <1>1 DEF ScrollScreen, Scrolled
<1>5. ScrollScreen(video_mem, reg)' = ScrollScreen(video_mem', reg')
  BY <1>1 DEF ScrollScreen, Scrolled
<1>6. ScrolledFrom(index, video_mem)' = ScrolledFrom(index', video_mem')
  BY <1>1 DEF ScrolledFrom
<1> QED BY <1>1, <1>2, <1>3, <1>4, <1>5, <1>6

\* What a PrintChar about to start leads to does not change while nothing else does.
LEMMA PrintedKept ==
  ASSUME UNCHANGED <<video_mem, cursor_pos, attr_byte, text>>
  PROVE  Printed(Char)' = Printed(Char)
<1>1. Char' = Char /\ Space' = Space
  BY DEF Char, Space
<1> DEFINE mem == IF Char \in Glyphs
                  THEN [video_mem EXCEPT ![cursor_pos.y * kNumCols + cursor_pos.x] =
                          [char |-> Char, attr |-> attr_byte]]
                  ELSE video_mem
           pos == Wrap(Step(Char, cursor_pos))
<1>2. mem' = mem /\ pos' = pos
  BY <1>1
<1>3. Printed(Char) = ScrollScreen(mem, pos) /\ Printed(Char)' = ScrollScreen(mem, pos)'
  BY DEF Printed
<1> HIDE DEF mem, pos
<1>4. ScrollScreen(mem, pos)' = ScrollScreen(mem, pos)
  BY <1>1, <1>2 DEF ScrollScreen, Scrolled
<1> QED BY <1>3, <1>4

-----------------------------------------------------------------------------
(***************************************************************************)
(* The steps of kernel_main.                                               *)
(***************************************************************************)

\* The types a step inside PrintChar keeps.
LEMMA TypesKept ==
  ASSUME ConsoleInv, UNCHANGED <<attr_byte, text, keys>>,
         pc' \in Points, pc # "idle" \/ text # <<>>,
         pc' \in EarlyPoints => index' = 0, pc' = "paste" => index' \in Cells,
         video_mem' \in [Cells -> Cell], Near(cursor_pos'), Near(reg'),
         dirty' \subseteq {"x", "y"}, word' \in Cell,
         crtc' \in [high : 0 .. (ByteMod - 1), low : 0 .. (ByteMod - 1)],
         index' \in 0 .. (kNumRows * kNumCols), port' \in {"high", "low"}
  PROVE  ConsoleTypeOK' /\ MoreTypes'
  BY DEF ConsoleInv, ConsoleTypeOK, MoreTypes, Near

\* What no step inside PrintChar puts at risk, as one fact.
LEMMA OtherTypes ==
  ASSUME ConsoleInv
  PROVE  /\ video_mem \in [Cells -> Cell] /\ port \in {"high", "low"} /\ word \in Cell
         /\ crtc \in [high : 0 .. (ByteMod - 1), low : 0 .. (ByteMod - 1)]
         /\ index \in 0 .. (kNumRows * kNumCols) /\ attr_byte \in Attrs
         /\ pc \in EarlyPoints => index = 0
         /\ pc # "idle" => text # <<>>
  BY DEF ConsoleInv, ConsoleTypeOK, MoreTypes

\* A step that changes the copy in registers and nothing else.
LEMMA RegisterStep ==
  ASSUME ConsoleInv, UNCHANGED <<vars, text, index, word, port, keys, expected>>,
         pc # "idle", pc' \in Points, pc' # "paste", pc' \in EarlyPoints => pc \in EarlyPoints,
         Near(reg'), dirty' \subseteq {"x", "y"}
  PROVE  /\ ConsoleTypeOK' /\ MoreTypes'
         /\ UNCHANGED <<video_mem, cursor_pos, attr_byte, crtc, text, index, word, port, keys,
                        expected>>
         /\ Char' = Char /\ Interrupted' = Interrupted
<1>1. UNCHANGED <<video_mem, cursor_pos, attr_byte, crtc, text, index, word, port, keys,
                  expected>>
  BY DEF vars
<1>2. Near(cursor_pos)
  BY CopyTypes
<1>3. Char' = Char /\ Interrupted' = Interrupted
  BY <1>1 DEF Char, Interrupted
<1>4. ConsoleTypeOK' /\ MoreTypes'
  BY <1>1, <1>2, OtherTypes, TypesKept
<1> QED BY <1>1, <1>3, <1>4

LEMMA LoadRow_Inv == ConsoleInv /\ LoadRow => ConsoleInv'
<1> SUFFICES ASSUME ConsoleInv, LoadRow PROVE ConsoleInv'
  OBVIOUS
<1>1. /\ text # <<>> /\ pc = "idle" /\ pc' = "column" /\ index' = 0
      /\ reg' = [reg EXCEPT !.y = cursor_pos.y] /\ expected' = Printed(Char)
      /\ UNCHANGED <<video_mem, cursor_pos, attr_byte, crtc, text, dirty, word, port, keys>>
  BY DEF LoadRow, Goto, vars
<1>2. dirty = {} /\ OnScreen(reg) /\ OnScreen(cursor_pos) /\ Near(cursor_pos)
  BY <1>1, QuietCopies, CopyTypes DEF QuietPoints
<1>3. reg'.y = cursor_pos.y /\ OnScreen(reg')
  BY <1>1, <1>2 DEF OnScreen
<1>4. ConsoleTypeOK' /\ MoreTypes'
  <2>1. 0 \in 0 .. (kNumRows * kNumCols)
    BY Sizes
  <2>2. pc' \in Points /\ pc' # "paste"
    BY <1>1 DEF Points, QuietPoints
  <2>3. Near(reg') /\ dirty' \subseteq {"x", "y"}
    BY <1>1, <1>2, <1>3, NearScreen
  <2> QED BY <1>1, <1>2, <2>1, <2>2, <2>3, OtherTypes, TypesKept
<1>5. Copies'
  BY <1>1, <1>2, <1>3
     DEF Copies, RowPoints, EdgePoints, DownPoints, ScrollPoints, CopyPoints
<1>6. Printed(Char)' = Printed(Char)
  BY <1>1, PrintedKept
<1>7. Progress'
  BY <1>1, <1>3, <1>6
     DEF Progress, RowPoints, EdgePoints, DownPoints, ScrollPoints, CopyPoints,
         ArgumentPoints, PortPoints
<1> QED BY <1>4, <1>5, <1>7 DEF ConsoleInv

LEMMA LoadColumn_Inv == ConsoleInv /\ LoadColumn => ConsoleInv'
<1> SUFFICES ASSUME ConsoleInv, LoadColumn PROVE ConsoleInv'
  OBVIOUS
<1>1. /\ pc = "column" /\ pc' = "cell" /\ reg' = [reg EXCEPT !.x = cursor_pos.x]
      /\ UNCHANGED <<vars, text, dirty, index, word, port, keys, expected>>
  BY DEF LoadColumn, Goto
<1>2. dirty = {} /\ OnScreen(reg) /\ OnScreen(cursor_pos)
  BY <1>1, QuietCopies DEF QuietPoints
<1>3. reg'.x = cursor_pos.x /\ reg'.y = reg.y /\ OnScreen(reg')
  BY <1>1, <1>2 DEF OnScreen
<1>4. /\ ConsoleTypeOK' /\ MoreTypes' /\ Interrupted' = Interrupted
      /\ UNCHANGED <<video_mem, cursor_pos, attr_byte, text, expected>>
  <2>1. pc # "idle" /\ pc' \in Points /\ pc' # "paste" /\ pc \in EarlyPoints
    BY <1>1 DEF Points, EarlyPoints
  <2>2. Near(reg') /\ dirty' \subseteq {"x", "y"}
    BY <1>1, <1>2, <1>3, NearScreen
  <2> QED BY <1>1, <2>1, <2>2, RegisterStep
<1>5. Copies'
  BY <1>1, <1>2, <1>3, <1>4
     DEF Copies, RowPoints, EdgePoints, DownPoints, ScrollPoints, CopyPoints
<1>6. Printed(Char)' = Printed(Char)
  BY <1>4, PrintedKept
<1>7. Progress'
  <2>1. SUFFICES ASSUME expected # Interrupted PROVE Progress'
    BY <1>4 DEF Progress
  <2>2. expected = Printed(Char) /\ reg.y = cursor_pos.y
    BY <1>1, <2>1 DEF ConsoleInv, Progress
  <2>3. Agree'
    BY <1>3, <1>4, <2>2 DEF Agree
  <2> QED
    BY <1>1, <1>4, <1>6, <2>2, <2>3
       DEF Progress, RowPoints, EdgePoints, DownPoints, ScrollPoints, CopyPoints,
           ArgumentPoints, PortPoints
<1> QED BY <1>4, <1>5, <1>7 DEF ConsoleInv

LEMMA PutGlyph_Inv == ConsoleInv /\ PutGlyph => ConsoleInv'
<1> SUFFICES ASSUME ConsoleInv, PutGlyph PROVE ConsoleInv'
  OBVIOUS
<1>1. /\ pc = "cell" /\ pc' = "step"
      /\ video_mem' = IF Char \in Glyphs
                      THEN [video_mem EXCEPT ![reg.y * kNumCols + reg.x] =
                              [char |-> Char, attr |-> attr_byte]]
                      ELSE video_mem
      /\ UNCHANGED <<cursor_pos, attr_byte, crtc, text, reg, dirty, index, word, port, keys,
                     expected>>
  BY DEF PutGlyph, Goto
<1>2. /\ dirty = {} /\ OnScreen(reg) /\ OnScreen(cursor_pos) /\ Near(reg) /\ Near(cursor_pos)
      /\ Char' = Char
  BY <1>1, QuietCopies, CopyTypes DEF QuietPoints, Char
<1>3. ConsoleTypeOK' /\ MoreTypes'
  <2>1. video_mem' \in [Cells -> Cell]
    BY <1>1, OtherTypes DEF Cell
  <2>2. pc' \in Points /\ pc' # "paste" /\ index' = 0
    BY <1>1, OtherTypes DEF Points, EarlyPoints
  <2> QED BY <1>1, <1>2, <2>1, <2>2, OtherTypes, TypesKept
<1>4. Copies'
  BY <1>1, <1>2 DEF Copies, RowPoints, EdgePoints, DownPoints, ScrollPoints, CopyPoints
<1>5. Progress'
  <2>1. SUFFICES ASSUME expected # Interrupted PROVE Progress'
    BY <1>1 DEF Progress, Interrupted
  <2>2. expected = Printed(Char) /\ Agree
    BY <1>1, <2>1 DEF ConsoleInv, Progress
  <2>3. reg = cursor_pos
    BY <1>2, <2>2, CopyTypes DEF Agree
  <2>4. expected' = ScrollScreen(video_mem, Wrap(Step(Char, reg)))'
    <3>1. expected = ScrollScreen(video_mem', Wrap(Step(Char, reg)))
      BY <1>1, <2>2, <2>3 DEF Printed
    <3> QED BY <1>1, <1>2, <3>1, StyleKept
  <2>5. Agree'
    BY <1>1, <2>2 DEF Agree
  <2> QED
    BY <1>1, <2>4, <2>5
       DEF Progress, RowPoints, EdgePoints, DownPoints, ScrollPoints, CopyPoints,
           ArgumentPoints, PortPoints
<1> QED BY <1>3, <1>4, <1>5 DEF ConsoleInv

\* Reading a member again changes nothing while no key has come.
LEMMA ReadKeeps ==
  ASSUME ConsoleInv, pc \notin {"idle", "column"}, Agree => reg' = reg,
         UNCHANGED <<video_mem, cursor_pos, attr_byte, crtc, text, dirty, index, word, port,
                     keys, expected>>
  PROVE  expected' # Interrupted' =>
           /\ reg' = reg /\ Agree /\ Agree' /\ expected # Interrupted
           /\ ScrollScreen(video_mem, Wrap(Step(Char, reg)))' =
                ScrollScreen(video_mem, Wrap(Step(Char, reg)))
           /\ ScrollScreen(video_mem, [x |-> 0, y |-> reg.y + 1])' =
                ScrollScreen(video_mem, [x |-> 0, y |-> reg.y + 1])
           /\ ScrollScreen(video_mem, Wrap(reg))' = ScrollScreen(video_mem, Wrap(reg))
           /\ ScrollScreen(video_mem, reg)' = ScrollScreen(video_mem, reg)
<1> SUFFICES ASSUME expected' # Interrupted'
             PROVE  /\ reg' = reg /\ Agree /\ Agree' /\ expected # Interrupted
                    /\ ScrollScreen(video_mem, Wrap(Step(Char, reg)))' =
                         ScrollScreen(video_mem, Wrap(Step(Char, reg)))
                    /\ ScrollScreen(video_mem, [x |-> 0, y |-> reg.y + 1])' =
                         ScrollScreen(video_mem, [x |-> 0, y |-> reg.y + 1])
                    /\ ScrollScreen(video_mem, Wrap(reg))' = ScrollScreen(video_mem, Wrap(reg))
                    /\ ScrollScreen(video_mem, reg)' = ScrollScreen(video_mem, reg)
  OBVIOUS
<1>1. expected # Interrupted
  BY DEF Interrupted
<1>2. Agree
  BY <1>1 DEF ConsoleInv, Progress
<1>3. reg' = reg /\ Agree' /\ Char' = Char
  BY <1>2 DEF Agree, Char
<1> QED BY <1>1, <1>2, <1>3, StyleKept

LEMMA ReadColumn_Inv == ConsoleInv /\ ReadColumn => ConsoleInv'
<1> SUFFICES ASSUME ConsoleInv, ReadColumn PROVE ConsoleInv'
  OBVIOUS
<1>1. /\ \/ pc = "step" /\ pc' = "advance"
         \/ pc = "wrap" /\ pc' = "edge"
         \/ pc = "column argument" /\ pc' = "row argument"
      /\ Read("x")
      /\ UNCHANGED <<vars, text, dirty, index, word, port, keys, expected>>
  BY DEF ReadColumn, Goto, Read
<1>2. /\ reg' = [x |-> reg'.x, y |-> reg'.y] /\ reg'.y = reg.y
      /\ reg'.x = reg.x \/ ("x" \notin dirty /\ reg'.x = cursor_pos.x)
      /\ Near(reg') /\ reg'.x \in Nat /\ reg'.y \in Nat
      /\ Agree => reg' = reg
  BY <1>1, ReadX
<1>3. /\ ConsoleTypeOK' /\ MoreTypes' /\ Interrupted' = Interrupted
      /\ UNCHANGED <<video_mem, cursor_pos, attr_byte, crtc, text, index, word, port, keys,
                     expected>>
  <2>1. pc # "idle" /\ pc' \in Points /\ pc' # "paste" /\ (pc' \in EarlyPoints => pc \in EarlyPoints)
    BY <1>1 DEF Points, EarlyPoints, RowPoints, EdgePoints, DownPoints, ScrollPoints,
                ArgumentPoints
  <2>2. dirty' \subseteq {"x", "y"}
    BY <1>1, CopyTypes
  <2> QED BY <1>1, <1>2, <2>1, <2>2, RegisterStep
<1>4. /\ cursor_pos.x \in Nat /\ cursor_pos.y \in Nat /\ reg.x \in Nat /\ reg.y \in Nat
      /\ Copies
  BY CopyTypes DEF ConsoleInv
<1>5. CASE pc = "step"
  <2>1. /\ dirty = {} /\ OnScreen(cursor_pos) /\ cursor_pos.x < kNumCols
        /\ reg.x < kNumCols /\ reg.y < kNumRows
    BY <1>5, QuietCopies DEF QuietPoints
  <2>2. OnScreen(reg')
    BY <1>2, <2>1, NearScreen
  <2>3. Copies'
    BY <1>1, <1>3, <1>5, <2>1, <2>2
       DEF Copies, RowPoints, EdgePoints, DownPoints, ScrollPoints, CopyPoints
  <2>4. Progress'
    BY <1>1, <1>2, <1>3, <1>5, ReadKeeps
       DEF ConsoleInv, Progress, RowPoints, EdgePoints, DownPoints, ScrollPoints, CopyPoints,
           ArgumentPoints, PortPoints
  <2> QED BY <1>3, <2>3, <2>4 DEF ConsoleInv
<1>6. CASE pc = "wrap"
  <2>1. /\ cursor_pos.x >= kNumCols => reg.x >= kNumCols
        /\ reg.x >= kNumCols => reg.y < kNumRows /\ cursor_pos.y < kNumRows
        /\ cursor_pos.y >= kNumRows => reg.y >= kNumRows
    BY <1>4, <1>6 DEF Copies, EdgePoints
  <2>2. /\ cursor_pos.x >= kNumCols => reg'.x >= kNumCols
        /\ reg'.x >= kNumCols => reg'.y < kNumRows /\ cursor_pos.y < kNumRows
    BY <1>2, <2>1
  <2>3. Copies'
    BY <1>1, <1>2, <1>3, <1>6, <2>1, <2>2
       DEF Copies, QuietPoints, RowPoints, EdgePoints, DownPoints, ScrollPoints, CopyPoints,
           PortPoints
  <2>4. Progress'
    BY <1>1, <1>2, <1>3, <1>6, ReadKeeps
       DEF ConsoleInv, Progress, RowPoints, EdgePoints, DownPoints, ScrollPoints, CopyPoints,
           ArgumentPoints, PortPoints
  <2> QED BY <1>3, <2>3, <2>4 DEF ConsoleInv
<1>7. CASE pc = "column argument"
  <2>1. /\ reg.x < kNumCols /\ (cursor_pos.x >= kNumCols => "x" \in dirty)
        /\ reg.y < kNumRows /\ (cursor_pos.y >= kNumRows => "y" \in dirty)
    BY <1>4, <1>7 DEF Copies
  <2>2. reg'.x < kNumCols
    BY <1>2, <1>4, <2>1, Sizes
  <2>3. Copies'
    BY <1>1, <1>2, <1>3, <1>7, <2>1, <2>2
       DEF Copies, QuietPoints, RowPoints, EdgePoints, DownPoints, ScrollPoints, CopyPoints,
           PortPoints
  <2>4. Progress'
    BY <1>1, <1>2, <1>3, <1>7, ReadKeeps
       DEF ConsoleInv, Progress, RowPoints, EdgePoints, DownPoints, ScrollPoints, CopyPoints,
           ArgumentPoints, PortPoints
  <2> QED BY <1>3, <2>3, <2>4 DEF ConsoleInv
<1> QED BY <1>1, <1>5, <1>6, <1>7

LEMMA ReadRow_Inv == ConsoleInv /\ ReadRow => ConsoleInv'
<1> SUFFICES ASSUME ConsoleInv, ReadRow PROVE ConsoleInv'
  OBVIOUS
<1>1. /\ \/ pc = "newline" /\ pc' = "newline row"
         \/ pc = "down" /\ pc' = "down row"
         \/ pc = "scroll" /\ pc' = "last line"
         \/ pc = "row argument" /\ pc' = "store row"
      /\ Read("y")
      /\ UNCHANGED <<vars, text, dirty, index, word, port, keys, expected>>
  BY DEF ReadRow, Goto, Read
<1>2. /\ reg' = [x |-> reg'.x, y |-> reg'.y] /\ reg'.x = reg.x
      /\ reg'.y = reg.y \/ ("y" \notin dirty /\ reg'.y = cursor_pos.y)
      /\ Near(reg') /\ reg'.x \in Nat /\ reg'.y \in Nat
      /\ Agree => reg' = reg
  BY <1>1, ReadY
<1>3. /\ ConsoleTypeOK' /\ MoreTypes' /\ Interrupted' = Interrupted
      /\ UNCHANGED <<video_mem, cursor_pos, attr_byte, crtc, text, index, word, port, keys,
                     expected>>
  <2>1. pc # "idle" /\ pc' \in Points /\ pc' # "paste" /\ (pc' \in EarlyPoints => pc \in EarlyPoints)
    BY <1>1 DEF Points, EarlyPoints, RowPoints, EdgePoints, DownPoints, ScrollPoints,
                ArgumentPoints
  <2>2. dirty' \subseteq {"x", "y"}
    BY <1>1, CopyTypes
  <2> QED BY <1>1, <1>2, <2>1, <2>2, RegisterStep
<1>4. /\ cursor_pos.x \in Nat /\ cursor_pos.y \in Nat /\ reg.x \in Nat /\ reg.y \in Nat
      /\ Copies
  BY CopyTypes DEF ConsoleInv
<1>5. Progress'
  BY <1>1, <1>2, <1>3, ReadKeeps
     DEF ConsoleInv, Progress, RowPoints, EdgePoints, DownPoints, ScrollPoints, CopyPoints,
         ArgumentPoints, PortPoints
<1>6. CASE pc = "newline"
  <2>1. dirty \subseteq {"x"} /\ OnScreen(cursor_pos) /\ OnScreen(reg)
    BY <1>4, <1>6 DEF Copies, RowPoints
  <2>2. OnScreen(reg')
    BY <1>2, <2>1, NearScreen
  <2>3. Copies'
    BY <1>1, <1>3, <1>6, <2>1, <2>2
       DEF Copies, QuietPoints, RowPoints, EdgePoints, DownPoints, ScrollPoints, CopyPoints,
           PortPoints
  <2> QED BY <1>3, <1>5, <2>3 DEF ConsoleInv
<1>7. CASE pc = "down"
  <2>1. /\ reg.y < kNumRows /\ cursor_pos.y < kNumRows
        /\ reg.x < kNumCols /\ (cursor_pos.x >= kNumCols => "x" \in dirty)
    BY <1>4, <1>7 DEF Copies, DownPoints
  <2>2. reg'.y < kNumRows
    BY <1>2, <2>1
  <2>3. Copies'
    BY <1>1, <1>2, <1>3, <1>7, <2>1, <2>2
       DEF Copies, QuietPoints, RowPoints, EdgePoints, DownPoints, ScrollPoints, CopyPoints,
           PortPoints
  <2> QED BY <1>3, <1>5, <2>3 DEF ConsoleInv
<1>8. CASE pc = "scroll"
  <2>1. /\ cursor_pos.y >= kNumRows => reg.y >= kNumRows
        /\ reg.x < kNumCols /\ (cursor_pos.x >= kNumCols => "x" \in dirty)
    BY <1>4, <1>8 DEF Copies, ScrollPoints
  <2>2. cursor_pos.y >= kNumRows => reg'.y >= kNumRows
    BY <1>2, <2>1
  <2>3. Copies'
    BY <1>1, <1>2, <1>3, <1>8, <2>1, <2>2
       DEF Copies, QuietPoints, RowPoints, EdgePoints, DownPoints, ScrollPoints, CopyPoints,
           PortPoints
  <2> QED BY <1>3, <1>5, <2>3 DEF ConsoleInv
<1>9. CASE pc = "row argument"
  <2>1. /\ reg.x < kNumCols
        /\ reg.y < kNumRows /\ (cursor_pos.y >= kNumRows => "y" \in dirty)
    BY <1>4, <1>9 DEF Copies
  <2>2. reg'.y < kNumRows
    BY <1>2, <1>4, <2>1, Sizes
  <2>3. Copies'
    BY <1>1, <1>2, <1>3, <1>9, <2>1, <2>2
       DEF Copies, QuietPoints, RowPoints, EdgePoints, DownPoints, ScrollPoints, CopyPoints,
           PortPoints
  <2> QED BY <1>3, <1>5, <2>3 DEF ConsoleInv
<1> QED BY <1>1, <1>6, <1>7, <1>8, <1>9

LEMMA Advance_Inv == ConsoleInv /\ Advance => ConsoleInv'
<1> SUFFICES ASSUME ConsoleInv, Advance PROVE ConsoleInv'
  OBVIOUS
<1> DEFINE st == Step(Char, reg)
<1>1. /\ pc = "advance" /\ pc' = (IF Char = "LF" THEN "newline" ELSE "wrap")
      /\ IF Char = "none" THEN UNCHANGED <<reg, dirty>> ELSE Write("x", st.x)
      /\ UNCHANGED <<vars, text, index, word, port, keys, expected>>
  BY DEF Advance, Goto, Write
<1>2. /\ dirty = {} /\ OnScreen(reg) /\ OnScreen(cursor_pos) /\ Copies
      /\ reg.x < kNumCols /\ reg.y < kNumRows
      /\ cursor_pos.x < kNumCols /\ cursor_pos.y < kNumRows
  BY <1>1, QuietCopies DEF QuietPoints, ConsoleInv
<1>3. /\ Near(reg) /\ reg \in [x : Nat, y : Nat] /\ reg = [x |-> reg.x, y |-> reg.y]
      /\ reg.x \in Nat /\ reg.y \in Nat /\ cursor_pos.x \in Nat /\ cursor_pos.y \in Nat
  BY CopyTypes, NearScreen
<1>4. Char \in Glyphs \cup Controls
  BY <1>1, CharType
<1>5. /\ st \in [x : Nat, y : Nat] /\ st.x <= reg.x + kNumTab
      /\ st.y = IF Char = "LF" THEN reg.y + 1 ELSE reg.y
      /\ Char = "LF" => st.x = 0
      /\ Char = "none" => st.x = reg.x
  BY <1>3, <1>4, StepOf
<1>6. st = [x |-> st.x, y |-> st.y] /\ st.x \in Nat
  BY <1>5
<1>7. /\ reg' = [x |-> st.x, y |-> reg.y] /\ dirty' \subseteq {"x"}
      /\ Char = "none" => dirty' = {}
      /\ Char # "none" => dirty' = {"x"}
  <2>1. CASE Char = "none"
    BY <1>1, <1>2, <1>3, <1>5, <2>1
  <2>2. CASE Char # "none"
    <3>1. Write("x", st.x)
      BY <1>1, <2>2
    <3> HIDE DEF st
    <3>2. reg' = [x |-> st.x, y |-> reg.y] /\ dirty' = dirty \cup {"x"}
      BY <3>1, WriteX
    <3> QED BY <1>2, <2>2, <3>2
  <2> QED BY <2>1, <2>2
<1> HIDE DEF st
<1>8. Near(reg')
  <2>1. st.x \in 0 .. (kNumCols + kNumTab - 1) /\ reg.y \in 0 .. kNumRows
    BY <1>2, <1>3, <1>5, <1>6, Sizes
  <2> QED BY <1>7, <2>1, NearMembers
<1>9. /\ ConsoleTypeOK' /\ MoreTypes' /\ Interrupted' = Interrupted
      /\ UNCHANGED <<video_mem, cursor_pos, attr_byte, crtc, text, index, word, port, keys,
                     expected>>
  <2>1. pc # "idle" /\ pc' \in Points /\ pc' # "paste" /\ pc \in EarlyPoints
    BY <1>1 DEF Points, EarlyPoints, RowPoints, EdgePoints
  <2>2. dirty' \subseteq {"x", "y"}
    BY <1>7
  <2> QED BY <1>1, <1>8, <2>1, <2>2, RegisterStep
<1>10. ASSUME expected # Interrupted
       PROVE  expected = ScrollScreen(video_mem, Wrap(st)) /\ Agree'
  <2>1. expected = ScrollScreen(video_mem, Wrap(st)) /\ Agree
    BY <1>1, <1>10 DEF ConsoleInv, Progress, st
  <2>2. reg = cursor_pos
    BY <1>2, <2>1, CopyTypes DEF Agree
  <2>3. Agree'
    BY <1>5, <1>7, <1>9, <2>2 DEF Agree
  <2> QED BY <2>1, <2>3
<1>11. CASE Char = "LF"
  <2>1. pc' = "newline" /\ reg' = [x |-> 0, y |-> reg.y] /\ st = [x |-> 0, y |-> reg.y + 1]
    BY <1>1, <1>5, <1>6, <1>7, <1>11
  <2>2. OnScreen(reg')
    BY <1>2, <1>8, <2>1, Sizes, NearScreen
  <2>3. Copies'
    BY <1>2, <1>7, <1>9, <2>1, <2>2
       DEF Copies, QuietPoints, RowPoints, EdgePoints, DownPoints, ScrollPoints, CopyPoints,
           PortPoints
  <2>4. Wrap(st) = st
    BY <2>1, Sizes DEF Wrap
  <2>5. Progress'
    <3>1. SUFFICES ASSUME expected # Interrupted PROVE Progress'
      BY <1>9 DEF Progress
    <3>2. expected = ScrollScreen(video_mem, [x |-> 0, y |-> reg.y + 1]) /\ Agree'
      BY <1>10, <2>1, <2>4, <3>1
    <3>3. expected' = ScrollScreen(video_mem, [x |-> 0, y |-> reg.y + 1])' /\ reg'.x = 0
      BY <1>9, <2>1, <3>2, StyleKept
    <3> QED
      BY <2>1, <3>2, <3>3
         DEF Progress, RowPoints, EdgePoints, DownPoints, ScrollPoints, CopyPoints,
             ArgumentPoints, PortPoints
  <2> QED BY <1>9, <2>3, <2>5 DEF ConsoleInv
<1>12. CASE Char # "LF"
  <2>1. pc' = "wrap" /\ reg' = st
    BY <1>1, <1>5, <1>6, <1>7, <1>12
  <2>2. reg'.y = reg.y
    BY <1>7
  <2>a. /\ ~(cursor_pos.x >= kNumCols) /\ ~(cursor_pos.y >= kNumRows)
        /\ reg'.y < kNumRows
    BY <1>2, <1>3, <2>2, Sizes
  <2>3. Copies'
    BY <1>2, <1>9, <2>1, <2>a
       DEF Copies, QuietPoints, RowPoints, EdgePoints, DownPoints, ScrollPoints, CopyPoints,
           PortPoints
  <2>4. Progress'
    <3>1. SUFFICES ASSUME expected # Interrupted PROVE Progress'
      BY <1>9 DEF Progress
    <3>2. expected = ScrollScreen(video_mem, Wrap(st)) /\ Agree'
      BY <1>10, <3>1
    <3>3. expected' = ScrollScreen(video_mem, Wrap(reg))'
      BY <1>9, <2>1, <3>2, StyleKept
    <3> QED
      BY <2>1, <3>2, <3>3
         DEF Progress, RowPoints, EdgePoints, DownPoints, ScrollPoints, CopyPoints,
             ArgumentPoints, PortPoints
  <2> QED BY <1>9, <2>3, <2>4 DEF ConsoleInv
<1> QED BY <1>11, <1>12

LEMMA WrapLine_Inv == ConsoleInv /\ WrapLine => ConsoleInv'
<1> SUFFICES ASSUME ConsoleInv, WrapLine PROVE ConsoleInv'
  OBVIOUS
<1>1. /\ pc = "edge"
      /\ UNCHANGED <<vars, text, index, word, port, keys, expected>>
      /\ \/ reg.x >= kNumCols /\ pc' = "down" /\ Write("x", Wrap(reg).x)
         \/ reg.x < kNumCols /\ pc' = "scroll" /\ UNCHANGED <<reg, dirty>>
  BY DEF WrapLine, Goto, Write
<1>2. /\ Near(reg) /\ reg = [x |-> reg.x, y |-> reg.y] /\ reg \in [x : Nat, y : Nat]
      /\ reg.x \in Nat /\ reg.y \in Nat /\ cursor_pos.x \in Nat /\ cursor_pos.y \in Nat
      /\ dirty \subseteq {"x", "y"} /\ video_mem \in [Cells -> Cell]
  BY CopyTypes, NearScreen, OtherTypes
<1>3. /\ cursor_pos.x >= kNumCols => reg.x >= kNumCols
      /\ reg.x >= kNumCols => reg.y < kNumRows /\ cursor_pos.y < kNumRows
      /\ cursor_pos.y >= kNumRows => reg.y >= kNumRows
  BY <1>1 DEF ConsoleInv, Copies, EdgePoints
<1>4. expected # Interrupted => expected = ScrollScreen(video_mem, Wrap(reg)) /\ Agree
  BY <1>1 DEF ConsoleInv, Progress, EdgePoints
<1>5. CASE reg.x >= kNumCols
  <2>1. Wrap(reg) = [x |-> 0, y |-> reg.y + 1] /\ ~(reg.x < kNumCols)
    BY <1>2, <1>5, Sizes DEF Wrap
  <2>2. pc' = "down" /\ reg' = [x |-> 0, y |-> reg.y] /\ dirty' = dirty \cup {"x"}
    <3>1. pc' = "down" /\ Write("x", 0)
      BY <1>1, <2>1
    <3> QED BY <3>1, WriteX
  <2>3. Near(reg') /\ reg'.x < kNumCols /\ reg'.y < kNumRows /\ cursor_pos.y < kNumRows
    <3>1. 0 \in 0 .. (kNumCols + kNumTab - 1) /\ reg.y \in 0 .. kNumRows /\ 0 < kNumCols
      BY <1>2, <1>3, <1>5, Sizes
    <3> QED BY <1>3, <1>5, <2>2, <3>1, NearMembers
  <2>4. /\ ConsoleTypeOK' /\ MoreTypes' /\ Interrupted' = Interrupted
        /\ UNCHANGED <<video_mem, cursor_pos, attr_byte, crtc, text, index, word, port, keys,
                       expected>>
    <3>1. pc # "idle" /\ pc' \in Points /\ pc' # "paste" /\ pc \in EarlyPoints
      BY <1>1, <2>2 DEF Points, EarlyPoints, EdgePoints, DownPoints
    <3>2. dirty' \subseteq {"x", "y"}
      BY <1>2, <2>2
    <3> QED BY <1>1, <2>3, <3>1, <3>2, RegisterStep
  <2>5. Copies'
    BY <2>2, <2>3, <2>4
       DEF Copies, QuietPoints, RowPoints, EdgePoints, DownPoints, ScrollPoints, CopyPoints,
           PortPoints
  <2>6. Progress'
    <3>1. SUFFICES ASSUME expected # Interrupted PROVE Progress'
      BY <2>4 DEF Progress
    <3>2. Agree'
      BY <1>4, <2>2, <2>4, <3>1 DEF Agree
    <3>3. /\ expected' = ScrollScreen(video_mem, [x |-> 0, y |-> reg.y + 1])'
          /\ reg'.x = 0
      BY <1>4, <2>1, <2>2, <2>4, <3>1, StyleKept
    <3> QED
      BY <2>2, <3>2, <3>3
         DEF Progress, RowPoints, EdgePoints, DownPoints, ScrollPoints, CopyPoints,
             ArgumentPoints, PortPoints
  <2> QED BY <2>4, <2>5, <2>6 DEF ConsoleInv
<1>6. CASE ~(reg.x >= kNumCols)
  <2>1. /\ pc' = "scroll" /\ reg' = reg /\ dirty' = dirty /\ Wrap(reg) = reg
        /\ reg.x < kNumCols /\ ~(cursor_pos.x >= kNumCols)
    BY <1>1, <1>2, <1>3, <1>6, Sizes DEF Wrap
  <2>2. /\ ConsoleTypeOK' /\ MoreTypes' /\ Interrupted' = Interrupted
        /\ UNCHANGED <<video_mem, cursor_pos, attr_byte, crtc, text, index, word, port, keys,
                       expected>>
    <3>1. pc # "idle" /\ pc' \in Points /\ pc' # "paste" /\ pc \in EarlyPoints
      BY <1>1, <2>1 DEF Points, EarlyPoints, EdgePoints, ScrollPoints
    <3> QED BY <1>1, <1>2, <2>1, <3>1, RegisterStep
  <2>3. Copies'
    BY <1>3, <2>1, <2>2
       DEF Copies, QuietPoints, RowPoints, EdgePoints, DownPoints, ScrollPoints, CopyPoints,
           PortPoints
  <2>4. Progress'
    <3>1. SUFFICES ASSUME expected # Interrupted PROVE Progress'
      BY <2>2 DEF Progress
    <3>2. Agree'
      BY <1>4, <2>1, <2>2, <3>1 DEF Agree
    <3>3. expected' = ScrollScreen(video_mem, reg)'
      BY <1>4, <2>1, <2>2, <3>1, StyleKept
    <3> QED
      BY <2>1, <3>2, <3>3
         DEF Progress, RowPoints, EdgePoints, DownPoints, ScrollPoints, CopyPoints,
             ArgumentPoints, PortPoints
  <2> QED BY <2>2, <2>3, <2>4 DEF ConsoleInv
<1> QED BY <1>5, <1>6

LEMMA Down_Inv == ConsoleInv /\ Down => ConsoleInv'
<1> SUFFICES ASSUME ConsoleInv, Down PROVE ConsoleInv'
  OBVIOUS
<1>1. /\ \/ pc = "newline row" /\ pc' = "wrap"
         \/ pc = "down row" /\ pc' = "scroll"
      /\ Write("y", reg.y + 1)
      /\ UNCHANGED <<vars, text, index, word, port, keys, expected>>
  BY DEF Down, Goto, Write
<1>2. /\ dirty \subseteq {"x", "y"} /\ Copies /\ cursor_pos.x \in Nat
  BY CopyTypes DEF ConsoleInv
<1>3. reg.x < kNumCols /\ reg.y < kNumRows /\ cursor_pos.y < kNumRows
  <2>1. CASE pc = "newline row"
    <3>1. OnScreen(reg) /\ OnScreen(cursor_pos)
      BY <1>2, <2>1 DEF Copies, RowPoints
    <3> QED BY <3>1, NearScreen
  <2>2. CASE pc = "down row"
    BY <1>2, <2>2 DEF Copies, DownPoints
  <2> QED BY <1>1, <2>1, <2>2
<1>a. /\ pc = "newline row" => ~(cursor_pos.x >= kNumCols)
      /\ pc = "down row" => (cursor_pos.x >= kNumCols => "x" \in dirty)
  <2>1. CASE pc = "newline row"
    <3>1. cursor_pos.x < kNumCols
      BY <1>2, <2>1, NearScreen DEF Copies, RowPoints
    <3>2. ~(cursor_pos.x >= kNumCols)
      BY <1>2, <3>1, Sizes
    <3> QED BY <2>1, <3>2
  <2>2. CASE pc = "down row"
    BY <1>2, <2>2 DEF Copies, DownPoints
  <2> QED BY <1>1, <2>1, <2>2
<1>4. reg' = [x |-> reg.x, y |-> reg.y + 1] /\ dirty' = dirty \cup {"y"}
  BY <1>1, WriteY
<1>5. /\ Near(reg') /\ ~(reg.x >= kNumCols) /\ ~(cursor_pos.y >= kNumRows)
  <2>1. reg.x \in Nat /\ reg.y \in Nat /\ cursor_pos.y \in Nat
    BY CopyTypes
  <2>2. /\ reg.x \in 0 .. (kNumCols + kNumTab - 1) /\ reg.y + 1 \in 0 .. kNumRows
        /\ ~(reg.x >= kNumCols) /\ ~(cursor_pos.y >= kNumRows)
    BY <1>3, <2>1, Sizes
  <2> QED BY <1>4, <2>2, NearMembers
<1>6. /\ ConsoleTypeOK' /\ MoreTypes' /\ Interrupted' = Interrupted
      /\ UNCHANGED <<video_mem, cursor_pos, attr_byte, crtc, text, index, word, port, keys,
                     expected>>
  <2>1. pc # "idle" /\ pc' \in Points /\ pc' # "paste" /\ pc \in EarlyPoints
    BY <1>1 DEF Points, EarlyPoints, RowPoints, EdgePoints, DownPoints, ScrollPoints
  <2>2. dirty' \subseteq {"x", "y"}
    BY <1>2, <1>4
  <2> QED BY <1>1, <1>5, <2>1, <2>2, RegisterStep
<1>7. Copies'
  <2>1. CASE pc' = "wrap"
    BY <1>1, <1>3, <1>a, <1>4, <1>5, <1>6, <2>1
       DEF Copies, QuietPoints, RowPoints, EdgePoints, DownPoints, ScrollPoints, CopyPoints,
           PortPoints
  <2>2. CASE pc' = "scroll"
    BY <1>1, <1>3, <1>a, <1>4, <1>5, <1>6, <2>2
       DEF Copies, QuietPoints, RowPoints, EdgePoints, DownPoints, ScrollPoints, CopyPoints,
           PortPoints
  <2> QED BY <1>1, <2>1, <2>2
<1>8. Progress'
  <2>1. SUFFICES ASSUME expected # Interrupted PROVE Progress'
    BY <1>6 DEF Progress
  <2>2. /\ expected = ScrollScreen(video_mem, [x |-> 0, y |-> reg.y + 1])
        /\ reg.x = 0 /\ Agree
    BY <1>1, <2>1 DEF ConsoleInv, Progress, RowPoints, DownPoints
  <2>3. Agree'
    BY <1>4, <1>6, <2>2 DEF Agree
  <2>4. reg' = [x |-> 0, y |-> reg.y + 1] /\ Wrap(reg') = reg'
    BY <1>4, <2>2, Sizes DEF Wrap
  <2>5. /\ expected' = ScrollScreen(video_mem, reg)'
        /\ expected' = ScrollScreen(video_mem, Wrap(reg))'
    BY <1>6, <2>2, <2>4, StyleKept
  <2> QED
    BY <1>1, <2>3, <2>5
       DEF Progress, RowPoints, EdgePoints, DownPoints, ScrollPoints, CopyPoints,
           ArgumentPoints, PortPoints
<1> QED BY <1>6, <1>7, <1>8 DEF ConsoleInv

LEMMA TestRow_Inv == ConsoleInv /\ TestRow => ConsoleInv'
<1> SUFFICES ASSUME ConsoleInv, TestRow PROVE ConsoleInv'
  OBVIOUS
<1>1. /\ pc = "last line" /\ pc' = (IF reg.y < kNumRows THEN "column argument" ELSE "copy")
      /\ UNCHANGED <<reg, dirty>>
      /\ UNCHANGED <<vars, text, index, word, port, keys, expected>>
  BY DEF TestRow, Goto
<1>2. /\ Near(reg) /\ reg \in [x : Nat, y : Nat] /\ dirty \subseteq {"x", "y"}
      /\ reg.x \in Nat /\ reg.y \in Nat /\ cursor_pos.x \in Nat /\ cursor_pos.y \in Nat
      /\ video_mem \in [Cells -> Cell]
  BY CopyTypes, NearScreen, OtherTypes
<1>3. /\ reg.x < kNumCols /\ (cursor_pos.x >= kNumCols => "x" \in dirty)
      /\ reg.y < kNumRows => ~(cursor_pos.y >= kNumRows)
  <2>1. /\ reg.x < kNumCols /\ (cursor_pos.x >= kNumCols => "x" \in dirty)
        /\ cursor_pos.y >= kNumRows => reg.y >= kNumRows
    BY <1>1 DEF ConsoleInv, Copies, ScrollPoints
  <2> QED BY <1>2, <2>1, Sizes
<1>4. /\ ConsoleTypeOK' /\ MoreTypes' /\ Interrupted' = Interrupted
      /\ UNCHANGED <<video_mem, cursor_pos, attr_byte, crtc, text, index, word, port, keys,
                     expected>>
  <2>1. pc # "idle" /\ pc' \in Points /\ pc' # "paste" /\ pc \in EarlyPoints
    BY <1>1 DEF Points, EarlyPoints, ScrollPoints, CopyPoints, ArgumentPoints
  <2> QED BY <1>1, <1>2, <2>1, RegisterStep
<1>5. Copies'
  BY <1>1, <1>3, <1>4
     DEF Copies, QuietPoints, RowPoints, EdgePoints, DownPoints, ScrollPoints, CopyPoints,
         PortPoints
<1>6. Progress'
  <2>1. SUFFICES ASSUME expected # Interrupted PROVE Progress'
    BY <1>4 DEF Progress
  <2>2. expected = ScrollScreen(video_mem, reg) /\ Agree /\ index = 0
    BY <1>1, <2>1, OtherTypes DEF ConsoleInv, Progress, ScrollPoints, EarlyPoints
  <2>3. Agree'
    BY <1>1, <1>4, <2>2 DEF Agree
  <2>4. /\ reg.y < kNumRows => expected = [mem |-> video_mem, pos |-> reg]
        /\ ~(reg.y < kNumRows) =>
             expected = [mem |-> ScrolledFrom(index, video_mem),
                         pos |-> [x |-> reg.x, y |-> kNumRows - 1]]
    BY <1>2, <2>2, ScrollScreenIs
  <2>5. ScrolledFrom(index, video_mem)' = ScrolledFrom(index, video_mem)
    BY <1>4, StyleKept
  <2> QED
    BY <1>1, <1>4, <2>3, <2>4, <2>5
       DEF Progress, RowPoints, EdgePoints, DownPoints, ScrollPoints, CopyPoints,
           ArgumentPoints, PortPoints
<1> QED BY <1>4, <1>5, <1>6 DEF ConsoleInv

\* The number of cells, and where a loop of ScrollScreen reads.
LEMMA CellCount ==
  /\ kNumRows * kNumCols \in Nat \ {0}
  /\ \A i \in Nat : i < kNumRows * kNumCols =>
       /\ i \in Cells /\ i + 1 \in 0 .. (kNumRows * kNumCols)
       /\ i < LastMoved => i + kNumCols \in Cells
<1>1. kNumCols * 0 + kNumCols <= kNumCols * kNumRows /\ kNumCols * 0 = 0
  BY Sizes, ProductLess
<1>2. /\ LastMoved = kNumCols * kNumRows - kNumCols /\ Cells = 0 .. (kNumCols * kNumRows - 1)
      /\ kNumRows * kNumCols = kNumCols * kNumRows
  BY Sizes DEF LastMoved, Cells
<1> QED BY <1>1, <1>2, Sizes

LEMMA CopyCell_Inv == ConsoleInv /\ CopyCell => ConsoleInv'
<1> SUFFICES ASSUME ConsoleInv, CopyCell PROVE ConsoleInv'
  OBVIOUS
<1>1. /\ pc = "copy" /\ pc' = "paste" /\ index < kNumRows * kNumCols
      /\ word' = IF index < LastMoved THEN video_mem[index + kNumCols] ELSE Space
      /\ UNCHANGED <<video_mem, cursor_pos, attr_byte, crtc, text, reg, dirty, index, port,
                     keys, expected>>
  BY DEF CopyCell, Goto, vars
<1>2. /\ video_mem \in [Cells -> Cell] /\ index \in Nat
      /\ index \in Cells /\ (index < LastMoved => index + kNumCols \in Cells)
  BY <1>1, OtherTypes, CellCount
<1>3. ConsoleTypeOK' /\ MoreTypes'
  <2>1. word' \in Cell
    BY <1>1, <1>2, SpaceType, ConsolePrintable
  <2>2. pc' \in Points /\ pc' \notin EarlyPoints /\ pc # "idle"
    BY <1>1 DEF Points, CopyPoints, EarlyPoints, RowPoints, EdgePoints, DownPoints, ScrollPoints
  <2> QED BY <1>1, <1>2, <2>1, <2>2, CopyTypes, OtherTypes, TypesKept
<1>4. Copies'
  BY <1>1
     DEF ConsoleInv, Copies, QuietPoints, RowPoints, EdgePoints, DownPoints, ScrollPoints,
         CopyPoints, PortPoints
<1>5. Progress'
  <2>1. SUFFICES ASSUME expected # Interrupted PROVE Progress'
    BY <1>1 DEF Progress, Interrupted
  <2>2. /\ expected = [mem |-> ScrolledFrom(index, video_mem),
                       pos |-> [x |-> reg.x, y |-> kNumRows - 1]]
        /\ Agree
    BY <1>1, <2>1 DEF ConsoleInv, Progress, CopyPoints
  <2>3. Agree' /\ Space' = Space
        /\ ScrolledFrom(index, video_mem)' = ScrolledFrom(index, video_mem)
    BY <1>1, <2>2, StyleKept DEF Agree
  <2>4. word' = (IF index < LastMoved THEN video_mem[index + kNumCols] ELSE Space)'
    BY <1>1, <2>3 DEF LastMoved
  <2> QED
    BY <1>1, <2>2, <2>3, <2>4
       DEF Progress, RowPoints, EdgePoints, DownPoints, ScrollPoints, CopyPoints,
           ArgumentPoints, PortPoints
<1> QED BY <1>3, <1>4, <1>5 DEF ConsoleInv

LEMMA PasteCell_Inv == ConsoleInv /\ PasteCell => ConsoleInv'
<1> SUFFICES ASSUME ConsoleInv, PasteCell PROVE ConsoleInv'
  OBVIOUS
<1>1. /\ pc = "paste" /\ pc' = "copy" /\ index' = index + 1
      /\ video_mem' = [video_mem EXCEPT ![index] = word]
      /\ UNCHANGED <<cursor_pos, attr_byte, crtc, text, reg, dirty, word, port, keys, expected>>
  BY DEF PasteCell, Goto
<1>2. /\ video_mem \in [Cells -> Cell] /\ word \in Cell
      /\ index \in Cells /\ index + 1 \in 0 .. (kNumRows * kNumCols)
  <2>1. index \in Cells
    BY <1>1 DEF ConsoleInv, MoreTypes
  <2>2. index \in Nat /\ index < kNumRows * kNumCols
    BY <2>1, CellCount DEF Cells
  <2> QED BY <2>1, <2>2, OtherTypes, CellCount
<1>3. ConsoleTypeOK' /\ MoreTypes'
  <2>1. video_mem' \in [Cells -> Cell]
    BY <1>1, <1>2
  <2>2. pc' \in Points /\ pc' \notin EarlyPoints /\ pc' # "paste" /\ pc # "idle"
    BY <1>1 DEF Points, CopyPoints, EarlyPoints, RowPoints, EdgePoints, DownPoints, ScrollPoints
  <2> QED BY <1>1, <1>2, <2>1, <2>2, CopyTypes, OtherTypes, TypesKept
<1>4. Copies'
  BY <1>1
     DEF ConsoleInv, Copies, QuietPoints, RowPoints, EdgePoints, DownPoints, ScrollPoints,
         CopyPoints, PortPoints
<1>5. Progress'
  <2>1. SUFFICES ASSUME expected # Interrupted PROVE Progress'
    BY <1>1 DEF Progress, Interrupted
  <2>2. /\ expected = [mem |-> ScrolledFrom(index, video_mem),
                       pos |-> [x |-> reg.x, y |-> kNumRows - 1]]
        /\ word = (IF index < LastMoved THEN video_mem[index + kNumCols] ELSE Space)
        /\ Agree
    BY <1>1, <2>1 DEF ConsoleInv, Progress, CopyPoints
  <2>3. ScrolledFrom(index, video_mem)' = ScrolledFrom(index, video_mem)
    <3>1. ScrolledFrom(index, video_mem)' = ScrolledFrom(index', video_mem')
      BY <1>1, StyleKept
    <3>2. ScrolledFrom(index + 1, [video_mem EXCEPT ![index] = word])
            = ScrolledFrom(index, video_mem)
      BY <1>2, <2>2, ScrolledFromNext
    <3> QED BY <1>1, <3>1, <3>2
  <2>4. Agree'
    BY <1>1, <2>2 DEF Agree
  <2> QED
    BY <1>1, <2>2, <2>3, <2>4
       DEF Progress, RowPoints, EdgePoints, DownPoints, ScrollPoints, CopyPoints,
           ArgumentPoints, PortPoints
<1> QED BY <1>3, <1>4, <1>5 DEF ConsoleInv

LEMMA EndScroll_Inv == ConsoleInv /\ EndScroll => ConsoleInv'
<1> SUFFICES ASSUME ConsoleInv, EndScroll PROVE ConsoleInv'
  OBVIOUS
<1>1. /\ pc = "copy" /\ pc' = "column argument" /\ index = kNumRows * kNumCols
      /\ Write("y", kNumRows - 1)
      /\ UNCHANGED <<vars, text, index, word, port, keys, expected>>
  BY DEF EndScroll, Goto, Write, ScrolledRow
<1>2. /\ Near(reg) /\ dirty \subseteq {"x", "y"} /\ reg.x \in Nat
      /\ video_mem \in [Cells -> Cell]
      /\ reg.x < kNumCols /\ (cursor_pos.x >= kNumCols => "x" \in dirty)
  BY <1>1, CopyTypes, OtherTypes DEF ConsoleInv, Copies, CopyPoints
<1>3. reg' = [x |-> reg.x, y |-> kNumRows - 1] /\ dirty' = dirty \cup {"y"}
  BY <1>1, WriteY
<1>4. Near(reg') /\ kNumRows - 1 < kNumRows
  <2>1. /\ reg.x \in 0 .. (kNumCols + kNumTab - 1) /\ kNumRows - 1 \in 0 .. kNumRows
        /\ kNumRows - 1 < kNumRows
    BY <1>2, Sizes
  <2> QED BY <1>3, <2>1, NearMembers
<1>5. /\ ConsoleTypeOK' /\ MoreTypes' /\ Interrupted' = Interrupted
      /\ UNCHANGED <<video_mem, cursor_pos, attr_byte, crtc, text, index, word, port, keys,
                     expected>>
  <2>1. pc # "idle" /\ pc' \in Points /\ pc' # "paste" /\ pc' \notin EarlyPoints
    BY <1>1 DEF Points, ArgumentPoints, EarlyPoints, RowPoints, EdgePoints, DownPoints,
                ScrollPoints
  <2>2. dirty' \subseteq {"x", "y"}
    BY <1>2, <1>3
  <2> QED BY <1>1, <1>4, <2>1, <2>2, RegisterStep
<1>6. Copies'
  BY <1>1, <1>2, <1>3, <1>4, <1>5
     DEF Copies, QuietPoints, RowPoints, EdgePoints, DownPoints, ScrollPoints, CopyPoints,
         PortPoints
<1>7. Progress'
  <2>1. SUFFICES ASSUME expected # Interrupted PROVE Progress'
    BY <1>5 DEF Progress
  <2>2. /\ expected = [mem |-> ScrolledFrom(index, video_mem),
                       pos |-> [x |-> reg.x, y |-> kNumRows - 1]]
        /\ Agree
    BY <1>1, <2>1 DEF ConsoleInv, Progress, CopyPoints
  <2>3. Agree'
    BY <1>3, <1>5, <2>2 DEF Agree
  <2>4. expected' = [mem |-> video_mem', pos |-> reg']
    BY <1>1, <1>2, <1>3, <1>5, <2>2, ScrolledFromEnds
  <2> QED
    BY <1>1, <2>3, <2>4
       DEF Progress, RowPoints, EdgePoints, DownPoints, ScrollPoints, CopyPoints,
           ArgumentPoints, PortPoints
<1> QED BY <1>5, <1>6, <1>7 DEF ConsoleInv

LEMMA StoreRow_Inv == ConsoleInv /\ StoreRow => ConsoleInv'
<1> SUFFICES ASSUME ConsoleInv, StoreRow PROVE ConsoleInv'
  OBVIOUS
<1>1. pc = "store row"
  BY DEF StoreRow, Goto
<1>2. /\ Near(reg) /\ OnScreen(reg) /\ Valid(reg.y, reg.x) /\ Near(cursor_pos)
      /\ reg.x < kNumCols /\ reg.y < kNumRows /\ dirty \subseteq {"x", "y"}
  BY <1>1, CopyTypes, NearScreen DEF ConsoleInv, Copies
<1>3. /\ pc' = "store column" /\ cursor_pos' = [cursor_pos EXCEPT !.y = reg.y]
      /\ dirty' = dirty \ {"y"}
      /\ UNCHANGED <<text, video_mem, attr_byte, crtc, reg, index, word, port, keys, expected>>
  BY <1>2 DEF StoreRow, Goto
<1>4. /\ cursor_pos' = [x |-> cursor_pos.x, y |-> reg.y] /\ Near(cursor_pos')
      /\ dirty' \subseteq {"x"}
  <2>1. cursor_pos' = [x |-> cursor_pos.x, y |-> reg.y]
    BY <1>3, CopyTypes
  <2>2. Near(cursor_pos')
    BY <1>2, <2>1 DEF Near, Position
  <2> QED BY <1>2, <1>3, <2>1, <2>2
<1>5. ConsoleTypeOK' /\ MoreTypes'
  <2>1. pc' \in Points /\ pc' \notin EarlyPoints /\ pc' # "paste" /\ pc # "idle"
    BY <1>1, <1>3 DEF Points, ArgumentPoints, EarlyPoints, RowPoints, EdgePoints, DownPoints,
                      ScrollPoints
  <2> QED BY <1>2, <1>3, <1>4, <2>1, OtherTypes, TypesKept
<1>6. Copies'
  BY <1>2, <1>3, <1>4
     DEF Copies, QuietPoints, RowPoints, EdgePoints, DownPoints, ScrollPoints, CopyPoints,
         PortPoints
<1>7. Progress'
  <2>1. SUFFICES ASSUME expected # Interrupted PROVE Progress'
    BY <1>3 DEF Progress, Interrupted
  <2>2. expected = [mem |-> video_mem, pos |-> reg] /\ Agree
    BY <1>1, <2>1 DEF ConsoleInv, Progress, ArgumentPoints
  <2>3. Agree'
    BY <1>3, <1>4, <2>2 DEF Agree
  <2> QED
    BY <1>3, <2>2, <2>3
       DEF Progress, RowPoints, EdgePoints, DownPoints, ScrollPoints, CopyPoints,
           ArgumentPoints, PortPoints
<1> QED BY <1>5, <1>6, <1>7 DEF ConsoleInv

LEMMA StoreColumn_Inv == ConsoleInv /\ StoreColumn => ConsoleInv'
<1> SUFFICES ASSUME ConsoleInv, StoreColumn PROVE ConsoleInv'
  OBVIOUS
<1>1. /\ pc = "store column" /\ pc' = "command high"
      /\ cursor_pos' = [cursor_pos EXCEPT !.x = reg.x] /\ dirty' = dirty \ {"x"}
      /\ UNCHANGED <<video_mem, attr_byte, crtc, text, reg, index, word, port, keys, expected>>
  BY DEF StoreColumn, Goto
<1>2. /\ Near(reg) /\ OnScreen(reg) /\ Near(cursor_pos) /\ cursor_pos.y < kNumRows
      /\ dirty \subseteq {"x"} /\ reg.x < kNumCols
  BY <1>1, CopyTypes, NearScreen DEF ConsoleInv, Copies
<1>3. cursor_pos' = [x |-> reg.x, y |-> cursor_pos.y] /\ OnScreen(cursor_pos')
  <2>1. cursor_pos' = [x |-> reg.x, y |-> cursor_pos.y]
    BY <1>1, CopyTypes
  <2>2. Near(cursor_pos')
    BY <1>2, <2>1 DEF Near, Position
  <2> QED BY <1>2, <2>1, <2>2, NearScreen
<1>4. dirty' = {}
  BY <1>1, <1>2
<1>5. ConsoleTypeOK' /\ MoreTypes'
  <2>1. pc' \in Points /\ pc' \notin EarlyPoints /\ pc' # "paste" /\ pc # "idle"
    BY <1>1 DEF Points, QuietPoints, PortPoints, EarlyPoints, RowPoints, EdgePoints, DownPoints,
                ScrollPoints
  <2>2. Near(cursor_pos') /\ dirty' \subseteq {"x", "y"}
    BY <1>3, <1>4, NearScreen
  <2> QED BY <1>1, <1>2, <2>1, <2>2, OtherTypes, TypesKept
<1>6. Copies'
  BY <1>1, <1>2, <1>3, <1>4
     DEF Copies, RowPoints, EdgePoints, DownPoints, ScrollPoints, CopyPoints
<1>7. Progress'
  <2>1. SUFFICES ASSUME expected # Interrupted PROVE Progress'
    BY <1>1 DEF Progress, Interrupted
  <2>2. expected = [mem |-> video_mem, pos |-> reg] /\ Agree
    BY <1>1, <2>1 DEF ConsoleInv, Progress, ArgumentPoints
  <2>3. Agree'
    BY <1>1, <1>2, <1>3, <2>2 DEF Agree
  <2> QED
    BY <1>1, <2>2, <2>3
       DEF Progress, RowPoints, EdgePoints, DownPoints, ScrollPoints, CopyPoints,
           ArgumentPoints, PortPoints
<1> QED BY <1>5, <1>6, <1>7 DEF ConsoleInv

LEMMA Command_Inv == ConsoleInv /\ Command => ConsoleInv'
<1> SUFFICES ASSUME ConsoleInv, Command PROVE ConsoleInv'
  OBVIOUS
<1>1. /\ \/ pc = "command high" /\ pc' = "data high" /\ port' = "high"
         \/ pc = "command low" /\ pc' = "data low" /\ port' = "low"
      /\ UNCHANGED <<video_mem, cursor_pos, attr_byte, crtc, text, reg, dirty, index, word,
                     keys, expected>>
  BY DEF Command, Goto, vars
<1>2. dirty = {} /\ OnScreen(reg) /\ OnScreen(cursor_pos)
  BY <1>1, QuietCopies DEF QuietPoints, PortPoints
<1>3. ConsoleTypeOK' /\ MoreTypes'
  <2>1. /\ pc' \in Points /\ pc' \notin EarlyPoints /\ pc' # "paste" /\ pc # "idle"
        /\ port' \in {"high", "low"}
    BY <1>1 DEF Points, QuietPoints, PortPoints, EarlyPoints, RowPoints, EdgePoints, DownPoints,
                ScrollPoints
  <2> QED BY <1>1, <2>1, CopyTypes, OtherTypes, TypesKept
<1>4. Copies'
  BY <1>1, <1>2 DEF Copies, RowPoints, EdgePoints, DownPoints, ScrollPoints, CopyPoints
<1>5. Progress'
  <2>1. SUFFICES ASSUME expected # Interrupted PROVE Progress'
    BY <1>1 DEF Progress, Interrupted
  <2>2. /\ expected = [mem |-> video_mem, pos |-> reg] /\ Agree
        /\ pc = "command low" => crtc.high = Registers(reg.y, reg.x).high
    BY <1>1, <2>1 DEF ConsoleInv, Progress, PortPoints
  <2>3. Agree'
    BY <1>1, <2>2 DEF Agree
  <2> QED
    BY <1>1, <2>2, <2>3
       DEF Progress, RowPoints, EdgePoints, DownPoints, ScrollPoints, CopyPoints,
           ArgumentPoints, PortPoints
<1> QED BY <1>3, <1>4, <1>5 DEF ConsoleInv

LEMMA Data_Inv == ConsoleInv /\ Data => ConsoleInv'
<1> SUFFICES ASSUME ConsoleInv, Data PROVE ConsoleInv'
  OBVIOUS
<1> DEFINE regs == Registers(reg.y, reg.x)
<1>1. /\ \/ /\ pc = "data high" /\ pc' = "command low"
            /\ crtc' = [crtc EXCEPT ![port] = regs.high] /\ text' = text
         \/ /\ pc = "data low" /\ pc' = "idle"
            /\ crtc' = [crtc EXCEPT ![port] = regs.low] /\ text' = Tail(text)
      /\ UNCHANGED <<video_mem, cursor_pos, attr_byte, reg, dirty, index, word, port, keys,
                     expected>>
  BY DEF Data, Goto
<1>2. dirty = {} /\ OnScreen(reg) /\ OnScreen(cursor_pos)
  BY <1>1, QuietCopies DEF QuietPoints, PortPoints
<1>3. regs \in [high : 0 .. (ByteMod - 1), low : 0 .. (ByteMod - 1)]
  BY <1>2, RegistersOf DEF OnScreen
<1>4. /\ crtc \in [high : 0 .. (ByteMod - 1), low : 0 .. (ByteMod - 1)]
      /\ port \in {"high", "low"} /\ text \in Seq(Glyphs \cup (Controls \ {"BS"}))
      /\ text # <<>>
  BY <1>1 DEF ConsoleInv, ConsoleTypeOK, MoreTypes
<1> HIDE DEF regs
<1>5. crtc' \in [high : 0 .. (ByteMod - 1), low : 0 .. (ByteMod - 1)]
  <2>1. regs.high \in 0 .. (ByteMod - 1) /\ regs.low \in 0 .. (ByteMod - 1)
    BY <1>3
  <2> QED BY <1>1, <1>4, <2>1
<1>6. text' \in Seq(Glyphs \cup (Controls \ {"BS"})) /\ (pc' # "idle" => text' # <<>>)
  <2>1. Tail(text) \in Seq(Glyphs \cup (Controls \ {"BS"}))
    BY <1>4
  <2>2. \/ pc' = "command low" /\ text' = text
        \/ pc' = "idle" /\ text' = Tail(text)
    BY <1>1
  <2> QED BY <1>4, <2>1, <2>2
<1>7. ConsoleTypeOK'
  BY <1>1, <1>5 DEF ConsoleInv, ConsoleTypeOK
<1>8. MoreTypes'
  <2>1. pc' \in Points /\ pc' \notin EarlyPoints /\ pc' # "paste"
    BY <1>1 DEF Points, QuietPoints, PortPoints, EarlyPoints, RowPoints, EdgePoints, DownPoints,
                ScrollPoints
  <2> QED BY <1>1, <1>6, <2>1 DEF ConsoleInv, MoreTypes
<1>9. Copies'
  BY <1>1, <1>2 DEF Copies, RowPoints, EdgePoints, DownPoints, ScrollPoints, CopyPoints
<1>10. Progress'
  <2>1. SUFFICES ASSUME expected # Interrupted PROVE Progress'
    BY <1>1 DEF Progress, Interrupted
  <2>2. expected = [mem |-> video_mem, pos |-> reg] /\ Agree
    BY <1>1, <2>1 DEF ConsoleInv, Progress, PortPoints
  <2>3. reg = cursor_pos /\ Agree'
    BY <1>1, <1>2, <2>2, CopyTypes DEF Agree
  <2>4. CASE pc = "data high"
    <3>1. port = "high"
      BY <2>1, <2>4 DEF ConsoleInv, Progress
    <3>2. crtc'.high = regs.high
      BY <1>1, <1>4, <2>4, <3>1
    <3> QED
      BY <1>1, <2>2, <2>3, <2>4, <3>2
         DEF Progress, RowPoints, EdgePoints, DownPoints, ScrollPoints, CopyPoints,
             ArgumentPoints, PortPoints, regs
  <2>5. CASE pc = "data low"
    <3>1. port = "low" /\ crtc.high = regs.high
      BY <2>1, <2>5 DEF ConsoleInv, Progress, regs
    <3>2. crtc' = [high |-> regs.high, low |-> regs.low]
      BY <1>1, <1>4, <2>5, <3>1
    <3>3. crtc' = regs
      BY <1>3, <3>2
    <3> QED
      BY <1>1, <2>2, <2>3, <2>5, <3>3
         DEF Progress, RowPoints, EdgePoints, DownPoints, ScrollPoints, CopyPoints,
             ArgumentPoints, PortPoints, regs
  <2> QED BY <1>1, <2>4, <2>5
<1> QED BY <1>7, <1>8, <1>9, <1>10 DEF ConsoleInv

\* A register's copy may go to memory at any point: memory may be where it is.
LEMMA Store_Inv ==
  ASSUME ConsoleInv, NEW f \in {"x", "y"}, Store(f)
  PROVE  ConsoleInv'
<1>1. /\ f \in dirty /\ cursor_pos' = [cursor_pos EXCEPT ![f] = reg[f]]
      /\ dirty' = dirty \ {f}
      /\ UNCHANGED <<video_mem, attr_byte, crtc, pc, text, reg, index, word, port, keys,
                     expected>>
  BY DEF Store
<1>2. /\ Near(cursor_pos) /\ Near(reg) /\ dirty \subseteq {"x", "y"} /\ Copies
      /\ cursor_pos = [x |-> cursor_pos.x, y |-> cursor_pos.y]
      /\ cursor_pos.x \in Nat /\ cursor_pos.y \in Nat /\ reg.x \in Nat /\ reg.y \in Nat
  BY CopyTypes DEF ConsoleInv
<1>3. \/ f = "x" /\ cursor_pos' = [x |-> reg.x, y |-> cursor_pos.y]
      \/ f = "y" /\ cursor_pos' = [x |-> cursor_pos.x, y |-> reg.y]
  <2>1. CASE f = "x"
    BY <1>1, <1>2, <2>1
  <2>2. CASE f = "y"
    BY <1>1, <1>2, <2>2
  <2> QED BY <2>1, <2>2
<1>4. /\ Near(cursor_pos') /\ dirty' \subseteq {"x", "y"} /\ pc \notin QuietPoints
      /\ OnScreen(reg) /\ OnScreen(cursor_pos) => OnScreen(cursor_pos')
  <2>1. Near(cursor_pos')
    BY <1>2, <1>3 DEF Near, Position
  <2>2. OnScreen(reg) /\ OnScreen(cursor_pos) => OnScreen(cursor_pos')
    BY <1>3 DEF OnScreen
  <2>3. dirty' \subseteq {"x", "y"} /\ pc \notin QuietPoints
    BY <1>1, <1>2 DEF Copies
  <2> QED BY <2>1, <2>2, <2>3
<1>5. ConsoleTypeOK' /\ MoreTypes'
  <2>1. pc # "idle" /\ pc \in Points /\ (pc = "paste" => index \in Cells)
    BY <1>4 DEF QuietPoints, ConsoleInv, MoreTypes
  <2> QED BY <1>1, <1>2, <1>4, <2>1, OtherTypes, TypesKept
<1>6. Copies'
  <2>1. CASE f = "x"
    <3>1. /\ cursor_pos'.x = reg.x /\ cursor_pos'.y = cursor_pos.y /\ dirty' = dirty \ {"x"}
      BY <1>1, <1>3, <2>1
    <3>2. reg.x < kNumCols => ~(reg.x >= kNumCols)
      BY <1>2, Sizes
    <3> QED BY <1>1, <1>2, <1>4, <3>1, <3>2 DEF Copies
  <2>2. CASE f = "y"
    <3>1. /\ cursor_pos'.x = cursor_pos.x /\ cursor_pos'.y = reg.y /\ dirty' = dirty \ {"y"}
      BY <1>1, <1>3, <2>2
    <3>2. reg.y < kNumRows => ~(reg.y >= kNumRows)
      BY <1>2, Sizes
    <3> QED BY <1>1, <1>2, <1>4, <3>1, <3>2 DEF Copies
  <2> QED BY <2>1, <2>2
<1>7. Progress'
  <2>1. SUFFICES ASSUME expected # Interrupted PROVE Progress'
    BY <1>1 DEF Progress, Interrupted
  <2>2. pc \notin {"idle", "column", "cell", "step", "advance"} \cup PortPoints
    BY <1>4 DEF QuietPoints
  <2>3. Agree'
    BY <1>1, <1>3, <2>1, <2>2 DEF ConsoleInv, Progress, Agree
  <2>4. Char' = Char /\ Space' = Space
    BY <1>1, StyleKept DEF Char
  <2>5. ScrolledFrom(index, video_mem)' = ScrolledFrom(index, video_mem)
        /\ LastMoved' = LastMoved
    BY <1>1, StyleKept DEF LastMoved
  <2> QED
    BY <1>1, <2>1, <2>2, <2>3, <2>4, <2>5, StyleKept DEF ConsoleInv, Progress
<1> QED BY <1>5, <1>6, <1>7 DEF ConsoleInv

-----------------------------------------------------------------------------
(***************************************************************************)
(* A key in between, and the theorems.                                     *)
(***************************************************************************)
LEMMA KeyLands ==
  ASSUME ConsoleInv, NEW c \in KeyChars, Key(c)
  PROVE  /\ video_mem' \in [Cells -> Cell]
         /\ OnScreen(cursor_pos')
         /\ crtc' \in [high : 0 .. (ByteMod - 1), low : 0 .. (ByteMod - 1)]
         /\ Printed(c) = [mem |-> video_mem', pos |-> cursor_pos']
         /\ crtc' = Registers(cursor_pos'.y, cursor_pos'.x)
         /\ CursorShown'
<1>1. c \in Glyphs \cup Controls /\ PrintChar(c)
  BY ConsoleAssumption DEF Key
<1>2. Printable
  BY ConsolePrintable
<1>3. /\ video_mem' = Printed(c).mem /\ cursor_pos' = Printed(c).pos
      /\ OnScreen(cursor_pos') /\ CursorShown'
      /\ crtc' \in [high : 0 .. (ByteMod - 1), low : 0 .. (ByteMod - 1)]
      /\ crtc' = Registers(Printed(c).pos.y, Printed(c).pos.x)
  BY <1>1, <1>2, PrintCharMoves
<1>4. Printed(c).mem \in [Cells -> Cell]
  BY <1>1, <1>2, PrintedType
<1>5. \E mem, pos : Printed(c) = [mem |-> mem, pos |-> pos]
  BY DEF Printed, ScrollScreen
<1>6. Printed(c) = [mem |-> Printed(c).mem, pos |-> Printed(c).pos]
  BY <1>5
<1> QED BY <1>3, <1>4, <1>6

LEMMA Key_Inv ==
  ASSUME ConsoleInv, NEW c \in KeyChars, Key(c)
  PROVE  ConsoleInv'
<1>1. /\ keys < MaxKeys /\ keys' = keys + 1 /\ port' = "low"
      /\ expected' = IF pc = "idle" THEN Printed(c) ELSE Interrupted
      /\ UNCHANGED <<attr_byte, text, pc, reg, dirty, index, word>>
  BY DEF Key, PrintChar
<1>2. /\ video_mem' \in [Cells -> Cell]
      /\ OnScreen(cursor_pos') /\ Near(cursor_pos')
      /\ crtc' \in [high : 0 .. (ByteMod - 1), low : 0 .. (ByteMod - 1)]
      /\ Printed(c) = [mem |-> video_mem', pos |-> cursor_pos']
      /\ crtc' = Registers(cursor_pos'.y, cursor_pos'.x)
  BY KeyLands, NearScreen
<1>3. keys' \in 0 .. MaxKeys
  BY <1>1, ConsoleAssumption DEF ConsoleInv, ConsoleTypeOK
<1>4. ConsoleTypeOK' /\ MoreTypes'
  <2>1. /\ reg \in Position(kNumCols + kNumTab - 1, kNumRows)
        /\ index \in 0 .. (kNumRows * kNumCols) /\ dirty \subseteq {"x", "y"} /\ word \in Cell
    BY DEF ConsoleInv, ConsoleTypeOK
  <2>2. ConsoleTypeOK'
    BY <1>1, <1>2, <1>3, <2>1 DEF ConsoleTypeOK, Near
  <2> QED BY <1>1, <2>2 DEF ConsoleInv, MoreTypes
<1>5. Copies'
  <2>1. /\ ~(cursor_pos'.x >= kNumCols) /\ ~(cursor_pos'.y >= kNumRows)
        /\ cursor_pos'.y < kNumRows
    BY <1>2, Sizes DEF OnScreen
  <2> QED BY <1>1, <1>2, <2>1 DEF ConsoleInv, Copies
<1>6. Progress'
  <2>1. CASE pc = "idle"
    BY <1>1, <1>2, <2>1
       DEF Progress, RowPoints, EdgePoints, DownPoints, ScrollPoints, CopyPoints,
           ArgumentPoints, PortPoints
  <2>2. CASE pc # "idle"
    <3>1. expected' = Interrupted /\ Interrupted' = Interrupted
      BY <1>1, <2>2 DEF Interrupted
    <3> QED BY <3>1 DEF Progress
  <2> QED BY <2>1, <2>2
<1> QED BY <1>4, <1>5, <1>6 DEF ConsoleInv

LEMMA ConsoleStutter_Inv == ConsoleInv /\ UNCHANGED consoleVars => ConsoleInv'
<1> SUFFICES ASSUME ConsoleInv, UNCHANGED consoleVars PROVE ConsoleInv'
  OBVIOUS
<1>1. UNCHANGED <<video_mem, cursor_pos, attr_byte, crtc, text, pc, reg, dirty, index, word,
                  port, keys, expected>>
  BY DEF consoleVars, vars
<1>2. Char' = Char /\ Space' = Space /\ Interrupted' = Interrupted
  BY <1>1 DEF Char, Space, Interrupted
<1>3. ConsoleTypeOK' /\ MoreTypes'
  BY <1>1 DEF ConsoleInv, ConsoleTypeOK, MoreTypes
<1>4. Copies'
  BY <1>1 DEF ConsoleInv, Copies
<1>5. Printed(Char)' = Printed(Char) /\ (Agree => Agree')
  BY <1>1, PrintedKept DEF Agree
<1>6. Progress'
  BY <1>1, <1>2, <1>5, StyleKept DEF ConsoleInv, Progress
<1> QED BY <1>3, <1>4, <1>6 DEF ConsoleInv

LEMMA ConsoleInit_Inv == ConsoleInit => ConsoleInv
<1> SUFFICES ASSUME ConsoleInit PROVE ConsoleInv
  OBVIOUS
<1>1. /\ video_mem = [i \in Cells |-> [char |-> " ", attr |-> AttrByte(kWhite, kBlack)]]
      /\ OnScreen(cursor_pos) /\ attr_byte = AttrByte(kWhite, kBlack)
      /\ crtc = Registers(cursor_pos.y, cursor_pos.x) /\ text \in Texts
      /\ pc = "idle" /\ reg = cursor_pos /\ dirty = {} /\ index = 0 /\ word = Space
      /\ port = "low" /\ keys = 0 /\ expected = [mem |-> video_mem, pos |-> cursor_pos]
  BY DEF ConsoleInit, OnScreen
<1>2. attr_byte \in Attrs
  BY <1>1, AttrTypes
<1>3. video_mem \in [Cells -> Cell] /\ word \in Cell
  BY <1>1, <1>2, GlyphsAssumption DEF Cell, Space
<1>4. crtc \in [high : 0 .. (ByteMod - 1), low : 0 .. (ByteMod - 1)]
  BY <1>1, RegistersOf DEF OnScreen
<1>5. Near(cursor_pos) /\ Near(reg)
  BY <1>1, NearScreen
<1>6. 0 \in 0 .. (kNumRows * kNumCols) /\ 0 \in 0 .. MaxKeys
  BY Sizes, ConsoleAssumption
<1>7. ConsoleTypeOK
  BY <1>1, <1>3, <1>4, <1>5, <1>6 DEF ConsoleTypeOK, Near
<1>8. MoreTypes
  <2>1. pc \in Points /\ pc # "paste"
    BY <1>1 DEF Points, QuietPoints
  <2> QED BY <1>1, <1>2, <2>1, ConsoleAssumption DEF MoreTypes
<1>9. Copies
  BY <1>1 DEF Copies, RowPoints, EdgePoints, DownPoints, ScrollPoints, CopyPoints
<1>10. Progress
  BY <1>1
     DEF Progress, RowPoints, EdgePoints, DownPoints, ScrollPoints, CopyPoints,
         ArgumentPoints, PortPoints
<1> QED BY <1>7, <1>8, <1>9, <1>10 DEF ConsoleInv

LEMMA ConsoleNext_Inv == ConsoleInv /\ [ConsoleNext]_consoleVars => ConsoleInv'
<1>1. ConsoleInv /\ KernelMain => ConsoleInv'
  BY LoadRow_Inv, LoadColumn_Inv, PutGlyph_Inv, ReadColumn_Inv, ReadRow_Inv, Advance_Inv,
     WrapLine_Inv, Down_Inv, TestRow_Inv, CopyCell_Inv, PasteCell_Inv, EndScroll_Inv,
     StoreRow_Inv, StoreColumn_Inv, Command_Inv, Data_Inv, Store_Inv DEF KernelMain
<1>2. ConsoleInv /\ Halted => ConsoleInv'
  BY ConsoleStutter_Inv DEF Halted
<1> QED BY <1>1, <1>2, Key_Inv, ConsoleStutter_Inv DEF ConsoleNext

\* Every access of kernel_main's PrintChar, every store the build puts off and every key
\* keep the inductive invariant.
THEOREM ConsoleInvariance == ConsoleSpec => []ConsoleInv
<1>1. ConsoleInit => ConsoleInv
  BY ConsoleInit_Inv
<1>2. ConsoleInv /\ [ConsoleNext]_consoleVars => ConsoleInv'
  BY ConsoleNext_Inv
<1> QED BY <1>1, <1>2, PTL DEF ConsoleSpec

\* However keys interrupt PrintChar and whenever the build loads and stores the cursor,
\* it is never further past an edge than a tab stop, for texts without a backspace.
THEOREM CursorNearScreen == ConsoleSpec => []ConsoleTypeOK
<1>1. ConsoleInv => ConsoleTypeOK
  BY DEF ConsoleInv
<1> QED BY <1>1, ConsoleInvariance, PTL

\* Whenever PrintChar has stored the cursor or returned, it is on the screen, for texts
\* without a backspace and whichever members of the cursor the build keeps in registers.
THEOREM CursorAlwaysReturns == ConsoleSpec => []CursorReturns
<1>1. ConsoleInv => CursorReturns
  BY QuietCopies, NearScreen DEF CursorReturns, QuietPoints, PortPoints
<1> QED BY <1>1, ConsoleInvariance, PTL

\* A PrintChar that no key interrupts does what the atomic one does, access by access,
\* whatever interruptions of the characters before it left behind.
THEOREM UninterruptedPrintCharIsAtomic == ConsoleSpec => []UninterruptedIsAtomic
<1>1. ConsoleInv => UninterruptedIsAtomic
  BY DEF ConsoleInv, Progress, UninterruptedIsAtomic
<1> QED BY <1>1, ConsoleInvariance, PTL

\* A key, a backspace too, leaves the cursor of the display where the next character
\* goes, from any point at which it can interrupt the printing of such a text.
THEOREM KeyRepairsCursor == ConsoleSpec => KeyShowsCursor
<1>1. ConsoleInv /\ [ConsoleNext]_consoleVars => [keys' # keys => CursorShown']_consoleVars
  <2> SUFFICES ASSUME ConsoleInv, [ConsoleNext]_consoleVars, keys' # keys
               PROVE  CursorShown'
    OBVIOUS
  <2>1. ~KernelMain
    BY DEF KernelMain, LoadRow, LoadColumn, PutGlyph, ReadColumn, ReadRow, Read, Advance,
           WrapLine, Down, Write, TestRow, CopyCell, PasteCell, EndScroll, StoreRow,
           StoreColumn, Command, Data, Store
  <2>2. ~UNCHANGED consoleVars
    BY DEF consoleVars
  <2>3. PICK c \in KeyChars : Key(c)
    BY <2>1, <2>2 DEF ConsoleNext, Halted
  <2> QED BY <2>3, KeyLands
<1> QED BY <1>1, ConsoleInvariance, PTL DEF ConsoleSpec, KeyShowsCursor
=============================================================================
