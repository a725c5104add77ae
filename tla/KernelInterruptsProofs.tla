----------------------- MODULE KernelInterruptsProofs -----------------------
(***************************************************************************)
(* Theorems about kernel_main and its interrupts, for every mask the BIOS  *)
(* may leave, every layout and any number of keys.                         *)
(***************************************************************************)
EXTENDS KernelInterrupts, FiniteSetTheorems, TLAPS

-----------------------------------------------------------------------------
(***************************************************************************)
(* The inductive invariant.                                                *)
(***************************************************************************)

\* kernel_main before it accepts interrupts, and behind pic::Init.
BeforeTable == {"magic", "meminfo", "stopped", "idt"}
BeforeSti   == BeforeTable \cup {"sti"}
AfterPic    == {"mask", "setmask", "unmask", "clearmask", "frames", "halt"}

\* An interrupt is accepted only while none is handled and there are gates.
Stacked ==
  /\ iflag => handlers = <<>>
  /\ pc \in BeforeSti => ~iflag /\ handlers = <<>>
  /\ idt = IF pc \in BeforeTable THEN {} ELSE IsrVectors \cup IrqVectors

Stepped ==
  /\ pc = "words" => step \in 1 .. 8
  /\ pc = "restore" => step \in 1 .. 2
  /\ pc \in {"mask", "setmask"} => step \in 0 .. 7

\* pic::Init has written all words before word k.
Written(k) == pc \in AfterPic \cup {"restore"} \/ (pc = "words" /\ step >= k)

\* How far the initialisation of the chips has come.
Remapped ==
  /\ master.icw = IF pc # "words" \/ step \in {1, 8} THEN 0
                  ELSE IF step <= 3 THEN 2 ELSE IF step <= 5 THEN 3 ELSE 4
  /\ slave.icw = IF pc # "words" \/ step <= 2 THEN 0
                 ELSE IF step <= 4 THEN 2 ELSE IF step <= 6 THEN 3 ELSE 4
  /\ master.base = IF Written(4) THEN kDefaultMasterOffset ELSE {3}
  /\ slave.base = IF Written(5) THEN kDefaultSlaveOffset ELSE {4, 5, 6}

\* The masks while they are saved, cleared, restored and set.
MasksKept ==
  /\ ~Written(3) => slave.imr = bios[2]
  /\ Written(1) => saved[2] = bios[2]
  /\ pc \in AfterPic => slave.imr = bios[2]
  /\ pc \in {"mask", "setmask"} => \A line \in 0 .. 7 : line < step => line \in master.imr
  /\ pc = "setmask" => value = master.imr
  /\ pc \in {"unmask", "clearmask"} => master.imr = Lines
  /\ pc = "clearmask" => value = Lines
  /\ pc \in {"frames", "halt"} => master.imr = Lines \ {kKeyboard}

\* The handler on the stack is at one of the given points.
At(points) == handlers # <<>> /\ handlers[1].at \in points

\* The keyboard is in service, and no line of higher priority, up to the EOI.
InService ==
  At({"read", "eoi"}) => kKeyboard \in master.isr /\ 0 \notin master.isr

\* How many codes have been dealt with: those loaded, but for one in the buffer and
\* one in the handler's hands.
Done == loaded - (IF full THEN 1 ELSE 0) - (IF At({"eoi", "print"}) THEN 1 ELSE 0)

KeysDone ==
  /\ kKeyboard \in master.irr => full
  /\ At({"read"}) => full /\ kKeyboard \notin master.irr
  /\ Done \in 0 .. Len(typed)
  /\ At({"eoi", "print"}) => handlers[1].scan_code = typed[Done + 1]
  /\ ShownAre(Done)

KernelInv ==
  /\ TypeOK
  /\ Stacked
  /\ Stepped
  /\ Remapped
  /\ MasksKept
  /\ InService
  /\ KeysDone

-----------------------------------------------------------------------------
(***************************************************************************)
(* The chips.                                                              *)
(***************************************************************************)
LEMMA MinLine ==
  ASSUME NEW S \in Byte, S # {}
  PROVE  Min(S) \in S /\ \A line \in S : Min(S) <= line
<1>1. S \subseteq 0 .. 7
  BY DEF Byte, Lines
<1>2. \E x \in S : \A y \in S : x <= y
  <2>1. SUFFICES ASSUME \A x \in S : \E y \in S : y < x PROVE FALSE
    BY <1>1
  <2>2. 0 \notin S /\ 1 \notin S /\ 2 \notin S /\ 3 \notin S
    BY <1>1, <2>1
  <2>3. 4 \notin S /\ 5 \notin S /\ 6 \notin S /\ 7 \notin S
    BY <1>1, <2>1, <2>2
  <2>4. PICK x \in S : TRUE
    OBVIOUS
  <2>5. x \in 0 .. 7
    BY <1>1
  <2> QED BY <2>2, <2>3, <2>4, <2>5
<1> QED BY <1>2 DEF Min

\* Which fields an access changes.
LEMMA EdgeFields ==
  ASSUME NEW chip \in Chip, NEW line \in Lines
  PROVE  /\ Edge(chip, line) \in Chip
         /\ Edge(chip, line) = [chip EXCEPT !.irr = chip.irr \cup {line}]
  BY DEF Edge, Chip, Byte

LEMMA AcknowledgeFields ==
  ASSUME NEW chip \in Chip, NEW line \in Lines
  PROVE  /\ Acknowledge(chip, line) \in Chip
         /\ Acknowledge(chip, line).irr = chip.irr \ {line}
         /\ Acknowledge(chip, line).isr = chip.isr \cup {line}
         /\ Acknowledge(chip, line).imr = chip.imr
         /\ Acknowledge(chip, line).icw = chip.icw
         /\ Acknowledge(chip, line).base = chip.base
  BY DEF Acknowledge, Chip, Byte

LEMMA Icw1Fields ==
  ASSUME NEW chip \in Chip
  PROVE  /\ WriteCommand(chip, kIcw1) \in Chip
         /\ WriteCommand(chip, kIcw1).irr = {}
         /\ WriteCommand(chip, kIcw1).icw = 2
         /\ WriteCommand(chip, kIcw1).base = chip.base
  BY DEF WriteCommand, kIcw1, Chip, Byte

LEMMA EoiFields ==
  ASSUME NEW chip \in Chip
  PROVE  /\ WriteCommand(chip, kEoi) \in Chip
         /\ WriteCommand(chip, kEoi).irr = chip.irr
         /\ WriteCommand(chip, kEoi).imr = chip.imr
         /\ WriteCommand(chip, kEoi).icw = chip.icw
         /\ WriteCommand(chip, kEoi).base = chip.base
         /\ chip.isr # {} => WriteCommand(chip, kEoi).isr = chip.isr \ {Min(chip.isr)}
<1>1. 4 \notin kEoi /\ 5 \in kEoi
  BY DEF kEoi
<1> QED BY <1>1 DEF WriteCommand, Chip, Byte

LEMMA WriteDataFields ==
  ASSUME NEW chip \in Chip, NEW byte \in Byte
  PROVE  /\ WriteData(chip, byte) \in Chip
         /\ WriteData(chip, byte).irr = chip.irr
         /\ WriteData(chip, byte).isr = chip.isr
         /\ chip.icw = 0 => WriteData(chip, byte).imr = byte
         /\ chip.icw \in {2, 3, 4} => WriteData(chip, byte).imr = chip.imr
         /\ chip.icw = 2 => WriteData(chip, byte).base = byte
         /\ chip.icw \in {0, 3, 4} => WriteData(chip, byte).base = chip.base
         /\ chip.icw \in {0, 4} => WriteData(chip, byte).icw = 0
         /\ chip.icw = 2 => WriteData(chip, byte).icw = 3
         /\ chip.icw = 3 => WriteData(chip, byte).icw = 4
<1>1. chip.icw \in {0, 2, 3, 4} /\ chip = [imr |-> chip.imr, irr |-> chip.irr,
        isr |-> chip.isr, base |-> chip.base, icw |-> chip.icw]
  BY DEF Chip
<1>2. CASE chip.icw = 0
  BY <1>2 DEF WriteData, Chip
<1>3. CASE chip.icw = 2
  <2>1. WriteData(chip, byte) = [chip EXCEPT !.base = byte, !.icw = 3]
    BY <1>3 DEF WriteData
  <2>2. /\ WriteData(chip, byte) \in Chip
        /\ WriteData(chip, byte).irr = chip.irr
        /\ WriteData(chip, byte).isr = chip.isr
        /\ WriteData(chip, byte).imr = chip.imr
    BY <2>1 DEF Chip
  <2>3. /\ WriteData(chip, byte).base = byte
        /\ WriteData(chip, byte).icw = 3
    BY <2>1 DEF Chip
  <2> QED BY <2>2, <2>3, <1>3
<1>4. CASE chip.icw = 3
  BY <1>4 DEF WriteData, Chip
<1>5. CASE chip.icw = 4
  BY <1>5 DEF WriteData, Chip
<1> QED BY <1>1, <1>2, <1>3, <1>4, <1>5

LEMMA Values ==
  /\ Value({3}) = 8 /\ Value({4, 5, 6}) = 112
  /\ Value(kDefaultMasterOffset) = 32 /\ Value(kDefaultSlaveOffset) = 40
  BY DEF Value, kDefaultMasterOffset, kDefaultSlaveOffset

-----------------------------------------------------------------------------
(***************************************************************************)
(* The steps of kernel_main.                                               *)
(***************************************************************************)

\* kernel_main runs while no handler does: what the handlers rely on is unchanged.
LEMMA NoHandlerDisturbed ==
  ASSUME KernelInv, Running, UNCHANGED <<handlers, kbdVars, shown>>,
         master.irr' \subseteq master.irr
  PROVE  InService' /\ KeysDone'
<1>1. handlers = <<>> /\ handlers' = <<>>
  BY DEF Running
<1>2. InService'
  BY <1>1 DEF InService, At
<1>3. Done' = Done /\ UNCHANGED <<typed, loaded, full, shown>>
  BY <1>1 DEF Done, At, kbdVars
<1>4. ShownAre(Done)'
  BY <1>3 DEF KernelInv, KeysDone, ShownAre, Showable
<1> QED BY <1>1, <1>2, <1>3, <1>4 DEF KernelInv, KeysDone, At

LEMMA Verify_Inv == KernelInv /\ VerifyBootLoader => KernelInv'
<1> SUFFICES ASSUME KernelInv, VerifyBootLoader PROVE KernelInv'
  OBVIOUS
<1>1. /\ pc \in {"magic", "meminfo"} /\ pc' \in {"meminfo", "idt", "stopped"}
      /\ UNCHANGED <<step, value, saved, idt, bios, iflag, chips, handlers, kbdVars, shown>>
      /\ Running
  BY DEF VerifyBootLoader
<1>2. UNCHANGED <<master, slave, typed, loaded, full>>
  BY <1>1 DEF chips, kbdVars
<1>3. TypeOK'
  BY <1>1, <1>2 DEF KernelInv, TypeOK, Locations
<1>4. Stacked' /\ Stepped'
  BY <1>1 DEF KernelInv, Stacked, Stepped, BeforeSti, BeforeTable
<1>5. Remapped' /\ MasksKept'
  BY <1>1, <1>2 DEF KernelInv, Remapped, MasksKept, Written, AfterPic
<1>6. InService' /\ KeysDone'
  BY <1>1, <1>2, NoHandlerDisturbed
<1> QED BY <1>3, <1>4, <1>5, <1>6 DEF KernelInv

LEMMA InitIdt_Inv == KernelInv /\ InitIdt => KernelInv'
<1> SUFFICES ASSUME KernelInv, InitIdt PROVE KernelInv'
  OBVIOUS
<1>1. /\ \/ /\ pc = "idt" /\ pc' = "sti" /\ iflag' = iflag
            /\ idt' = IsrVectors \cup IrqVectors
         \/ /\ pc = "sti" /\ pc' = "save1" /\ iflag' = TRUE /\ idt' = idt
      /\ UNCHANGED <<step, value, saved, bios, chips, handlers, kbdVars, shown>>
      /\ Running
  BY DEF InitIdt
<1>2. UNCHANGED <<master, slave, typed, loaded, full>>
  BY <1>1 DEF chips, kbdVars
<1>3. TypeOK'
  <2>1. idt' \subseteq 0 .. 255
    <3>1. IsrVectors \cup IrqVectors \subseteq 0 .. 255
      BY DEF IsrVectors, IrqVectors
    <3>2. idt \subseteq 0 .. 255
      BY DEF KernelInv, TypeOK
    <3> QED BY <1>1, <3>1, <3>2
  <2>2. iflag' \in BOOLEAN /\ pc' \in Locations /\ handlers' = <<>>
    BY <1>1 DEF KernelInv, TypeOK, Locations, Running
  <2> QED BY <1>1, <1>2, <2>1, <2>2 DEF KernelInv, TypeOK
<1>4. Stacked' /\ Stepped'
  BY <1>1 DEF KernelInv, Stacked, Stepped, BeforeSti, BeforeTable, Running
<1>5. Remapped' /\ MasksKept'
  BY <1>1, <1>2 DEF KernelInv, Remapped, MasksKept, Written, AfterPic
<1>6. InService' /\ KeysDone'
  BY <1>1, <1>2, NoHandlerDisturbed
<1> QED BY <1>3, <1>4, <1>5, <1>6 DEF KernelInv

LEMMA InitFrames_Inv == KernelInv /\ InitFrames => KernelInv'
<1> SUFFICES ASSUME KernelInv, InitFrames PROVE KernelInv'
  OBVIOUS
<1>1. /\ pc = "frames" /\ pc' = "halt"
      /\ UNCHANGED <<step, value, saved, idt, bios, iflag, chips, handlers, kbdVars, shown>>
      /\ Running
  BY DEF InitFrames
<1>2. UNCHANGED <<master, slave, typed, loaded, full>>
  BY <1>1 DEF chips, kbdVars
<1>3. TypeOK'
  BY <1>1, <1>2 DEF KernelInv, TypeOK, Locations
<1>4. Stacked' /\ Stepped'
  BY <1>1 DEF KernelInv, Stacked, Stepped, BeforeSti, BeforeTable
<1>5. Remapped' /\ MasksKept'
  BY <1>1, <1>2 DEF KernelInv, Remapped, MasksKept, Written, AfterPic
<1>6. InService' /\ KeysDone'
  BY <1>1, <1>2, NoHandlerDisturbed
<1> QED BY <1>3, <1>4, <1>5, <1>6 DEF KernelInv

\* One write of pic::Init to a chip, and what it changes.
LEMMA PicInit_Inv == KernelInv /\ PicInit => KernelInv'
<1> SUFFICES ASSUME KernelInv, PicInit PROVE KernelInv'
  OBVIOUS
<1>0. /\ Running
      /\ UNCHANGED <<value, loader, idt, bios, iflag, handlers, kbdVars, shown>>
      /\ UNCHANGED <<typed, loaded, full>>
  BY DEF PicInit, kbdVars
<1>a. /\ master \in Chip /\ slave \in Chip /\ saved \in Byte \X Byte
      /\ saved[1] \in Byte /\ saved[2] \in Byte
  BY DEF KernelInv, TypeOK
<1>b. saved' \in Byte \X Byte /\ step' \in 0 .. 8 /\ pc' \in Locations
        /\ master' \in Chip /\ slave' \in Chip
      => TypeOK'
  BY <1>0 DEF KernelInv, TypeOK
<1>1. CASE pc = "save1" /\ saved' = [saved EXCEPT ![1] = master.imr] /\ pc' = "save2"
           /\ UNCHANGED <<step, chips>>
  <2>1. UNCHANGED <<master, slave>>
    BY <1>1 DEF chips
  <2>2. saved' \in Byte \X Byte /\ saved'[2] = saved[2]
    BY <1>1, <1>a DEF Chip
  <2>3. TypeOK'
    BY <1>1, <1>a, <1>b, <2>1, <2>2 DEF KernelInv, TypeOK, Locations
  <2>4. Stacked' /\ Stepped'
    BY <1>0, <1>1 DEF KernelInv, Stacked, Stepped, BeforeSti, BeforeTable
  <2>5. Remapped' /\ MasksKept'
    BY <1>0, <1>1, <2>1 DEF KernelInv, Remapped, MasksKept, Written, AfterPic
  <2>6. InService' /\ KeysDone'
    BY <1>0, <2>1, NoHandlerDisturbed
  <2> QED BY <2>3, <2>4, <2>5, <2>6 DEF KernelInv
<1>2. CASE pc = "save2" /\ saved' = [saved EXCEPT ![2] = slave.imr] /\ pc' = "words"
           /\ step' = 1 /\ UNCHANGED chips
  <2>1. UNCHANGED <<master, slave>>
    BY <1>2 DEF chips
  <2>2. saved' \in Byte \X Byte /\ saved'[2] = slave.imr
    BY <1>2, <1>a DEF Chip
  <2>3. TypeOK'
    BY <1>2, <1>a, <1>b, <2>1, <2>2 DEF Locations
  <2>4. Stacked' /\ Stepped'
    BY <1>0, <1>2 DEF KernelInv, Stacked, Stepped, BeforeSti, BeforeTable
  <2>5. Remapped'
    BY <1>0, <1>2, <2>1 DEF KernelInv, Remapped, Written, AfterPic
  <2>6. MasksKept'
    BY <1>0, <1>2, <2>1, <2>2 DEF KernelInv, MasksKept, Written, AfterPic
  <2>7. InService' /\ KeysDone'
    BY <1>0, <2>1, NoHandlerDisturbed
  <2> QED BY <2>3, <2>4, <2>5, <2>6, <2>7 DEF KernelInv
<1>3. CASE pc = "words" /\ Outb(PicInitWords[step].port, PicInitWords[step].byte)
           /\ (IF step < Len(PicInitWords) THEN step' = step + 1 /\ UNCHANGED pc
               ELSE step' = 1 /\ pc' = "restore")
           /\ UNCHANGED saved
  <2>1. step \in 1 .. 8
    BY <1>3 DEF KernelInv, Stepped
  <2>2. Len(PicInitWords) = 8
    BY DEF PicInitWords
  <2>3. /\ pc' = IF step < 8 THEN "words" ELSE "restore"
        /\ step' = IF step < 8 THEN step + 1 ELSE 1
        /\ step' \in 1 .. 8
    BY <1>3, <2>1, <2>2
  <2>4. /\ kIcw1 \in Byte /\ kIcw48086 \in Byte /\ {2} \in Byte /\ {1} \in Byte
        /\ kDefaultMasterOffset \in Byte /\ kDefaultSlaveOffset \in Byte
    BY DEF kIcw1, kIcw48086, kDefaultMasterOffset, kDefaultSlaveOffset, Byte, Lines
  <2>5. /\ master' = CASE step = 1 -> WriteCommand(master, kIcw1)
                       [] step = 3 -> WriteData(master, kDefaultMasterOffset)
                       [] step = 5 -> WriteData(master, {2})
                       [] step = 7 -> WriteData(master, kIcw48086)
                       [] OTHER -> master
        /\ slave' = CASE step = 2 -> WriteCommand(slave, kIcw1)
                      [] step = 4 -> WriteData(slave, kDefaultSlaveOffset)
                      [] step = 6 -> WriteData(slave, {1})
                      [] step = 8 -> WriteData(slave, kIcw48086)
                      [] OTHER -> slave
    BY <1>3, <2>1 DEF PicInitWords, Outb
  <2>6. /\ master' \in Chip /\ slave' \in Chip
        /\ master'.irr \subseteq master.irr
    <3>1. \A chip \in Chip : /\ WriteCommand(chip, kIcw1) \in Chip
                             /\ WriteCommand(chip, kIcw1).irr \subseteq chip.irr
      BY Icw1Fields
    <3>2. \A chip \in Chip, byte \in Byte :
            WriteData(chip, byte) \in Chip /\ WriteData(chip, byte).irr = chip.irr
      BY WriteDataFields
    <3>3. master' \in Chip /\ master'.irr \subseteq master.irr
      BY <1>a, <2>4, <2>5, <3>1, <3>2
    <3>4. slave' \in Chip
      BY <1>a, <2>4, <2>5, <3>1, <3>2
    <3> QED BY <3>3, <3>4
  <2>7. TypeOK'
    BY <1>3, <1>a, <1>b, <2>3, <2>6 DEF Locations
  <2>8. Stacked' /\ Stepped'
    BY <1>0, <1>3, <2>1, <2>3 DEF KernelInv, Stacked, Stepped, BeforeSti, BeforeTable
  <2>9. Remapped'
    <3>1. /\ master.icw = IF step \in {1, 8} THEN 0
                          ELSE IF step <= 3 THEN 2 ELSE IF step <= 5 THEN 3 ELSE 4
          /\ slave.icw = IF step <= 2 THEN 0
                         ELSE IF step <= 4 THEN 2 ELSE IF step <= 6 THEN 3 ELSE 4
          /\ master.base = IF step >= 4 THEN kDefaultMasterOffset ELSE {3}
          /\ slave.base = IF step >= 5 THEN kDefaultSlaveOffset ELSE {4, 5, 6}
      BY <1>3 DEF KernelInv, Remapped, Written, AfterPic
    <3>2. /\ master'.icw = IF step = 7 \/ step = 8 THEN 0
                           ELSE IF step <= 2 THEN 2 ELSE IF step <= 4 THEN 3 ELSE 4
          /\ master'.base = IF step >= 3 THEN kDefaultMasterOffset ELSE {3}
      <4>1. CASE step = 1
        BY <1>a, <2>5, <3>1, <4>1, Icw1Fields
      <4>2. CASE step = 3
        <5>1. master' = WriteData(master, kDefaultMasterOffset) /\ master.icw = 2
          BY <2>5, <3>1, <4>2
        <5>2. master'.base = kDefaultMasterOffset /\ master'.icw = 3
          BY <1>a, <2>4, <5>1, WriteDataFields
        <5> QED BY <5>2, <4>2
      <4>3. CASE step = 5
        <5>1. /\ master' = WriteData(master, {2}) /\ master.icw = 3
              /\ master.base = kDefaultMasterOffset
          BY <2>5, <3>1, <4>3
        <5>2. master'.base = kDefaultMasterOffset /\ master'.icw = 4
          BY <1>a, <2>4, <5>1, WriteDataFields
        <5> QED BY <5>2, <4>3
      <4>4. CASE step = 7
        <5>1. /\ master' = WriteData(master, kIcw48086) /\ master.icw = 4
              /\ master.base = kDefaultMasterOffset
          BY <2>5, <3>1, <4>4
        <5>2. master'.base = kDefaultMasterOffset /\ master'.icw = 0
          BY <1>a, <2>4, <5>1, WriteDataFields
        <5> QED BY <5>2, <4>4
      <4>5. CASE step \in {2, 4, 6, 8}
        <5>1. master' = master
          BY <2>5, <4>5
        <5> QED BY <5>1, <3>1, <4>5
      <4> QED BY <2>1, <4>1, <4>2, <4>3, <4>4, <4>5
    <3>3. /\ slave'.icw = IF step = 1 \/ step = 8 THEN 0
                          ELSE IF step <= 3 THEN 2 ELSE IF step <= 5 THEN 3 ELSE 4
          /\ slave'.base = IF step >= 4 THEN kDefaultSlaveOffset ELSE {4, 5, 6}
      <4>1. CASE step = 2
        BY <1>a, <2>5, <3>1, <4>1, Icw1Fields
      <4>2. CASE step = 4
        <5>1. slave' = WriteData(slave, kDefaultSlaveOffset) /\ slave.icw = 2
          BY <2>5, <3>1, <4>2
        <5>2. slave'.base = kDefaultSlaveOffset /\ slave'.icw = 3
          BY <1>a, <2>4, <5>1, WriteDataFields
        <5> QED BY <5>2, <4>2
      <4>3. CASE step = 6
        <5>1. /\ slave' = WriteData(slave, {1}) /\ slave.icw = 3
              /\ slave.base = kDefaultSlaveOffset
          BY <2>5, <3>1, <4>3
        <5>2. slave'.base = kDefaultSlaveOffset /\ slave'.icw = 4
          BY <1>a, <2>4, <5>1, WriteDataFields
        <5> QED BY <5>2, <4>3
      <4>4. CASE step = 8
        <5>1. /\ slave' = WriteData(slave, kIcw48086) /\ slave.icw = 4
              /\ slave.base = kDefaultSlaveOffset
          BY <2>5, <3>1, <4>4
        <5>2. slave'.base = kDefaultSlaveOffset /\ slave'.icw = 0
          BY <1>a, <2>4, <5>1, WriteDataFields
        <5> QED BY <5>2, <4>4
      <4>5. CASE step \in {1, 3, 5, 7}
        <5>1. slave' = slave
          BY <2>5, <4>5
        <5> QED BY <5>1, <3>1, <4>5
      <4> QED BY <2>1, <4>1, <4>2, <4>3, <4>4, <4>5
    <3>4. (Written(4)' <=> step >= 3) /\ (Written(5)' <=> step >= 4)
      BY <2>1, <2>3 DEF Written, AfterPic
    <3> QED BY <2>1, <2>3, <3>2, <3>3, <3>4 DEF Remapped
  <2>10. MasksKept'
    <3>1. step <= 2 => slave.imr = bios[2]
      BY <1>3, <2>1 DEF KernelInv, MasksKept, Written, AfterPic
    <3>2. saved[2] = bios[2]
      BY <1>3, <2>1 DEF KernelInv, MasksKept, Written
    <3>3. ~Written(3)' => step = 1
      BY <2>1, <2>3 DEF Written
    <3>4. step = 1 => slave' = slave
      BY <2>5
    <3> QED BY <1>0, <1>3, <2>3, <3>1, <3>2, <3>3, <3>4 DEF MasksKept, AfterPic
  <2>11. InService' /\ KeysDone'
    BY <1>0, <2>6, NoHandlerDisturbed
  <2> QED BY <2>7, <2>8, <2>9, <2>10, <2>11 DEF KernelInv
<1>4. CASE pc = "restore" /\ Outb(PicRestore[step].port, PicRestore[step].byte)
           /\ (IF step < Len(PicRestore) THEN step' = step + 1 /\ UNCHANGED pc
               ELSE step' = 0 /\ pc' = "mask")
           /\ UNCHANGED saved
  <2>1. step \in 1 .. 2 /\ Len(PicRestore) = 2
    BY <1>4 DEF KernelInv, Stepped, PicRestore
  <2>2. /\ pc' = IF step = 1 THEN "restore" ELSE "mask"
        /\ step' = IF step = 1 THEN 2 ELSE 0
    BY <1>4, <2>1
  <2>3. /\ master' = IF step = 1 THEN WriteData(master, saved[1]) ELSE master
        /\ slave' = IF step = 1 THEN slave ELSE WriteData(slave, saved[2])
    BY <1>4, <2>1 DEF PicRestore, Outb
  <2>4. /\ master' \in Chip /\ slave' \in Chip
        /\ master'.irr \subseteq master.irr
    BY <1>a, <2>3, WriteDataFields
  <2>5. TypeOK'
    BY <1>4, <1>a, <1>b, <2>2, <2>4 DEF Locations
  <2>6. Stacked' /\ Stepped'
    BY <1>0, <1>4, <2>1, <2>2 DEF KernelInv, Stacked, Stepped, BeforeSti, BeforeTable
  <2>7. /\ master.icw = 0 /\ slave.icw = 0
        /\ master.base = kDefaultMasterOffset /\ slave.base = kDefaultSlaveOffset
    BY <1>4 DEF KernelInv, Remapped, Written
  <2>8. /\ master'.icw = 0 /\ slave'.icw = 0
        /\ master'.base = kDefaultMasterOffset /\ slave'.base = kDefaultSlaveOffset
    BY <1>a, <2>3, <2>7, WriteDataFields
  <2>9. Remapped'
    BY <2>2, <2>8 DEF Remapped, Written, AfterPic
  <2>10. MasksKept'
    <3>1. saved[2] = bios[2]
      BY <1>4 DEF KernelInv, MasksKept, Written
    <3>2. step # 1 => slave'.imr = saved[2]
      BY <1>a, <2>3, <2>7, WriteDataFields
    <3> QED BY <1>0, <1>4, <2>1, <2>2, <3>1, <3>2 DEF MasksKept, Written, AfterPic
  <2>11. InService' /\ KeysDone'
    BY <1>0, <2>4, NoHandlerDisturbed
  <2> QED BY <2>5, <2>6, <2>9, <2>10, <2>11 DEF KernelInv
<1> QED BY <1>1, <1>2, <1>3, <1>4 DEF PicInit

LEMMA SetMask_Inv == KernelInv /\ SetMask => KernelInv'
<1> SUFFICES ASSUME KernelInv, SetMask PROVE KernelInv'
  OBVIOUS
<1>0. /\ Running /\ pc \in {"mask", "setmask"}
      /\ UNCHANGED <<saved, idt, bios, iflag, handlers, kbdVars, shown>>
      /\ UNCHANGED <<typed, loaded, full>>
  BY DEF SetMask, kbdVars
<1>a. /\ master \in Chip /\ slave \in Chip /\ value \in Byte
      /\ master.imr \in Byte
  BY DEF KernelInv, TypeOK, Chip
<1>b. step \in 0 .. 7 /\ DataPort(step) = "data1" /\ LineBit(step) = step
  BY <1>0 DEF KernelInv, Stepped, DataPort, LineBit
<1>c. value' \in Byte /\ step' \in 0 .. 8 /\ pc' \in Locations
        /\ master' \in Chip /\ slave' \in Chip
      => TypeOK'
  BY <1>0 DEF KernelInv, TypeOK
<1>d. /\ master.icw = 0 /\ slave.icw = 0
      /\ master.base = kDefaultMasterOffset /\ slave.base = kDefaultSlaveOffset
  BY <1>0 DEF KernelInv, Remapped, Written, AfterPic
<1>e. /\ \A line \in 0 .. 7 : line < step => line \in master.imr
      /\ slave.imr = bios[2] /\ saved[2] = bios[2]
  BY <1>0 DEF KernelInv, MasksKept, Written, AfterPic
<1>1. CASE pc = "mask" /\ value' = Inb(DataPort(step)) /\ pc' = "setmask"
           /\ UNCHANGED <<step, chips>>
  <2>1. UNCHANGED <<master, slave, step>> /\ value' = master.imr
    BY <1>1, <1>b DEF chips, Inb
  <2>2. TypeOK'
    BY <1>1, <1>a, <1>b, <1>c, <2>1 DEF Locations
  <2>3. Stacked' /\ Stepped'
    BY <1>0, <1>1, <1>b, <2>1 DEF KernelInv, Stacked, Stepped, BeforeSti, BeforeTable
  <2>4. Remapped'
    BY <1>1, <1>d, <2>1 DEF Remapped, Written, AfterPic
  <2>5. MasksKept'
    BY <1>0, <1>1, <1>e, <2>1 DEF MasksKept, Written, AfterPic
  <2>6. InService' /\ KeysDone'
    BY <1>0, <2>1, NoHandlerDisturbed
  <2> QED BY <2>2, <2>3, <2>4, <2>5, <2>6 DEF KernelInv
<1>2. CASE pc = "setmask" /\ Outb(DataPort(step), Masked(step))
           /\ step' = NextLine(step)
           /\ pc' = (IF step' < 8 THEN "mask" ELSE "unmask")
           /\ UNCHANGED value
  <2>1. /\ step' = step + 1
        /\ pc' = IF step = 7 THEN "unmask" ELSE "mask"
    BY <1>2, <1>b DEF NextLine
  <2>2. master' = WriteData(master, value \cup {step}) /\ slave' = slave
    BY <1>2, <1>b DEF Outb, Masked
  <2>3. value = master.imr
    BY <1>2 DEF KernelInv, MasksKept
  <2>4. value \cup {step} \in Byte
    BY <1>a, <1>b DEF Byte, Lines
  <2>5. /\ master' \in Chip /\ master'.irr = master.irr
        /\ master'.imr = master.imr \cup {step}
        /\ master'.icw = 0 /\ master'.base = kDefaultMasterOffset
    BY <1>a, <1>d, <2>2, <2>3, <2>4, WriteDataFields
  <2>6. TypeOK'
    BY <1>2, <1>a, <1>b, <1>c, <2>1, <2>2, <2>5 DEF Locations
  <2>7. Stacked' /\ Stepped'
    BY <1>0, <1>2, <1>b, <2>1 DEF KernelInv, Stacked, Stepped, BeforeSti, BeforeTable
  <2>8. Remapped'
    BY <1>d, <2>1, <2>2, <2>5 DEF Remapped, Written, AfterPic
  <2>9. \A line \in 0 .. 7 : line < step + 1 => line \in master'.imr
    BY <1>b, <1>e, <2>5
  <2>10. step = 7 => master'.imr = Lines
    <3>1. SUFFICES ASSUME step = 7 PROVE master'.imr = Lines
      OBVIOUS
    <3>2. \A line \in 0 .. 7 : line \in master'.imr
      BY <2>9, <3>1
    <3>3. master'.imr \subseteq 0 .. 7
      BY <2>5 DEF Chip, Byte, Lines
    <3> QED BY <3>2, <3>3 DEF Lines
  <2>11. MasksKept'
    BY <1>0, <1>b, <1>e, <2>1, <2>2, <2>9, <2>10 DEF MasksKept, Written, AfterPic
  <2>12. InService' /\ KeysDone'
    BY <1>0, <2>5, NoHandlerDisturbed
  <2> QED BY <2>6, <2>7, <2>8, <2>11, <2>12 DEF KernelInv
<1> QED BY <1>1, <1>2 DEF SetMask

LEMMA ClearMask_Inv == KernelInv /\ ClearMask => KernelInv'
<1> SUFFICES ASSUME KernelInv, ClearMask PROVE KernelInv'
  OBVIOUS
<1>0. /\ Running /\ pc \in {"unmask", "clearmask"}
      /\ UNCHANGED <<step, saved, idt, bios, iflag, handlers, kbdVars, shown>>
      /\ UNCHANGED <<typed, loaded, full>>
  BY DEF ClearMask, kbdVars
<1>a. /\ master \in Chip /\ slave \in Chip /\ value \in Byte
      /\ master.imr \in Byte
  BY DEF KernelInv, TypeOK, Chip
<1>b. DataPort(kKeyboard) = "data1" /\ LineBit(kKeyboard) = kKeyboard
  BY DEF DataPort, LineBit, kKeyboard
<1>c. value' \in Byte /\ pc' \in Locations /\ master' \in Chip /\ slave' \in Chip
      => TypeOK'
  BY <1>0 DEF KernelInv, TypeOK
<1>d. /\ master.icw = 0 /\ slave.icw = 0
      /\ master.base = kDefaultMasterOffset /\ slave.base = kDefaultSlaveOffset
  BY <1>0 DEF KernelInv, Remapped, Written, AfterPic
<1>e. /\ master.imr = Lines
      /\ slave.imr = bios[2] /\ saved[2] = bios[2]
  BY <1>0 DEF KernelInv, MasksKept, Written, AfterPic
<1>1. CASE pc = "unmask" /\ value' = Inb(DataPort(kKeyboard)) /\ pc' = "clearmask"
           /\ UNCHANGED chips
  <2>1. UNCHANGED <<master, slave>> /\ value' = master.imr
    BY <1>1, <1>b DEF chips, Inb
  <2>2. TypeOK'
    BY <1>1, <1>a, <1>c, <2>1 DEF Locations
  <2>3. Stacked' /\ Stepped'
    BY <1>0, <1>1 DEF KernelInv, Stacked, Stepped, BeforeSti, BeforeTable
  <2>4. Remapped'
    BY <1>1, <1>d, <2>1 DEF Remapped, Written, AfterPic
  <2>5. MasksKept'
    BY <1>0, <1>1, <1>e, <2>1 DEF MasksKept, Written, AfterPic
  <2>6. InService' /\ KeysDone'
    BY <1>0, <2>1, NoHandlerDisturbed
  <2> QED BY <2>2, <2>3, <2>4, <2>5, <2>6 DEF KernelInv
<1>2. CASE pc = "clearmask" /\ Outb(DataPort(kKeyboard), value \ {LineBit(kKeyboard)})
           /\ pc' = "frames" /\ UNCHANGED value
  <2>1. master' = WriteData(master, value \ {kKeyboard}) /\ slave' = slave
    BY <1>2, <1>b DEF Outb
  <2>2. value = Lines
    BY <1>2 DEF KernelInv, MasksKept
  <2>3. value \ {kKeyboard} \in Byte
    BY <1>a DEF Byte
  <2>4. /\ master' \in Chip /\ master'.irr = master.irr
        /\ master'.imr = Lines \ {kKeyboard}
        /\ master'.icw = 0 /\ master'.base = kDefaultMasterOffset
    BY <1>a, <1>d, <2>1, <2>2, <2>3, WriteDataFields
  <2>5. TypeOK'
    BY <1>2, <1>a, <1>c, <2>1, <2>4 DEF Locations
  <2>6. Stacked' /\ Stepped'
    BY <1>0, <1>2 DEF KernelInv, Stacked, Stepped, BeforeSti, BeforeTable
  <2>7. Remapped'
    BY <1>2, <1>d, <2>1, <2>4 DEF Remapped, Written, AfterPic
  <2>8. MasksKept'
    BY <1>0, <1>2, <1>e, <2>1, <2>4 DEF MasksKept, Written, AfterPic
  <2>9. InService' /\ KeysDone'
    BY <1>0, <2>4, NoHandlerDisturbed
  <2> QED BY <2>5, <2>6, <2>7, <2>8, <2>9 DEF KernelInv
<1> QED BY <1>1, <1>2 DEF ClearMask

-----------------------------------------------------------------------------
(***************************************************************************)
(* Interrupts.                                                             *)
(***************************************************************************)
LEMMA RequestFacts ==
  ASSUME NEW chip \in Chip, Requests(chip) # {}
  PROVE  /\ chip.icw = 0
         /\ Min(Requests(chip)) \in Lines
         /\ Min(Requests(chip)) \in chip.irr
         /\ \A other \in chip.isr : Min(Requests(chip)) < other
<1>1. chip.icw = 0
  BY DEF Requests
<1>2. Requests(chip) = {line \in chip.irr \ chip.imr : \A other \in chip.isr : line < other}
  BY <1>1 DEF Requests
<1>3. chip.irr \in Byte
  BY DEF Chip
<1>4. Requests(chip) \in Byte
  BY <1>2, <1>3 DEF Byte
<1>5. Min(Requests(chip)) \in Requests(chip)
  BY <1>4, MinLine
<1> QED BY <1>1, <1>2, <1>3, <1>5 DEF Byte

\* The vector an interrupt is taken through, for each state of the chips: that of
\* the keyboard only when its line goes into service behind no other, and one of an
\* exception only before the first word of pic::Init.
LEMMA InterruptTaken ==
  ASSUME KernelInv, Interrupt
  PROVE  /\ Running
         /\ master' \in Chip /\ slave' \in Chip
         /\ master'.icw = master.icw /\ slave'.icw = slave.icw
         /\ master'.base = master.base /\ slave'.base = slave.base
         /\ master'.imr = master.imr /\ slave'.imr = slave.imr
         /\ kKeyboard \in master'.irr => kKeyboard \in master.irr
         /\ pc \notin BeforeSti
         /\ \E taken \in idt :
              /\ handlers' = <<[at |-> HandlerEntry(taken), vector |-> taken,
                                scan_code |-> 0]>>
              /\ taken \in IsrVectors =>
                   pc \in {"save1", "save2"} \/ (pc = "words" /\ step = 1)
              /\ taken = 32 + kKeyboard =>
                   /\ kKeyboard \in master.irr /\ kKeyboard \notin master'.irr
                   /\ kKeyboard \in master'.isr /\ 0 \notin master'.isr
<1> DEFINE both    == WithSlave(master, slave)
           line    == Min(Requests(both))
           chained == line = Cascade /\ Requests(slave) # {}
           line2   == Min(Requests(slave))
           vector  == IF chained THEN Vector(slave, line2) ELSE Vector(master, line)
           taken   == IF vector \in idt THEN vector ELSE kNotPresent
<1>1. /\ iflag /\ Requests(both) # {}
      /\ master' = Acknowledge(both, line)
      /\ slave' = IF chained THEN Acknowledge(slave, line2) ELSE slave
      /\ handlers' = Append(handlers, [at |-> HandlerEntry(taken), vector |-> taken,
                                       scan_code |-> 0])
  BY DEF Interrupt
<1>2. master \in Chip /\ slave \in Chip /\ iflag \in BOOLEAN
  BY DEF KernelInv, TypeOK
<1>3. handlers = <<>> /\ pc \notin BeforeSti /\ idt = IsrVectors \cup IrqVectors
  BY <1>1, <1>2 DEF KernelInv, Stacked, BeforeSti
<1>4. /\ both \in Chip
      /\ both.isr = master.isr /\ both.imr = master.imr
      /\ both.icw = master.icw /\ both.base = master.base
      /\ \A l \in Lines : l # Cascade /\ l \in both.irr => l \in master.irr
  <2>1. Cascade \in Lines
    BY DEF Cascade, Lines
  <2>2. CASE Requests(slave) = {}
    BY <1>2, <2>2 DEF WithSlave
  <2>3. CASE Requests(slave) # {}
    <3>1. both = Edge(master, Cascade)
      BY <2>3 DEF WithSlave
    <3>2. both \in Chip /\ both = [master EXCEPT !.irr = master.irr \cup {Cascade}]
      BY <1>2, <2>1, <3>1, EdgeFields
    <3> HIDE DEF both
    <3> QED BY <1>2, <3>2 DEF Chip
  <2> QED BY <2>2, <2>3
<1>5. /\ both.icw = 0 /\ line \in Lines /\ line \in both.irr
      /\ \A other \in both.isr : line < other
  <2> HIDE DEF both
  <2> QED BY <1>1, <1>4, RequestFacts
<1>6. chained => slave.icw = 0 /\ line2 \in Lines
  BY <1>2, RequestFacts
<1>7. /\ master' \in Chip
      /\ master'.irr = both.irr \ {line}
      /\ master'.isr = both.isr \cup {line}
      /\ master'.imr = both.imr
      /\ master'.icw = both.icw
      /\ master'.base = both.base
  <2> HIDE DEF both, line
  <2> QED BY <1>1, <1>4, <1>5, AcknowledgeFields
<1>8. /\ slave' \in Chip /\ slave'.icw = slave.icw /\ slave'.base = slave.base
      /\ slave'.imr = slave.imr
  <2> HIDE DEF chained, line2
  <2> QED BY <1>1, <1>2, <1>6, AcknowledgeFields
<1>9. kKeyboard \in Lines /\ kKeyboard # Cascade
  BY DEF kKeyboard, Lines, Cascade
<1>10. kKeyboard \in master'.irr => kKeyboard \in master.irr
  BY <1>4, <1>7, <1>9
<1>11. taken \in idt
  <2>1. kNotPresent \in idt
    BY <1>3 DEF IsrVectors, kNotPresent
  <2> HIDE DEF vector
  <2> QED BY <2>1
<1>12. handlers' = <<[at |-> HandlerEntry(taken), vector |-> taken, scan_code |-> 0]>>
  <2> HIDE DEF taken
  <2> QED BY <1>1, <1>3
<1>13. /\ Vector(master, line) = 8 + line \/ Vector(master, line) = 32 + line
       /\ Vector(master, line) = 8 + line => ~Written(4)
       /\ chained => Vector(slave, line2) = 112 + line2 \/ Vector(slave, line2) = 40 + line2
       /\ chained /\ Vector(slave, line2) = 112 + line2 => ~Written(5)
  <2>1. /\ Written(4) => master.base = kDefaultMasterOffset
        /\ ~Written(4) => master.base = {3}
        /\ Written(5) => slave.base = kDefaultSlaveOffset
        /\ ~Written(5) => slave.base = {4, 5, 6}
    BY DEF KernelInv, Remapped
  <2> HIDE DEF line, line2, chained
  <2>2. line \in 0 .. 7 /\ (chained => line2 \in 0 .. 7)
    BY <1>5, <1>6 DEF Lines
  <2>3. Written(4) => Vector(master, line) = 32 + line
    BY <2>1, Values DEF Vector
  <2>4. ~Written(4) => Vector(master, line) = 8 + line
    BY <2>1, Values DEF Vector
  <2>5. Written(5) => Vector(slave, line2) = 40 + line2
    BY <2>1, Values DEF Vector
  <2>6. ~Written(5) => Vector(slave, line2) = 112 + line2
    BY <2>1, Values DEF Vector
  <2> QED BY <2>2, <2>3, <2>4, <2>5, <2>6
<1>14. line \in 0 .. 7 /\ (chained => line2 \in 0 .. 7)
  BY <1>5, <1>6 DEF Lines
<1>15. /\ taken \in IsrVectors => ~Written(4) \/ ~Written(5)
       /\ taken = 32 + kKeyboard => line = kKeyboard
  <2> DEFINE v1 == Vector(master, line)
             v2 == Vector(slave, line2)
  <2>0. /\ v1 = 8 + line \/ v1 = 32 + line
        /\ v1 = 8 + line => ~Written(4)
        /\ chained => v2 = 112 + line2 \/ v2 = 40 + line2
        /\ chained /\ v2 = 112 + line2 => ~Written(5)
    BY <1>13
  <2>1. taken = IF chained THEN (IF v2 \in idt THEN v2 ELSE 11)
                           ELSE (IF v1 \in idt THEN v1 ELSE 11)
    BY DEF kNotPresent
  <2>2. idt = 0 .. 47
    BY <1>3 DEF IsrVectors, IrqVectors
  <2> HIDE DEF v1, v2, taken, line, line2, chained
  <2>3. CASE chained
    <3>1. v2 = 40 + line2 => taken = 40 + line2
      BY <1>14, <2>1, <2>2, <2>3
    <3>2. v2 = 112 + line2 => taken = 11 /\ ~Written(5)
      BY <1>14, <2>0, <2>1, <2>2, <2>3
    <3> QED BY <1>14, <2>0, <2>3, <3>1, <3>2 DEF IsrVectors, kKeyboard
  <2>4. CASE ~chained
    <3>1. v1 = 32 + line => taken = 32 + line
      BY <1>14, <2>1, <2>2, <2>4
    <3>2. v1 = 8 + line => taken = 8 + line /\ ~Written(4)
      BY <1>14, <2>0, <2>1, <2>2, <2>4
    <3> QED BY <1>14, <2>0, <3>1, <3>2 DEF IsrVectors, kKeyboard
  <2> QED BY <2>3, <2>4
<1>16. taken \in IsrVectors => pc \in {"save1", "save2"} \/ (pc = "words" /\ step = 1)
  <2>1. master.icw = 0
    BY <1>4, <1>5
  <2>2. pc = "words" => step \in 1 .. 8
    BY DEF KernelInv, Stepped
  <2>3. pc = "words" /\ step < 5 => step = 1
    BY <2>1, <2>2 DEF KernelInv, Remapped
  <2>4. ~Written(4) \/ ~Written(5) =>
          pc \in {"save1", "save2"} \/ (pc = "words" /\ step < 5)
    BY <1>3, <2>2 DEF Written, AfterPic, BeforeSti, BeforeTable, KernelInv, TypeOK, Locations
  <2> QED BY <1>15, <2>3, <2>4
<1>17. taken = 32 + kKeyboard =>
         /\ kKeyboard \in master.irr /\ kKeyboard \notin master'.irr
         /\ kKeyboard \in master'.isr /\ 0 \notin master'.isr
  <2> HIDE DEF taken, line, both
  <2>1. line = kKeyboard => kKeyboard \in master.irr /\ kKeyboard \notin master'.irr
                            /\ kKeyboard \in master'.isr
    BY <1>4, <1>5, <1>7, <1>9
  <2>2. line = kKeyboard => 0 \notin master'.isr
    <3>1. ~(1 < 0)
      OBVIOUS
    <3> QED BY <1>5, <1>7, <3>1 DEF kKeyboard
  <2> QED BY <1>15, <2>1, <2>2
<1> HIDE DEF taken, both, line, line2, vector, chained
<1> QED BY <1>3, <1>4, <1>7, <1>8, <1>10, <1>11, <1>12, <1>16, <1>17 DEF Running

\* What interrupts and devices leave alone: kernel_main, and the registers of the
\* chips that only kernel_main writes.
LEMMA KernelUntouched ==
  ASSUME KernelInv, UNCHANGED <<kernelVars, bios>>,
         master'.icw = master.icw, slave'.icw = slave.icw,
         master'.base = master.base, slave'.base = slave.base,
         master'.imr = master.imr, slave'.imr = slave.imr
  PROVE  Stepped' /\ Remapped' /\ MasksKept'
<1>1. UNCHANGED <<pc, step, value, saved, idt>>
  BY DEF kernelVars
<1>2. Stepped'
  BY <1>1 DEF KernelInv, Stepped
<1>3. Remapped'
  BY <1>1 DEF KernelInv, Remapped, Written
<1>4. MasksKept'
  BY <1>1 DEF KernelInv, MasksKept, Written
<1> QED BY <1>2, <1>3, <1>4

\* The types of the variables a handler and a device do not write.
LEMMA TypesUntouched ==
  ASSUME KernelInv, UNCHANGED <<kernelVars, bios>>,
         iflag' \in BOOLEAN, master' \in Chip, slave' \in Chip,
         \/ handlers' = <<>>
         \/ \E at \in {"panic", "read", "eoi", "print", "default"},
               vector \in idt, code \in ScanCodes \cup {0} :
               handlers' = <<[at |-> at, vector |-> vector, scan_code |-> code]>>,
         typed' \in Seq(ScanCodes), loaded' \in 0 .. Len(typed'), full' \in BOOLEAN,
         shown' \in Seq(ScanCodes)
  PROVE  TypeOK'
<1>1. UNCHANGED <<pc, step, value, saved, idt>>
  BY DEF kernelVars
<1> QED BY <1>1 DEF KernelInv, TypeOK

LEMMA Interrupt_Inv == KernelInv /\ Interrupt => KernelInv'
<1> SUFFICES ASSUME KernelInv, Interrupt PROVE KernelInv'
  OBVIOUS
<1>1. /\ UNCHANGED <<kernelVars, bios, kbdVars, shown>> /\ iflag' = FALSE
      /\ UNCHANGED <<typed, loaded, full>> /\ UNCHANGED <<pc, step, idt>>
  BY DEF Interrupt, EntryFlag, kbdVars, kernelVars
<1>2. /\ handlers = <<>>
      /\ master' \in Chip /\ slave' \in Chip
      /\ master'.icw = master.icw /\ slave'.icw = slave.icw
      /\ master'.base = master.base /\ slave'.base = slave.base
      /\ master'.imr = master.imr /\ slave'.imr = slave.imr
      /\ kKeyboard \in master'.irr => kKeyboard \in master.irr
      /\ pc \notin BeforeSti
  BY InterruptTaken DEF Running
<1>3. PICK taken \in idt :
        /\ handlers' = <<[at |-> HandlerEntry(taken), vector |-> taken, scan_code |-> 0]>>
        /\ taken = 32 + kKeyboard =>
             /\ kKeyboard \in master.irr /\ kKeyboard \notin master'.irr
             /\ kKeyboard \in master'.isr /\ 0 \notin master'.isr
  BY InterruptTaken
<1>4. /\ HandlerEntry(taken) \in {"panic", "read", "default"}
      /\ HandlerEntry(taken) = "read" => taken = 32 + kKeyboard
  BY DEF HandlerEntry
<1>5. handlers' # <<>> /\ handlers'[1].at = HandlerEntry(taken)
  BY <1>3
<1>6. /\ typed \in Seq(ScanCodes) /\ loaded \in 0 .. Len(typed) /\ full \in BOOLEAN
      /\ shown \in Seq(ScanCodes)
  BY DEF KernelInv, TypeOK
<1>7. TypeOK'
  BY <1>1, <1>2, <1>3, <1>4, <1>6, TypesUntouched
<1>8. Stacked'
  BY <1>1, <1>2 DEF KernelInv, Stacked, BeforeSti
<1>9. Stepped' /\ Remapped' /\ MasksKept'
  BY <1>1, <1>2, KernelUntouched
<1>10. InService'
  BY <1>3, <1>4, <1>5 DEF InService, At
<1>11. KeysDone'
  <2>1. ~At({"eoi", "print"}) /\ ~At({"eoi", "print"})'
    BY <1>2, <1>4, <1>5 DEF At
  <2>2. Done' = Done
    BY <1>1, <2>1 DEF Done
  <2>3. kKeyboard \in master.irr => full
    BY DEF KernelInv, KeysDone
  <2>4. At({"read"})' => taken = 32 + kKeyboard
    BY <1>4, <1>5 DEF At
  <2>5. /\ kKeyboard \in master'.irr => full'
        /\ At({"read"})' => full' /\ kKeyboard \notin master'.irr
    BY <1>1, <1>2, <1>3, <2>3, <2>4
  <2>6. Done' \in 0 .. Len(typed') /\ ShownAre(Done)'
    BY <1>1, <2>2 DEF KernelInv, KeysDone, ShownAre, Showable
  <2> QED BY <2>1, <2>5, <2>6 DEF KeysDone
<1> QED BY <1>7, <1>8, <1>9, <1>10, <1>11 DEF KernelInv

-----------------------------------------------------------------------------
(***************************************************************************)
(* The handlers.                                                           *)
(***************************************************************************)

\* The one handler on the stack, and where it can be.
LEMMA OneHandler ==
  ASSUME KernelInv, NEW point, InHandler(point)
  PROVE  /\ Len(handlers) = 1 /\ Top = handlers[1] /\ handlers # <<>>
         /\ handlers[1].at = point
         /\ handlers[1].vector \in idt /\ handlers[1].scan_code \in ScanCodes \cup {0}
         /\ ~iflag /\ pc \notin BeforeSti
         /\ \A at, code : Continue(at, code) =>
              handlers' = <<[at |-> at, vector |-> handlers[1].vector,
                             scan_code |-> code]>>
         /\ SubSeq(handlers, 1, Len(handlers) - 1) = <<>>
<1>1. handlers # <<>> /\ Top.at = point
  BY DEF InHandler, Running
<1>2. PICK at0 \in {"panic", "read", "eoi", "print", "default"},
           vector0 \in idt, code0 \in ScanCodes \cup {0} :
           handlers = <<[at |-> at0, vector |-> vector0, scan_code |-> code0]>>
  BY <1>1 DEF KernelInv, TypeOK
<1>3. Len(handlers) = 1 /\ Top = handlers[1]
  BY <1>2 DEF Top
<1>4. handlers[1].vector = vector0 /\ handlers[1].scan_code = code0
  BY <1>2
<1>5. ~iflag /\ pc \notin BeforeSti
  BY <1>1 DEF KernelInv, Stacked
<1>6. ASSUME NEW at, NEW code, Continue(at, code)
      PROVE  handlers' = <<[at |-> at, vector |-> vector0, scan_code |-> code]>>
  <2> DEFINE old == [at |-> at0, vector |-> vector0, scan_code |-> code0]
             new == [at |-> at, vector |-> vector0, scan_code |-> code]
  <2>1. [old EXCEPT !.at = at, !.scan_code = code] = new
    <3>1. [old EXCEPT !.at = at] = [at |-> at, vector |-> vector0, scan_code |-> code0]
      OBVIOUS
    <3>2. [[at |-> at, vector |-> vector0, scan_code |-> code0] EXCEPT !.scan_code = code] = new
      OBVIOUS
    <3> QED BY <3>1, <3>2
  <2>2. handlers' = [handlers EXCEPT ![1] =
                       [handlers[1] EXCEPT !.at = at, !.scan_code = code]]
    BY <1>3, <1>6 DEF Continue
  <2>3. handlers = <<old>> /\ handlers[1] = old
    BY <1>2
  <2> HIDE DEF old, new
  <2>4. handlers' = [<<old>> EXCEPT ![1] = new]
    BY <2>1, <2>2, <2>3
  <2>5. [<<old>> EXCEPT ![1] = new] = <<new>>
    OBVIOUS
  <2> QED BY <2>4, <2>5 DEF new
<1>7. SubSeq(handlers, 1, Len(handlers) - 1) = <<>>
  BY <1>2, <1>3
<1> QED BY <1>1, <1>2, <1>3, <1>4, <1>5, <1>6, <1>7

LEMMA Read_Inv == KernelInv /\ ReadScanCode => KernelInv'
<1> SUFFICES ASSUME KernelInv, ReadScanCode PROVE KernelInv'
  OBVIOUS
<1>0. /\ InHandler("read") /\ full' = FALSE
      /\ Continue("eoi", IF loaded = 0 THEN 0 ELSE typed[loaded])
      /\ UNCHANGED <<kernelVars, bios, iflag, master, slave, typed, loaded, shown>>
      /\ UNCHANGED <<pc, idt>>
  BY DEF ReadScanCode, chips, kernelVars
<1>1. /\ handlers # <<>> /\ handlers[1].at = "read" /\ handlers[1].vector \in idt
      /\ ~iflag /\ pc \notin BeforeSti
  BY <1>0, OneHandler
<1>2. /\ At({"read"}) /\ At({"read", "eoi"}) /\ ~At({"eoi", "print"})
  BY <1>1 DEF At
<1>3. /\ full /\ kKeyboard \notin master.irr
      /\ kKeyboard \in master.isr /\ 0 \notin master.isr
  BY <1>2 DEF KernelInv, KeysDone, InService
<1>4. /\ typed \in Seq(ScanCodes) /\ loaded \in 0 .. Len(typed) /\ shown \in Seq(ScanCodes)
      /\ master \in Chip /\ slave \in Chip /\ iflag \in BOOLEAN
  BY DEF KernelInv, TypeOK
<1>5. Done = loaded - 1 /\ loaded \in 1 .. Len(typed)
  <2>1. Done = loaded - 1 - 0
    BY <1>2, <1>3 DEF Done
  <2>2. Done \in 0 .. Len(typed)
    BY DEF KernelInv, KeysDone
  <2> QED BY <1>4, <2>1, <2>2
<1>6. typed[loaded] \in ScanCodes
  BY <1>4, <1>5
<1>7. handlers' = <<[at |-> "eoi", vector |-> handlers[1].vector,
                     scan_code |-> typed[loaded]]>>
  BY <1>0, <1>5, OneHandler
<1>8. /\ handlers' # <<>> /\ handlers'[1].at = "eoi"
      /\ handlers'[1].scan_code = typed[loaded]
  BY <1>7
<1>9. TypeOK'
  BY <1>0, <1>1, <1>4, <1>6, <1>7, TypesUntouched
<1>10. Stacked'
  BY <1>0, <1>1 DEF KernelInv, Stacked, BeforeSti
<1>11. Stepped' /\ Remapped' /\ MasksKept'
  BY <1>0, KernelUntouched
<1>12. InService'
  BY <1>0, <1>3 DEF InService
<1>13. KeysDone'
  <2>1. At({"eoi", "print"})' /\ ~At({"read"})'
    BY <1>8 DEF At
  <2>2. Done' = loaded - 0 - 1
    BY <1>0, <2>1 DEF Done
  <2>3. Done' = Done /\ Done' + 1 = loaded
    BY <1>4, <1>5, <2>2
  <2>4. Done' \in 0 .. Len(typed') /\ ShownAre(Done)'
    BY <1>0, <2>3 DEF KernelInv, KeysDone, ShownAre, Showable
  <2> QED BY <1>0, <1>3, <1>8, <2>1, <2>3, <2>4 DEF KeysDone
<1> QED BY <1>9, <1>10, <1>11, <1>12, <1>13 DEF KernelInv

\* With the keyboard in service and the timer not, the keyboard's line is the one
\* a non-specific EOI retires.
LEMMA EoiLine ==
  ASSUME KernelInv, AcknowledgeScanCode
  PROVE  /\ kKeyboard \in master.isr
         /\ master' \in Chip /\ slave' = slave
         /\ master'.isr = master.isr \ {kKeyboard}
         /\ master'.irr = master.irr /\ master'.imr = master.imr
         /\ master'.icw = master.icw /\ master'.base = master.base
<1>1. InHandler("eoi") /\ SendEOI(kKeyboard)
  BY DEF AcknowledgeScanCode
<1>2. handlers # <<>> /\ handlers[1].at = "eoi"
  BY <1>1, OneHandler
<1>3. kKeyboard \in master.isr /\ 0 \notin master.isr
  BY <1>2 DEF KernelInv, InService, At
<1>4. master' = WriteCommand(master, kEoi) /\ slave' = slave
  BY <1>1 DEF SendEOI, kKeyboard
<1>5. master \in Chip /\ master.isr \in Byte
  BY DEF KernelInv, TypeOK, Chip
<1>6. Min(master.isr) = kKeyboard
  <2>1. Min(master.isr) \in master.isr /\ Min(master.isr) <= kKeyboard
    BY <1>3, <1>5, MinLine
  <2>2. Min(master.isr) \in 0 .. 7
    BY <1>5, <2>1 DEF Byte, Lines
  <2> QED BY <1>3, <2>1, <2>2 DEF kKeyboard
<1> QED BY <1>3, <1>4, <1>5, <1>6, EoiFields

LEMMA Acknowledge_Inv == KernelInv /\ AcknowledgeScanCode => KernelInv'
<1> SUFFICES ASSUME KernelInv, AcknowledgeScanCode PROVE KernelInv'
  OBVIOUS
<1>0. /\ InHandler("eoi") /\ Continue("print", Top.scan_code)
      /\ UNCHANGED <<kernelVars, bios, iflag, typed, loaded, full, shown>>
      /\ UNCHANGED <<pc, idt>>
  BY DEF AcknowledgeScanCode, kbdVars, kernelVars
<1>1. /\ handlers # <<>> /\ handlers[1].at = "eoi" /\ handlers[1].vector \in idt
      /\ handlers[1].scan_code \in ScanCodes \cup {0} /\ Top = handlers[1]
      /\ ~iflag /\ pc \notin BeforeSti
  BY <1>0, OneHandler
<1>2. /\ typed \in Seq(ScanCodes) /\ loaded \in 0 .. Len(typed) /\ shown \in Seq(ScanCodes)
      /\ full \in BOOLEAN /\ slave \in Chip /\ iflag \in BOOLEAN
  BY DEF KernelInv, TypeOK
<1>3. handlers' = <<[at |-> "print", vector |-> handlers[1].vector,
                     scan_code |-> handlers[1].scan_code]>>
  BY <1>0, <1>1, OneHandler
<1>4. /\ handlers' # <<>> /\ handlers'[1].at = "print"
      /\ handlers'[1].scan_code = handlers[1].scan_code
  BY <1>3
<1>5. /\ master' \in Chip /\ slave' = slave
      /\ master'.irr = master.irr /\ master'.imr = master.imr
      /\ master'.icw = master.icw /\ master'.base = master.base
  BY EoiLine
<1>6. TypeOK'
  BY <1>0, <1>1, <1>2, <1>3, <1>5, TypesUntouched
<1>7. Stacked'
  BY <1>0, <1>1 DEF KernelInv, Stacked, BeforeSti
<1>8. Stepped' /\ Remapped' /\ MasksKept'
  BY <1>0, <1>5, KernelUntouched
<1>9. InService'
  BY <1>4 DEF InService, At
<1>10. KeysDone'
  <2>1. At({"eoi", "print"}) /\ At({"eoi", "print"})' /\ ~At({"read"})'
    BY <1>1, <1>4 DEF At
  <2>2. Done' = Done
    BY <1>0, <2>1 DEF Done
  <2>3. handlers[1].scan_code = typed[Done + 1]
    BY <2>1 DEF KernelInv, KeysDone
  <2>4. /\ Done' \in 0 .. Len(typed') /\ ShownAre(Done)'
        /\ kKeyboard \in master'.irr => full'
    BY <1>0, <1>5, <2>2 DEF KernelInv, KeysDone, ShownAre, Showable
  <2> QED BY <1>0, <1>4, <2>1, <2>2, <2>3, <2>4 DEF KeysDone
<1> QED BY <1>6, <1>7, <1>8, <1>9, <1>10 DEF KernelInv

\* The positions of showable codes, and how many there are.
LEMMA ShowableFinite ==
  ASSUME NEW n \in Nat
  PROVE  IsFiniteSet(Showable(n)) /\ Cardinality(Showable(n)) \in Nat
<1>1. IsFiniteSet(1 .. n)
  BY FS_Interval
<1>2. Showable(n) \subseteq 1 .. n
  BY DEF Showable
<1> QED BY <1>1, <1>2, FS_Subset, FS_CardinalityType

LEMMA ShowableRank ==
  ASSUME NEW n \in Nat, NEW k \in Showable(n)
  PROVE  Cardinality(Showable(k)) \in 1 .. Cardinality(Showable(n))
<1>1. k \in 1 .. n
  BY DEF Showable
<1>2. Showable(k) \subseteq Showable(n) /\ k \in Showable(k)
  BY <1>1 DEF Showable
<1>3. /\ IsFiniteSet(Showable(n)) /\ Cardinality(Showable(n)) \in Nat
      /\ IsFiniteSet(Showable(k)) /\ Cardinality(Showable(k)) \in Nat
  BY <1>1, ShowableFinite
<1>4. Cardinality(Showable(k)) <= Cardinality(Showable(n))
  BY <1>2, <1>3, FS_Subset
<1>5. Cardinality(Showable(k)) # 0
  BY <1>2, <1>3, FS_EmptySet
<1> QED BY <1>3, <1>4, <1>5

\* Showing the next code, unless it is not in the layout, keeps the order.
LEMMA ShownNext ==
  ASSUME NEW n \in Nat, typed \in Seq(ScanCodes), shown \in Seq(ScanCodes),
         ShownAre(n), n + 1 \in 1 .. Len(typed), typed' = typed,
         shown' = IF InLayout(typed[n + 1]) THEN Append(shown, typed[n + 1]) ELSE shown
  PROVE  /\ Len(shown') = Cardinality(Showable(n + 1))
         /\ \A k \in Showable(n + 1) : shown'[Cardinality(Showable(k))] = typed[k]
<1> DEFINE C(m) == Cardinality(Showable(m))
<1>1. /\ Len(shown) = C(n)
      /\ \A k \in Showable(n) : shown[C(k)] = typed[k]
  BY DEF ShownAre
<1>2. \A k \in Showable(n) : C(k) \in 1 .. C(n)
  BY ShowableRank
<1>3. IsFiniteSet(Showable(n)) /\ C(n) \in Nat
  BY ShowableFinite
<1>4. CASE InLayout(typed[n + 1])
  <2>1. Showable(n + 1) = Showable(n) \cup {n + 1} /\ n + 1 \notin Showable(n)
    BY <1>4 DEF Showable, InLayout
  <2>2. C(n + 1) = C(n) + 1
    BY <1>3, <2>1, FS_AddElement
  <2> HIDE DEF C
  <2>3. shown' = Append(shown, typed[n + 1]) /\ typed[n + 1] \in ScanCodes
    BY <1>4
  <2>4. Len(shown') = C(n + 1)
    <3>1. Len(shown') = Len(shown) + 1
      BY <2>3
    <3> QED BY <1>1, <2>2, <3>1
  <2>5. \A i \in 1 .. C(n) : shown'[i] = shown[i]
    BY <1>1, <2>3
  <2>6. shown'[C(n + 1)] = typed[n + 1]
    BY <1>1, <1>3, <2>2, <2>3
  <2>7. \A k \in Showable(n) : shown'[C(k)] = typed[k]
    BY <1>1, <1>2, <2>5
  <2> QED BY <2>1, <2>4, <2>6, <2>7 DEF C
<1>5. CASE ~InLayout(typed[n + 1])
  <2>1. Showable(n + 1) = Showable(n)
    BY <1>5 DEF Showable, InLayout
  <2>2. shown' = shown
    BY <1>5
  <2> QED BY <1>1, <2>1, <2>2
<1> QED BY <1>4, <1>5

LEMMA Print_Inv == KernelInv /\ PrintAsciiChar => KernelInv'
<1> SUFFICES ASSUME KernelInv, PrintAsciiChar PROVE KernelInv'
  OBVIOUS
<1>0. /\ InHandler("print")
      /\ shown' = IF InLayout(Top.scan_code) THEN Append(shown, Top.scan_code) ELSE shown
      /\ handlers' = SubSeq(handlers, 1, Len(handlers) - 1) /\ iflag' = TRUE
      /\ UNCHANGED <<kernelVars, bios, master, slave, typed, loaded, full>>
      /\ UNCHANGED <<pc, idt>>
  BY DEF PrintAsciiChar, Iret, chips, kbdVars, kernelVars
<1>1. /\ handlers # <<>> /\ handlers[1].at = "print" /\ Top = handlers[1]
      /\ pc \notin BeforeSti /\ handlers' = <<>>
  BY <1>0, OneHandler
<1>2. /\ typed \in Seq(ScanCodes) /\ loaded \in 0 .. Len(typed) /\ shown \in Seq(ScanCodes)
      /\ full \in BOOLEAN /\ slave \in Chip /\ master \in Chip
  BY DEF KernelInv, TypeOK
<1>3. At({"eoi", "print"}) /\ ~At({"eoi", "print"})' /\ ~At({"read"})'
  BY <1>1 DEF At
<1>4. /\ Top.scan_code = typed[Done + 1] /\ ShownAre(Done)
      /\ Done \in 0 .. Len(typed) /\ (kKeyboard \in master.irr => full)
  BY <1>1, <1>3 DEF KernelInv, KeysDone
<1>5. /\ Done = loaded - (IF full THEN 1 ELSE 0) - 1
      /\ Done' = loaded - (IF full THEN 1 ELSE 0) - 0
  BY <1>0, <1>3 DEF Done
<1>6. Done' = Done + 1 /\ Done + 1 \in 1 .. Len(typed) /\ Done \in Nat
  BY <1>2, <1>4, <1>5
<1>7. typed[Done + 1] \in ScanCodes
  BY <1>2, <1>6
<1>8. shown' \in Seq(ScanCodes)
  BY <1>0, <1>2, <1>4, <1>7
<1>9. TypeOK'
  BY <1>0, <1>1, <1>2, <1>8, TypesUntouched
<1>10. Stacked'
  BY <1>0, <1>1 DEF KernelInv, Stacked, BeforeSti
<1>11. Stepped' /\ Remapped' /\ MasksKept'
  BY <1>0, KernelUntouched
<1>12. InService'
  BY <1>1 DEF InService, At
<1>13. ShownAre(Done)'
  <2>1. /\ Len(shown') = Cardinality(Showable(Done + 1))
        /\ \A k \in Showable(Done + 1) : shown'[Cardinality(Showable(k))] = typed[k]
    <3> HIDE DEF Done
    <3>1. shown' = IF InLayout(typed[Done + 1]) THEN Append(shown, typed[Done + 1]) ELSE shown
      BY <1>0, <1>4
    <3> QED BY <1>0, <1>2, <1>4, <1>6, <3>1, ShownNext
  <2> QED BY <1>0, <1>6, <2>1 DEF ShownAre, Showable
<1>14. KeysDone'
  BY <1>0, <1>3, <1>4, <1>6, <1>13 DEF KeysDone
<1> QED BY <1>9, <1>10, <1>11, <1>12, <1>14 DEF KernelInv

LEMMA Unhandled_Inv == KernelInv /\ UnhandledIrq => KernelInv'
<1> SUFFICES ASSUME KernelInv, UnhandledIrq PROVE KernelInv'
  OBVIOUS
<1>0. /\ InHandler("default")
      /\ handlers' = SubSeq(handlers, 1, Len(handlers) - 1) /\ iflag' = TRUE
      /\ UNCHANGED <<kernelVars, bios, master, slave, typed, loaded, full, shown>>
      /\ UNCHANGED <<pc, idt>>
  BY DEF UnhandledIrq, Iret, chips, kbdVars, kernelVars
<1>1. /\ handlers # <<>> /\ handlers[1].at = "default"
      /\ pc \notin BeforeSti /\ handlers' = <<>>
  BY <1>0, OneHandler
<1>2. /\ typed \in Seq(ScanCodes) /\ loaded \in 0 .. Len(typed) /\ shown \in Seq(ScanCodes)
      /\ full \in BOOLEAN /\ slave \in Chip /\ master \in Chip
  BY DEF KernelInv, TypeOK
<1>3. ~At({"eoi", "print"}) /\ ~At({"eoi", "print"})' /\ ~At({"read"})'
  BY <1>1 DEF At
<1>4. Done' = Done
  BY <1>0, <1>3 DEF Done
<1>5. TypeOK'
  BY <1>0, <1>1, <1>2, TypesUntouched
<1>6. Stacked'
  BY <1>0, <1>1 DEF KernelInv, Stacked, BeforeSti
<1>7. Stepped' /\ Remapped' /\ MasksKept'
  BY <1>0, KernelUntouched
<1>8. InService'
  BY <1>1 DEF InService, At
<1>9. KeysDone'
  BY <1>0, <1>3, <1>4 DEF KernelInv, KeysDone, ShownAre, Showable
<1> QED BY <1>5, <1>6, <1>7, <1>8, <1>9 DEF KernelInv

-----------------------------------------------------------------------------
(***************************************************************************)
(* The devices.                                                            *)
(***************************************************************************)

\* A device that only raises an edge, not of the keyboard, disturbs nothing.
LEMMA EdgeElsewhere ==
  ASSUME KernelInv,
         UNCHANGED <<kernelVars, bios, iflag, handlers, kbdVars, shown>>,
         master' \in Chip, slave' \in Chip,
         master'.icw = master.icw, slave'.icw = slave.icw,
         master'.base = master.base, slave'.base = slave.base,
         master'.imr = master.imr, slave'.imr = slave.imr,
         master'.isr = master.isr,
         kKeyboard \in master'.irr => kKeyboard \in master.irr
  PROVE  KernelInv'
<1>1. UNCHANGED <<typed, loaded, full, pc, idt, iflag, handlers>>
  BY DEF kbdVars, kernelVars
<1>2. TypeOK'
  <2>1. /\ typed' \in Seq(ScanCodes) /\ loaded' \in 0 .. Len(typed') /\ full' \in BOOLEAN
        /\ shown' \in Seq(ScanCodes) /\ iflag' \in BOOLEAN
    BY <1>1 DEF KernelInv, TypeOK
  <2>2. \/ handlers' = <<>>
        \/ \E at \in {"panic", "read", "eoi", "print", "default"},
              vector \in idt, code \in ScanCodes \cup {0} :
              handlers' = <<[at |-> at, vector |-> vector, scan_code |-> code]>>
    BY <1>1 DEF KernelInv, TypeOK
  <2> QED BY <2>1, <2>2, TypesUntouched
<1>3. Stacked'
  BY <1>1 DEF KernelInv, Stacked
<1>4. Stepped' /\ Remapped' /\ MasksKept'
  BY KernelUntouched
<1>5. InService'
  BY <1>1 DEF KernelInv, InService, At
<1>6. Done' = Done
  BY <1>1 DEF Done, At
<1>7. KeysDone'
  BY <1>1, <1>6 DEF KernelInv, KeysDone, ShownAre, Showable, At
<1> QED BY <1>2, <1>3, <1>4, <1>5, <1>7 DEF KernelInv

LEMMA EdgeKeeps ==
  ASSUME NEW chip \in Chip, NEW line \in Lines
  PROVE  /\ Edge(chip, line) \in Chip
         /\ Edge(chip, line).irr = chip.irr \cup {line}
         /\ Edge(chip, line).isr = chip.isr /\ Edge(chip, line).imr = chip.imr
         /\ Edge(chip, line).icw = chip.icw /\ Edge(chip, line).base = chip.base
<1>1. Edge(chip, line) \in Chip
      /\ Edge(chip, line) = [chip EXCEPT !.irr = chip.irr \cup {line}]
  BY EdgeFields
<1> QED BY <1>1 DEF Chip

LEMMA Timer_Inv == KernelInv /\ TimerTick => KernelInv'
<1> SUFFICES ASSUME KernelInv, TimerTick PROVE KernelInv'
  OBVIOUS
<1>1. /\ master' = Edge(master, 0) /\ slave' = slave
      /\ UNCHANGED <<kernelVars, bios, iflag, handlers, kbdVars, shown>>
  BY DEF TimerTick
<1>2. master \in Chip /\ slave \in Chip /\ 0 \in Lines /\ kKeyboard # 0
  BY DEF KernelInv, TypeOK, Lines, kKeyboard
<1>3. /\ master' \in Chip /\ master'.irr = master.irr \cup {0}
      /\ master'.isr = master.isr /\ master'.imr = master.imr
      /\ master'.icw = master.icw /\ master'.base = master.base
  BY <1>1, <1>2, EdgeKeeps
<1> QED BY <1>1, <1>2, <1>3, EdgeElsewhere

LEMMA Disk_Inv == KernelInv /\ DiskInterrupt => KernelInv'
<1> SUFFICES ASSUME KernelInv, DiskInterrupt PROVE KernelInv'
  OBVIOUS
<1>1. /\ slave' = Edge(slave, 6) /\ master' = master
      /\ UNCHANGED <<kernelVars, bios, iflag, handlers, kbdVars, shown>>
  BY DEF DiskInterrupt
<1>2. master \in Chip /\ slave \in Chip /\ 6 \in Lines
  BY DEF KernelInv, TypeOK, Lines
<1>3. /\ slave' \in Chip /\ slave'.imr = slave.imr
      /\ slave'.icw = slave.icw /\ slave'.base = slave.base
  BY <1>1, <1>2, EdgeKeeps
<1> QED BY <1>1, <1>2, <1>3, EdgeElsewhere

LEMMA KeyPress_Inv == KernelInv /\ KeyPress => KernelInv'
<1> SUFFICES ASSUME KernelInv, KeyPress PROVE KernelInv'
  OBVIOUS
<1>1. UNCHANGED <<kernelVars, bios, iflag, master, slave, handlers, loaded, full, shown>>
      /\ UNCHANGED <<pc, idt>>
  BY DEF KeyPress, chips, kernelVars
<1>2. PICK code \in ScanCodes : typed' = Append(typed, code)
  BY DEF KeyPress
<1>3. /\ typed \in Seq(ScanCodes) /\ loaded \in 0 .. Len(typed) /\ shown \in Seq(ScanCodes)
      /\ full \in BOOLEAN /\ slave \in Chip /\ master \in Chip /\ iflag \in BOOLEAN
  BY DEF KernelInv, TypeOK
<1>4. /\ typed' \in Seq(ScanCodes) /\ Len(typed') = Len(typed) + 1 /\ Len(typed) \in Nat
      /\ \A i \in 1 .. Len(typed) : typed'[i] = typed[i]
  BY <1>2, <1>3
<1>5. TypeOK'
  <2>1. \/ handlers' = <<>>
        \/ \E at \in {"panic", "read", "eoi", "print", "default"},
              vector \in idt, code1 \in ScanCodes \cup {0} :
              handlers' = <<[at |-> at, vector |-> vector, scan_code |-> code1]>>
    BY <1>1 DEF KernelInv, TypeOK
  <2>2. loaded' \in 0 .. Len(typed')
    BY <1>1, <1>3, <1>4
  <2> QED BY <1>1, <1>3, <1>4, <2>1, <2>2, TypesUntouched
<1>6. Stacked'
  BY <1>1 DEF KernelInv, Stacked
<1>7. Stepped' /\ Remapped' /\ MasksKept'
  BY <1>1, KernelUntouched
<1>8. InService'
  BY <1>1 DEF KernelInv, InService, At
<1>9. KeysDone'
  <2>1. Done' = Done
    BY <1>1 DEF Done, At
  <2>2. Done \in 0 .. Len(typed) /\ ShownAre(Done)
    BY DEF KernelInv, KeysDone
  <2>3. At({"eoi", "print"}) => Done + 1 \in 1 .. Len(typed)
    <3>1. SUFFICES ASSUME At({"eoi", "print"}) PROVE Done + 1 \in 1 .. Len(typed)
      OBVIOUS
    <3>2. Done = loaded - (IF full THEN 1 ELSE 0) - 1
      BY <3>1 DEF Done
    <3> QED BY <1>3, <2>2, <3>2
  <2> HIDE DEF Done
  <2>4. \A m \in 0 .. Len(typed) : Showable(m)' = Showable(m)
    BY <1>4 DEF Showable
  <2>5. Showable(Done) \subseteq 1 .. Len(typed)
    BY <1>4, <2>2 DEF Showable
  <2>6. ShownAre(Done)'
    <3>1. /\ Len(shown) = Cardinality(Showable(Done))
          /\ \A k \in Showable(Done) : shown[Cardinality(Showable(k))] = typed[k]
      BY <2>2 DEF ShownAre
    <3>2. \A m \in 0 .. Len(typed) :
            {k \in 1 .. m : typed'[k] < kNumKeys} = Showable(m)
      BY <2>4 DEF Showable
    <3>3. ShownAre(Done)' <=>
            /\ Len(shown) = Cardinality({k \in 1 .. Done : typed'[k] < kNumKeys})
            /\ \A k \in {k \in 1 .. Done : typed'[k] < kNumKeys} :
                 shown[Cardinality({j \in 1 .. k : typed'[j] < kNumKeys})] = typed'[k]
      BY <1>1, <2>1 DEF ShownAre, Showable
    <3>4. \A k \in Showable(Done) : /\ {j \in 1 .. k : typed'[j] < kNumKeys} = Showable(k)
                                    /\ typed'[k] = typed[k]
      BY <1>4, <2>5, <3>2
    <3> QED BY <2>2, <3>1, <3>2, <3>3, <3>4
  <2>7. At({"eoi", "print"}) => typed'[Done + 1] = typed[Done + 1]
    BY <1>4, <2>3
  <2>8. /\ kKeyboard \in master.irr => full
        /\ At({"read"}) => full /\ kKeyboard \notin master.irr
        /\ At({"eoi", "print"}) => handlers[1].scan_code = typed[Done + 1]
    BY DEF KernelInv, KeysDone
  <2>9. At({"read"})' = At({"read"}) /\ At({"eoi", "print"})' = At({"eoi", "print"})
    BY <1>1 DEF At
  <2>10. Done' \in 0 .. Len(typed')
    BY <1>4, <2>1, <2>2
  <2> QED BY <1>1, <2>1, <2>6, <2>7, <2>8, <2>9, <2>10 DEF KeysDone
<1> QED BY <1>5, <1>6, <1>7, <1>8, <1>9 DEF KernelInv

LEMMA LoadKey_Inv == KernelInv /\ LoadKey => KernelInv'
<1> SUFFICES ASSUME KernelInv, LoadKey PROVE KernelInv'
  OBVIOUS
<1>1. /\ ~full /\ loaded < Len(typed) /\ loaded' = loaded + 1 /\ full' = TRUE
      /\ master' = Edge(master, kKeyboard)
      /\ UNCHANGED <<kernelVars, bios, iflag, slave, handlers, typed, shown>>
      /\ UNCHANGED <<pc, idt>>
  BY DEF LoadKey, kernelVars
<1>2. /\ typed \in Seq(ScanCodes) /\ loaded \in 0 .. Len(typed) /\ shown \in Seq(ScanCodes)
      /\ slave \in Chip /\ master \in Chip /\ iflag \in BOOLEAN
      /\ Len(typed) \in Nat
  BY DEF KernelInv, TypeOK
<1>3. /\ master' \in Chip
      /\ master'.isr = master.isr /\ master'.imr = master.imr
      /\ master'.icw = master.icw /\ master'.base = master.base
  <2>1. kKeyboard \in Lines
    BY DEF kKeyboard, Lines
  <2> QED BY <1>1, <1>2, <2>1, EdgeKeeps
<1>4. TypeOK'
  <2>1. \/ handlers' = <<>>
        \/ \E at \in {"panic", "read", "eoi", "print", "default"},
              vector \in idt, code \in ScanCodes \cup {0} :
              handlers' = <<[at |-> at, vector |-> vector, scan_code |-> code]>>
    BY <1>1 DEF KernelInv, TypeOK
  <2>2. loaded' \in 0 .. Len(typed')
    BY <1>1, <1>2
  <2> QED BY <1>1, <1>2, <1>3, <2>1, <2>2, TypesUntouched
<1>5. Stacked'
  BY <1>1 DEF KernelInv, Stacked
<1>6. Stepped' /\ Remapped' /\ MasksKept'
  BY <1>1, <1>3, KernelUntouched
<1>7. InService'
  BY <1>1, <1>3 DEF KernelInv, InService, At
<1>8. KeysDone'
  <2>1. At({"read"})' = At({"read"}) /\ At({"eoi", "print"})' = At({"eoi", "print"})
    BY <1>1 DEF At
  <2>2. /\ Done = loaded - 0 - (IF At({"eoi", "print"}) THEN 1 ELSE 0)
        /\ Done' = (loaded + 1) - 1 - (IF At({"eoi", "print"}) THEN 1 ELSE 0)
    <3>1. ~full /\ full' /\ loaded' = loaded + 1
      BY <1>1
    <3>2. CASE At({"eoi", "print"})
      BY <2>1, <3>1, <3>2 DEF Done
    <3>3. CASE ~At({"eoi", "print"})
      BY <2>1, <3>1, <3>3 DEF Done
    <3> QED BY <3>2, <3>3
  <2>3. Done' = Done
    BY <1>2, <2>2
  <2>4. ~At({"read"})
    BY <1>1 DEF KernelInv, KeysDone
  <2>5. Done' \in 0 .. Len(typed') /\ ShownAre(Done)'
    BY <1>1, <2>3 DEF KernelInv, KeysDone, ShownAre, Showable
  <2>6. At({"eoi", "print"}) => handlers[1].scan_code = typed[Done + 1]
    BY DEF KernelInv, KeysDone
  <2> QED BY <1>1, <2>1, <2>3, <2>4, <2>5, <2>6 DEF KeysDone
<1> QED BY <1>4, <1>5, <1>6, <1>7, <1>8 DEF KernelInv

-----------------------------------------------------------------------------
(***************************************************************************)
(* The theorems.                                                           *)
(***************************************************************************)
LEMMA Init_Inv == Init => KernelInv
<1> SUFFICES ASSUME Init PROVE KernelInv
  OBVIOUS
<1>1. /\ pc = "magic" /\ step = 0 /\ value = {} /\ saved = <<{}, {}>> /\ bios \in BiosMasks
      /\ iflag = FALSE /\ idt = {} /\ handlers = <<>> /\ typed = <<>> /\ loaded = 0
      /\ full = FALSE /\ shown = <<>>
      /\ master = [imr |-> bios[1], irr |-> {}, isr |-> {}, base |-> {3}, icw |-> 0]
      /\ slave = [imr |-> bios[2], irr |-> {}, isr |-> {}, base |-> {4, 5, 6}, icw |-> 0]
  BY DEF Init
<1>2. bios[1] \in Byte /\ bios[2] \in Byte
  BY <1>1, MasksAssumption
<1>3. {} \in Byte /\ {3} \in Byte /\ {4, 5, 6} \in Byte
  BY DEF Byte, Lines
<1>4. master \in Chip /\ slave \in Chip
  BY <1>1, <1>2, <1>3 DEF Chip
<1>5. typed \in Seq(ScanCodes) /\ shown \in Seq(ScanCodes) /\ loaded \in 0 .. Len(typed)
  BY <1>1
<1>6. TypeOK
  <2>1. pc \in Locations /\ step \in 0 .. 8 /\ idt \subseteq 0 .. 255
    BY <1>1 DEF Locations
  <2>2. value \in Byte /\ saved \in Byte \X Byte
    BY <1>1, <1>3
  <2> QED BY <1>1, <1>4, <1>5, <2>1, <2>2 DEF TypeOK
<1>7. Stacked /\ Stepped
  BY <1>1 DEF Stacked, Stepped, BeforeSti, BeforeTable
<1>8. Remapped
  BY <1>1 DEF Remapped, Written, AfterPic
<1>9. MasksKept
  BY <1>1 DEF MasksKept, Written, AfterPic
<1>10. InService
  BY <1>1 DEF InService, At
<1>11. KeysDone
  <2>1. Done = 0 - 0 - 0
    BY <1>1 DEF Done, At
  <2>2. Done = 0 /\ Showable(0) = {}
    BY <2>1 DEF Showable
  <2>3. ShownAre(0)
    BY <1>1, <2>2, FS_EmptySet DEF ShownAre
  <2> QED BY <1>1, <2>2, <2>3 DEF KeysDone, At
<1> QED BY <1>6, <1>7, <1>8, <1>9, <1>10, <1>11 DEF KernelInv

LEMMA Stutter_Inv == KernelInv /\ UNCHANGED vars => KernelInv'
<1> SUFFICES ASSUME KernelInv, UNCHANGED vars PROVE KernelInv'
  OBVIOUS
<1>1. /\ UNCHANGED <<kernelVars, bios, iflag, handlers, kbdVars, shown>>
      /\ UNCHANGED <<master, slave>>
  BY DEF vars, chips
<1>2. master \in Chip /\ slave \in Chip
  BY DEF KernelInv, TypeOK
<1> QED BY <1>1, <1>2, EdgeElsewhere

LEMMA Next_Inv == KernelInv /\ [Next]_vars => KernelInv'
<1>1. KernelInv /\ KernelMain => KernelInv'
  BY Verify_Inv, InitIdt_Inv, PicInit_Inv, SetMask_Inv, ClearMask_Inv, InitFrames_Inv
     DEF KernelMain
<1>2. KernelInv /\ Handler => KernelInv'
  BY Read_Inv, Acknowledge_Inv, Print_Inv, Unhandled_Inv DEF Handler
<1>3. KernelInv /\ Devices => KernelInv'
  BY Timer_Inv, Disk_Inv, KeyPress_Inv, LoadKey_Inv DEF Devices
<1> QED BY <1>1, <1>2, <1>3, Interrupt_Inv, Stutter_Inv DEF Next

\* Every port access of kernel_main, every step of a handler, every interrupt and
\* every device keep the inductive invariant.
THEOREM Invariance == Spec => []KernelInv
<1>1. Init => KernelInv
  BY Init_Inv
<1>2. KernelInv /\ [Next]_vars => KernelInv'
  BY Next_Inv
<1> QED BY <1>1, <1>2, PTL DEF Spec

\* Every variable keeps its type; above all at most one handler is ever on the
\* stack, whatever the devices do.
THEOREM OneHandlerAtATime == Spec => []TypeOK
<1>1. KernelInv => TypeOK
  BY DEF KernelInv
<1> QED BY <1>1, Invariance, PTL

\* After InitPic the keyboard alone is unmasked on the master and the slave has the
\* mask the BIOS left, for every mask the BIOS can leave.
THEOREM MasksAfterBoot == Spec => []BootedMasks
<1>1. KernelInv => BootedMasks
  BY DEF KernelInv, MasksKept, AfterPic, BootedMasks
<1> QED BY <1>1, Invariance, PTL

\* The keyboard's handler shows the codes of the layout in the order they were
\* typed, each once, for any layout and any number of keys.
THEOREM KeysShownInOrder == Spec => []ShownInOrder
<1>1. KernelInv => ShownInOrder
  BY DEF KernelInv, KeysDone, ShownInOrder
<1> QED BY <1>1, Invariance, PTL

LEMMA PanicStep ==
  ASSUME KernelInv, [Next]_vars, ~Panicked, Panicked'
  PROVE  Interrupt
<1>1. ASSUME UNCHANGED handlers PROVE FALSE
  BY <1>1 DEF Panicked
<1>2. ASSUME handlers' = <<>> PROVE FALSE
  BY <1>2 DEF Panicked
<1>3. ASSUME NEW at \in {"eoi", "print"}, NEW vector, NEW code,
             handlers' = <<[at |-> at, vector |-> vector, scan_code |-> code]>>
      PROVE  FALSE
  <2>1. Len(handlers') = 1 /\ handlers'[1].at = at
    BY <1>3
  <2> QED BY <1>3, <2>1 DEF Panicked
<1>4. ASSUME KernelMain \/ Devices \/ UNCHANGED vars PROVE UNCHANGED handlers
  BY <1>4 DEF KernelMain, VerifyBootLoader, InitIdt, PicInit, SetMask, ClearMask,
              InitFrames, Devices, TimerTick, DiskInterrupt, KeyPress, LoadKey, vars
<1>5. ASSUME PrintAsciiChar \/ UnhandledIrq PROVE handlers' = <<>>
  <2>1. InHandler("print") \/ InHandler("default")
    BY <1>5 DEF PrintAsciiChar, UnhandledIrq
  <2>2. handlers' = SubSeq(handlers, 1, Len(handlers) - 1)
    BY <1>5 DEF PrintAsciiChar, UnhandledIrq, Iret
  <2> QED BY <2>1, <2>2, OneHandler
<1>6. ~ReadScanCode
  <2>1. SUFFICES ASSUME ReadScanCode PROVE FALSE
    OBVIOUS
  <2>2. InHandler("read") /\ \E code : Continue("eoi", code)
    BY <2>1 DEF ReadScanCode
  <2> QED BY <2>2, <1>3, OneHandler
<1>7. ~AcknowledgeScanCode
  <2>1. SUFFICES ASSUME AcknowledgeScanCode PROVE FALSE
    OBVIOUS
  <2>2. InHandler("eoi") /\ \E code : Continue("print", code)
    BY <2>1 DEF AcknowledgeScanCode
  <2> QED BY <2>2, <1>3, OneHandler
<1> QED BY <1>1, <1>2, <1>4, <1>5, <1>6, <1>7 DEF Next, Handler

\* From the first word of pic::Init on, no interrupt of a device is taken for an
\* exception, wherever the two chips are in their initialisation.
THEOREM RemapStopsPanics == Spec => RemapEndsPanics
<1>1. KernelInv /\ [Next]_vars =>
        [~Panicked /\ Panicked' => pc \in {"save1", "save2"}
                                   \/ (pc = "words" /\ step = 1)]_vars
  <2>1. SUFFICES ASSUME KernelInv, [Next]_vars, ~Panicked, Panicked'
                 PROVE  pc \in {"save1", "save2"} \/ (pc = "words" /\ step = 1)
    OBVIOUS
  <2>2. Interrupt
    BY <2>1, PanicStep
  <2>3. PICK taken \in idt :
          /\ handlers' = <<[at |-> HandlerEntry(taken), vector |-> taken, scan_code |-> 0]>>
          /\ taken \in IsrVectors =>
               pc \in {"save1", "save2"} \/ (pc = "words" /\ step = 1)
    BY <2>1, <2>2, InterruptTaken
  <2>4. HandlerEntry(taken) = "panic"
    BY <2>1, <2>3 DEF Panicked
  <2>5. taken \in IsrVectors
    BY <2>4 DEF HandlerEntry
  <2> QED BY <2>3, <2>5
<1> QED BY <1>1, Invariance, PTL DEF Spec, RemapEndsPanics

\* The non-specific EOI of the keyboard's handler retires the keyboard's interrupt
\* and leaves every other one in service.
THEOREM EoiIsTheKeyboards == Spec => EoiRetiresKeyboard
<1>1. KernelInv /\ [Next]_vars =>
        [AcknowledgeScanCode => /\ kKeyboard \in master.isr
                                /\ master.isr' = master.isr \ {kKeyboard}]_vars
  BY EoiLine
<1> QED BY <1>1, Invariance, PTL DEF Spec, EoiRetiresKeyboard
=============================================================================
