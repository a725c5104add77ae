------------------------------ MODULE Pic8259 ------------------------------
(***************************************************************************)
(* One 8259 interrupt controller as the kernel's drivers use it (external: *)
(* the chip is hardware).  A byte on the bus is the set of its bits that   *)
(* are 1.  The pair of chips is that of a PC: the INT output of the slave  *)
(* is input 2 of the master.                                               *)
(***************************************************************************)
EXTENDS Integers, FiniteSetsExt

Lines == 0 .. 7
Byte  == SUBSET Lines

Cascade == 2  \* the input of the master the slave is wired to

\* icw is the number of the initialisation word the chip expects on its data
\* port next, 0 when it is operational.
Chip == [imr : Byte, irr : Byte, isr : Byte, base : Byte, icw : {0, 2, 3, 4}]

\* The number a byte stands for.
Value(byte) ==
  LET digit(bit, weight) == IF bit \in byte THEN weight ELSE 0
  IN  digit(0, 1) + digit(1, 2) + digit(2, 4) + digit(3, 8)
        + digit(4, 16) + digit(5, 32) + digit(6, 64) + digit(7, 128)

\* A rising edge on an input is latched.
Edge(chip, line) == [chip EXCEPT !.irr = @ \cup {line}]

\* Bit 4 of a command makes it ICW1, which resets the mask, the requests
\* latched so far and what is in service; bit 5 is a non-specific EOI, which
\* retires the line of highest priority that is in service.
WriteCommand(chip, byte) ==
  IF 4 \in byte
  THEN [chip EXCEPT !.imr = {}, !.irr = {}, !.isr = {}, !.icw = 2]
  ELSE IF 5 \in byte /\ chip.isr # {}
  THEN [chip EXCEPT !.isr = @ \ {Min(@)}]
  ELSE chip

\* The data port takes ICW2, ICW3 and ICW4 in turn, then the mask.
WriteData(chip, byte) ==
  CASE chip.icw = 2 -> [chip EXCEPT !.base = byte, !.icw = 3]
    [] chip.icw = 3 -> [chip EXCEPT !.icw = 4]
    [] chip.icw = 4 -> [chip EXCEPT !.icw = 0]
    [] chip.icw = 0 -> [chip EXCEPT !.imr = byte]

\* The requests an operational chip puts forward: latched, unmasked and of
\* higher priority than everything in service.
Requests(chip) ==
  IF chip.icw # 0 THEN {}
  ELSE {line \in chip.irr \ chip.imr : \A other \in chip.isr : line < other}

\* The master sees the slave's INT as a request on its cascade input.
WithSlave(master, slave) ==
  IF Requests(slave) # {} THEN Edge(master, Cascade) ELSE master

\* The processor acknowledges a request: the line goes into service.
Acknowledge(chip, line) ==
  [chip EXCEPT !.irr = @ \ {line}, !.isr = @ \cup {line}]

Vector(chip, line) == Value(chip.base) + line
=============================================================================
