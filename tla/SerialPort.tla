----------------------------- MODULE SerialPort -----------------------------
(***************************************************************************)
(* A SerialPort object and the UARTs behind its ports:                     *)
(*   src/SerialPort/SerialPort.cc, include/SerialPort/SerialPort.h         *)
(* Init is one action, its port writes applied in order; the poll loop of  *)
(* PrintChar is interleaved with the chip's sending.  The chip (external)  *)
(* is a 16550: a register file selected by the offset and by DLAB, a FIFO  *)
(* in front of the line, a loopback mode.                                  *)
(***************************************************************************)
EXTENDS Integers, Sequences, SequencesExt

CONSTANTS
  COMPort,    \* the base addresses
  BaudRate,   \* the divisors callers use
  Bytes,      \* what is printed
  ByteMod,    \* values of a byte: 256
  FifoSize,   \* bytes the chip holds for sending: 16
  MaxString   \* bound: the length of a string

ASSUME SerialAssumption ==
  /\ ByteMod \in Nat \ {0, 1}
  /\ BaudRate \subseteq 1 .. (ByteMod * ByteMod - 1)
  /\ FifoSize \in Nat \ {0}
  /\ MaxString \in Nat

kUndefinedPort == "kUndefinedPort"
kUndefinedBaud == -1

VARIABLES
  port,         \* port_
  baud,         \* baud_
  initialized,  \* initialized_
  chip,         \* the UART at each port
  works,        \* whether it answers
  tested,       \* what the last Init said of each port
  str,          \* what PrintString has still to print
  sent,         \* the bytes written to port_ since the last Init of it
  line          \* the bytes its UART has put on the line since

object == <<port, baud, initialized>>
vars   == <<object, chip, works, tested, str, sent, line>>

-----------------------------------------------------------------------------
(***************************************************************************)
(* The chip.                                                               *)
(***************************************************************************)
Chip == [dlab : BOOLEAN, frame : 0 .. 127, low : 0 .. (ByteMod - 1),
         high : 0 .. (ByteMod - 1), loop : BOOLEAN, thr : Seq(Bytes)]

\* 0 is the data or divisor register, 1 the interrupt or divisor register, 2 the
\* FIFO control, 3 the line control and 4 the modem control register.
WriteReg(uart, out) ==
  CASE out.offset = 0 /\ uart.dlab -> [uart EXCEPT !.low = out.byte]
    [] out.offset = 0 /\ ~uart.dlab /\ ~uart.loop /\ Len(uart.thr) < FifoSize ->
         [uart EXCEPT !.thr = Append(@, out.byte)]
    [] out.offset = 1 /\ uart.dlab -> [uart EXCEPT !.high = out.byte]
    [] out.offset = 2 -> [uart EXCEPT !.thr = <<>>]
    [] out.offset = 3 ->
         [uart EXCEPT !.dlab = out.byte >= 128, !.frame = out.byte % 128]
    [] out.offset = 4 -> [uart EXCEPT !.loop = (out.byte \div 16) % 2 = 1]
    [] OTHER -> uart

\* A chip after a sequence of writes.
WriteRegs(uart, writes) ==
  LET after[n \in 0 .. Len(writes)] ==
        IF n = 0 THEN uart ELSE WriteReg(after[n - 1], writes[n])
  IN  after[Len(writes)]

Outb(com, writes) ==
  [chip EXCEPT ![com] = IF works[com] THEN WriteRegs(@, writes) ELSE @]

Out(offset, byte) == [offset |-> offset, byte |-> byte]

\* Bit 0 of the line status, and bit 5: the FIFO is empty.  A port without a chip
\* reads as ones.
DataReady(com) == ~works[com]
HoldingEmpty(com) == works[com] => chip[com].thr = <<>>

-----------------------------------------------------------------------------
(***************************************************************************)
(* The driver.                                                             *)
(***************************************************************************)
Init ==
  /\ port = kUndefinedPort
  /\ baud = kUndefinedBaud
  /\ initialized = FALSE
  /\ chip = [com \in COMPort |-> [dlab |-> FALSE, frame |-> 0, low |-> 1, high |-> 0,
                                  loop |-> FALSE, thr |-> <<>>]]
  /\ works \in [COMPort -> BOOLEAN]
  /\ tested = [com \in COMPort |-> "no"]
  /\ str = <<>>
  /\ sent = <<>>
  /\ line = <<>>

\* Mutant: DLAB is left on when the format of the line is set.
SetupLatched(rate) ==
  << Out(1, 0), Out(3, 128), Out(0, rate % ByteMod),
     Out(1, (rate \div ByteMod) % ByteMod), Out(3, 131), Out(2, 199), Out(4, 3),
     Out(4, 30), Out(0, 174) >>

\* Interrupts off; DLAB and the divisor; 8N1; FIFOs on and cleared; RTS and DTR;
\* loopback; the test byte.
Setup(rate) ==
  << Out(1, 0), Out(3, 128), Out(0, rate % ByteMod),
     Out(1, (rate \div ByteMod) % ByteMod), Out(3, 3), Out(2, 199), Out(4, 3),
     Out(4, 30), Out(0, 174) >>

Idle == str = <<>>

\* The test byte is read back at once: a chip that is absent does not return it,
\* one that works may not have looped it back yet.
InitFails(com, rate) ==
  /\ Idle
  /\ chip' = Outb(com, Setup(rate))
  /\ tested' = [tested EXCEPT ![com] = "failed"]
  /\ UNCHANGED <<object, works, str, sent, line>>

InitSucceeds(com, rate) ==
  /\ Idle
  /\ works[com]
  /\ chip' = Outb(com, Setup(rate) \o << Out(4, 15) >>)
  /\ port' = com
  /\ baud' = rate
  /\ initialized' = TRUE
  /\ tested' = [tested EXCEPT ![com] = "passed"]
  /\ sent' = <<>>
  /\ line' = <<>>
  /\ UNCHANGED <<works, str>>

\* An object that is not initialised prints nothing.
PrintString(s) ==
  /\ Idle
  /\ initialized
  /\ str' = s
  /\ UNCHANGED <<object, chip, works, tested, sent, line>>

\* Mutant: the poll reads the receiver's bit.
TransmitBufferEmptyReceiver == DataReady(port)

\* Mutant: the poll is left out.
TransmitBufferEmptyAlways == TRUE
TransmitBufferEmpty == HoldingEmpty(port)

\* PrintChar: the poll loop ends, and the byte is written.
PrintChar ==
  /\ str # <<>>
  /\ TransmitBufferEmpty
  /\ chip' = Outb(port, << Out(0, Head(str)) >>)
  /\ str' = Tail(str)
  /\ sent' = Append(sent, Head(str))
  /\ UNCHANGED <<object, works, tested, line>>

-----------------------------------------------------------------------------
(***************************************************************************)
(* The chip sends, or stops answering.                                     *)
(***************************************************************************)
Transmit(com) ==
  /\ works[com]
  /\ chip[com].thr # <<>>
  /\ line' = IF com = port THEN Append(line, Head(chip[com].thr)) ELSE line
  /\ chip' = [chip EXCEPT ![com].thr = Tail(@)]
  /\ UNCHANGED <<object, works, tested, str, sent>>

Break(com) ==
  /\ works[com]
  /\ works' = [works EXCEPT ![com] = FALSE]
  /\ UNCHANGED <<object, chip, tested, str, sent, line>>

\* MaxString also bounds what is printed between two successful Inits.
Next ==
  \/ \E com \in COMPort, rate \in BaudRate : InitFails(com, rate) \/ InitSucceeds(com, rate)
  \/ \E s \in BoundedSeq(Bytes, MaxString - Len(sent)) \ {<<>>} : PrintString(s)
  \/ PrintChar
  \/ \E com \in COMPort : Transmit(com) \/ Break(com)

Fairness == WF_vars(PrintChar) /\ \A com \in COMPort : WF_vars(Transmit(com))

Spec == Init /\ [][Next]_vars /\ Fairness

-----------------------------------------------------------------------------
(***************************************************************************)
(* Properties.                                                             *)
(***************************************************************************)

SetUp(com, rate) ==
  /\ ~chip[com].dlab
  /\ ~chip[com].loop
  /\ chip[com].frame = 3
  /\ ByteMod * chip[com].high + chip[com].low = rate

\* The order of Init's writes matters: when it succeeds, and until the next Init of
\* the same port, the chip runs at the rate the object reports, 8N1, on its line.
TestedIsSetUp == (initialized /\ tested[port] = "passed") => SetUp(port, baud)

\* The line carries the bytes that were printed, in order, none lost to a full
\* FIFO and none taken for a divisor.
LineInOrder ==
  (initialized /\ works[port] /\ tested[port] = "passed") =>
    line \o chip[port].thr = sent

\* The poll loop always ends, also on a chip that breaks or loops back, and
\* PrintString returns.
StringPrinted == str # <<>> ~> str = <<>>
=============================================================================
