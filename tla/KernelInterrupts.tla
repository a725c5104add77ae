-------------------------- MODULE KernelInterrupts --------------------------
(***************************************************************************)
(* kernel_main from the boot loader's jump to its halt loop, with the      *)
(* interrupts that may come in between:                                    *)
(*   kernel/kmain.cc                                                       *)
(*   src/ProgrammableInterruptController/ProgrammableInterruptController.cc*)
(*   src/InterruptDescriptorTable/InterruptDescriptorTable.cc              *)
(*   src/InterruptDescriptorTable/InterruptHandler.{nasm,cc}               *)
(*   src/InterruptDescriptorTable/IRQ/Keyboard/KeyboardIrq.cc              *)
(* Every access to a port of a PIC or of the keyboard is a step of its     *)
(* own.  What the kernel prints about its progress and the GDT it loads    *)
(* are left out: they change nothing that is modelled here.                *)
(***************************************************************************)
EXTENDS Pic8259, Sequences

CONSTANTS
  BiosMasks,   \* the masks <<master, slave>> the BIOS may leave
  ScanCodes,   \* the codes the keyboard may send
  kNumKeys,    \* codes from here on are not in the layout
  MaxKeys      \* bound: how many codes the keyboard sends

ASSUME MasksAssumption == BiosMasks \subseteq Byte \X Byte
ASSUME KeysAssumption ==
  /\ ScanCodes \subseteq Nat
  /\ kNumKeys \in Nat
  /\ MaxKeys \in Nat

VARIABLES
  pc,         \* where kernel_main is
  step,       \* the next port access of pic::Init, or the i of InitPic's loop
  value,      \* what SetMask or ClearMask has read from its port
  saved,      \* <<a1, a2>> of pic::Init
  bios,       \* the masks the BIOS left
  loader,     \* what the boot loader passed: its magic and its flags are right
  iflag,      \* IF: the processor accepts interrupts
  idt,        \* the vectors whose gate is present in the loaded IDT
  master,     \* PIC 1
  slave,      \* PIC 2
  handlers,   \* the activations of handlers on the stack, the last one on top
  typed,      \* the codes the keyboard has sent, oldest first
  loaded,     \* how many of them have reached the keyboard controller
  full,       \* the output buffer of the keyboard controller is full
  shown       \* the codes whose character was handed to PrintChar

kernelVars == <<pc, step, value, saved, loader, idt>>
kbdVars    == <<typed, loaded, full>>
chips      == <<master, slave>>
vars       == <<kernelVars, bios, iflag, chips, handlers, kbdVars, shown>>

-----------------------------------------------------------------------------
(***************************************************************************)
(* Numbers of the source, bytes as sets of bits.                           *)
(***************************************************************************)
kKeyboard == 1                   \* Irq::kKeyboard
kEoi      == {5}                 \* 0x20
kIcw1     == {0, 4}              \* Icw::kIcw1Init | Icw::kIcw1Icw4
kIcw48086 == {0}

\* Mutant: the offset of the BIOS, 0x08.
kMasterOffsetUnmapped == {3}
kDefaultMasterOffset == {5}      \* 0x20
kDefaultSlaveOffset == {3, 5}    \* 0x28

IsrVectors == 0 .. 31
IrqVectors == 32 .. 47
kNotPresent == 11                \* the exception an absent gate raises

(***************************************************************************)
(* The writes of pic::Init, in order.  io_wait writes to an unused port.   *)
(***************************************************************************)
PicInitWords ==
  << [port |-> "command1", byte |-> kIcw1],
     [port |-> "command2", byte |-> kIcw1],
     [port |-> "data1",    byte |-> kDefaultMasterOffset],
     [port |-> "data2",    byte |-> kDefaultSlaveOffset],
     [port |-> "data1",    byte |-> {2}],
     [port |-> "data2",    byte |-> {1}],
     [port |-> "data1",    byte |-> kIcw48086],
     [port |-> "data2",    byte |-> kIcw48086] >>

\* Mutant: the saved masks are restored to the wrong chips.
PicRestoreSwapped ==
  << [port |-> "data1", byte |-> saved[2]], [port |-> "data2", byte |-> saved[1]] >>

PicRestore ==
  << [port |-> "data1", byte |-> saved[1]], [port |-> "data2", byte |-> saved[2]] >>

Outb(port, byte) ==
  /\ master' = CASE port = "command1" -> WriteCommand(master, byte)
                 [] port = "data1"    -> WriteData(master, byte)
                 [] OTHER             -> master
  /\ slave'  = CASE port = "command2" -> WriteCommand(slave, byte)
                 [] port = "data2"    -> WriteData(slave, byte)
                 [] OTHER             -> slave

-----------------------------------------------------------------------------
(***************************************************************************)
(* kernel_main.  It runs while no handler is on the stack.                 *)
(***************************************************************************)
Init ==
  /\ pc = "magic"
  /\ step = 0
  /\ value = {}
  /\ saved = <<{}, {}>>
  /\ bios \in BiosMasks
  /\ loader \in [magic : BOOLEAN, meminfo : BOOLEAN]
  /\ iflag = FALSE
  /\ idt = {}
  /\ master = [imr |-> bios[1], irr |-> {}, isr |-> {}, base |-> {3}, icw |-> 0]
  /\ slave = [imr |-> bios[2], irr |-> {}, isr |-> {}, base |-> {4, 5, 6}, icw |-> 0]
  /\ handlers = <<>>
  /\ typed = <<>>
  /\ loaded = 0
  /\ full = FALSE
  /\ shown = <<>>

Running == handlers = <<>>

\* A wrong magic value or missing memory information stops the kernel with
\* interrupts off.
VerifyBootLoader ==
  /\ Running
  /\ \/ /\ pc = "magic"
        /\ pc' = IF loader.magic THEN "meminfo" ELSE "stopped"
     \/ /\ pc = "meminfo"
        /\ pc' = IF loader.meminfo THEN "idt" ELSE "stopped"
  /\ UNCHANGED <<step, value, saved, loader, idt, bios, iflag, chips, handlers,
                 kbdVars, shown>>

\* The constructor of the table, FlushIdt, and only then sti.
InitIdt ==
  /\ Running
  /\ \/ /\ pc = "idt"
        /\ idt' = IsrVectors \cup IrqVectors
        /\ pc' = "sti"
        /\ UNCHANGED iflag
     \/ /\ pc = "sti"
        /\ iflag' = TRUE
        /\ pc' = "save1"
        /\ UNCHANGED idt
  /\ UNCHANGED <<step, value, saved, loader, bios, chips, handlers, kbdVars, shown>>

\* pic::Init: both masks are read, the words are written, the masks restored.
PicInit ==
  /\ Running
  /\ \/ /\ pc = "save1"
        /\ saved' = [saved EXCEPT ![1] = master.imr]
        /\ pc' = "save2"
        /\ UNCHANGED <<step, chips>>
     \/ /\ pc = "save2"
        /\ saved' = [saved EXCEPT ![2] = slave.imr]
        /\ pc' = "words"
        /\ step' = 1
        /\ UNCHANGED chips
     \/ /\ pc = "words"
        /\ Outb(PicInitWords[step].port, PicInitWords[step].byte)
        /\ IF step < Len(PicInitWords)
           THEN step' = step + 1 /\ UNCHANGED pc
           ELSE step' = 1 /\ pc' = "restore"
        /\ UNCHANGED saved
     \/ /\ pc = "restore"
        /\ Outb(PicRestore[step].port, PicRestore[step].byte)
        /\ IF step < Len(PicRestore)
           THEN step' = step + 1 /\ UNCHANGED pc
           ELSE step' = 0 /\ pc' = "mask"
        /\ UNCHANGED saved
  /\ UNCHANGED <<value, loader, idt, bios, iflag, handlers, kbdVars, shown>>

\* The chip and the bit SetMask and ClearMask change.
DataPort(irq_line) == IF irq_line < 8 THEN "data1" ELSE "data2"
LineBit(irq_line) == IF irq_line < 8 THEN irq_line ELSE irq_line - 8

\* Reading a data port returns the mask.
Inb(port) == IF port = "data1" THEN master.imr ELSE slave.imr

Masked(irq_line) == value \cup {LineBit(irq_line)}

\* Mutant: the loop of InitPic does not advance.
NextLineStuck(i) == i
NextLine(i) == i + 1

\* The loop of InitPic: SetMask(i) reads the mask, then writes it.
SetMask ==
  /\ Running
  /\ \/ /\ pc = "mask"
        /\ value' = Inb(DataPort(step))
        /\ pc' = "setmask"
        /\ UNCHANGED <<step, chips>>
     \/ /\ pc = "setmask"
        /\ Outb(DataPort(step), Masked(step))
        /\ step' = NextLine(step)
        /\ pc' = IF step' < 8 THEN "mask" ELSE "unmask"
        /\ UNCHANGED value
  /\ UNCHANGED <<saved, loader, idt, bios, iflag, handlers, kbdVars, shown>>

\* ClearMask(kKeyboard).
ClearMask ==
  /\ Running
  /\ \/ /\ pc = "unmask"
        /\ value' = Inb(DataPort(kKeyboard))
        /\ pc' = "clearmask"
        /\ UNCHANGED chips
     \/ /\ pc = "clearmask"
        /\ Outb(DataPort(kKeyboard), value \ {LineBit(kKeyboard)})
        /\ pc' = "frames"
        /\ UNCHANGED value
  /\ UNCHANGED <<step, saved, loader, idt, bios, iflag, handlers, kbdVars, shown>>

\* InitPhysicalFrameAllocator (module FrameAllocator), then Halt.
InitFrames ==
  /\ Running
  /\ pc = "frames"
  /\ pc' = "halt"
  /\ UNCHANGED <<step, value, saved, loader, idt, bios, iflag, chips, handlers,
                 kbdVars, shown>>

KernelMain ==
  VerifyBootLoader \/ InitIdt \/ PicInit \/ SetMask \/ ClearMask \/ InitFrames

-----------------------------------------------------------------------------
(***************************************************************************)
(* Interrupts.  The stubs run with interrupts off, so that an activation   *)
(* ends before the next begins; iret restores the flags of the interrupted *)
(* code, which accepted interrupts.                                        *)
(***************************************************************************)
Top == handlers[Len(handlers)]

\* Mutant: a trap gate and a stub without cli leave interrupts on.
EntryFlagTrap == TRUE
EntryFlag == FALSE

\* Where the handler of a vector starts: isr_handler for the 32 exceptions;
\* in irq_handler the keyboard's case or the default one.
HandlerEntry(vector) ==
  CASE vector \in IsrVectors -> "panic"
    [] vector = 32 + kKeyboard -> "read"
    [] OTHER -> "default"

\* The processor takes an interrupt: the highest request of the master, or of
\* the slave behind its cascade input, goes into service and its vector
\* selects a gate.  An absent gate is an exception itself.
Interrupt ==
  /\ iflag
  /\ LET both == WithSlave(master, slave)
     IN  /\ Requests(both) # {}
         /\ LET line    == Min(Requests(both))
                chained == line = Cascade /\ Requests(slave) # {}
                line2   == Min(Requests(slave))
                vector  == IF chained THEN Vector(slave, line2)
                                      ELSE Vector(master, line)
                taken   == IF vector \in idt THEN vector ELSE kNotPresent
            IN  /\ master' = Acknowledge(both, line)
                /\ slave' = IF chained THEN Acknowledge(slave, line2) ELSE slave
                /\ handlers' = Append(handlers, [at |-> HandlerEntry(taken),
                                                 vector |-> taken,
                                                 scan_code |-> 0])
  /\ iflag' = EntryFlag
  /\ UNCHANGED <<kernelVars, bios, kbdVars, shown>>

InHandler(at) == ~Running /\ Top.at = at

Continue(at, scan_code) ==
  handlers' = [handlers EXCEPT ![Len(handlers)] =
                 [@ EXCEPT !.at = at, !.scan_code = scan_code]]

\* Mutant: ret in place of iret does not restore the flags.
Ret ==
  /\ handlers' = SubSeq(handlers, 1, Len(handlers) - 1)
  /\ iflag' = iflag

Iret ==
  /\ handlers' = SubSeq(handlers, 1, Len(handlers) - 1)
  /\ iflag' = TRUE

\* ReadScanCode: the data port is read, which empties the buffer of the
\* keyboard controller and drops its interrupt line.
ReadScanCode ==
  /\ InHandler("read")
  /\ Continue("eoi", IF loaded = 0 THEN 0 ELSE typed[loaded])
  /\ full' = FALSE
  /\ UNCHANGED <<kernelVars, bios, iflag, chips, typed, loaded, shown>>

\* Mutant: a keyboard handler that tells the slave only.
SendEOIOne(irq) ==
  /\ slave' = WriteCommand(slave, kEoi)
  /\ master' = master

SendEOI(irq) ==
  /\ slave' = IF irq >= 8 THEN WriteCommand(slave, kEoi) ELSE slave
  /\ master' = WriteCommand(master, kEoi)

\* ReadScanCode sends the EOI before the character is printed.
AcknowledgeScanCode ==
  /\ InHandler("eoi")
  /\ SendEOI(kKeyboard)
  /\ Continue("print", Top.scan_code)
  /\ UNCHANGED <<kernelVars, bios, iflag, kbdVars, shown>>

\* Mutant: the test for codes that are not in the layout is off by one.
InLayoutInclusive(scan_code) == scan_code <= kNumKeys
InLayout(scan_code) == scan_code < kNumKeys

\* PrintAsciiChar, and the end of the handler.
PrintAsciiChar ==
  /\ InHandler("print")
  /\ shown' = IF InLayout(Top.scan_code) THEN Append(shown, Top.scan_code) ELSE shown
  /\ Iret
  /\ UNCHANGED <<kernelVars, bios, chips, kbdVars>>

\* The default case of irq_handler reports the interrupt and returns; it does
\* not send an EOI.
UnhandledIrq ==
  /\ InHandler("default")
  /\ Iret
  /\ UNCHANGED <<kernelVars, bios, chips, kbdVars, shown>>

Handler == ReadScanCode \/ AcknowledgeScanCode \/ PrintAsciiChar \/ UnhandledIrq

-----------------------------------------------------------------------------
(***************************************************************************)
(* The devices.  The timer and a disk on the slave raise edges at any      *)
(* time.  The keyboard controller holds one code; its line is high while   *)
(* it holds one, so the next edge comes only after a read.                 *)
(***************************************************************************)
TimerTick ==
  /\ master' = Edge(master, 0)
  /\ UNCHANGED <<kernelVars, bios, iflag, slave, handlers, kbdVars, shown>>

DiskInterrupt ==
  /\ slave' = Edge(slave, 6)
  /\ UNCHANGED <<kernelVars, bios, iflag, master, handlers, kbdVars, shown>>

KeyPress ==
  /\ Len(typed) < MaxKeys
  /\ \E code \in ScanCodes : typed' = Append(typed, code)
  /\ UNCHANGED <<kernelVars, bios, iflag, chips, handlers, loaded, full, shown>>

LoadKey ==
  /\ ~full
  /\ loaded < Len(typed)
  /\ loaded' = loaded + 1
  /\ full' = TRUE
  /\ master' = Edge(master, kKeyboard)
  /\ UNCHANGED <<kernelVars, bios, iflag, slave, handlers, typed, shown>>

Devices == TimerTick \/ DiskInterrupt \/ KeyPress \/ LoadKey

Next == KernelMain \/ Interrupt \/ Handler \/ Devices

(***************************************************************************)
(* The processor keeps executing and takes an interrupt that stays         *)
(* pending; the keyboard controller passes on what the keyboard sent.      *)
(* Nothing forces a device to interrupt.                                   *)
(***************************************************************************)
Fairness ==
  /\ WF_vars(KernelMain)
  /\ WF_vars(Interrupt)
  /\ WF_vars(Handler)
  /\ WF_vars(LoadKey)

Spec == Init /\ [][Next]_vars /\ Fairness

-----------------------------------------------------------------------------
(***************************************************************************)
(* Properties.                                                             *)
(***************************************************************************)
Locations ==
  {"magic", "meminfo", "stopped", "idt", "sti", "save1", "save2", "words",
   "restore", "mask", "setmask", "unmask", "clearmask", "frames", "halt"}

\* Types; at most one handler is active, as the stubs switch interrupts off.
TypeOK ==
  /\ pc \in Locations
  /\ step \in 0 .. 8
  /\ value \in Byte
  /\ saved \in Byte \X Byte
  /\ bios \in BiosMasks
  /\ iflag \in BOOLEAN
  /\ idt \subseteq 0 .. 255
  /\ master \in Chip
  /\ slave \in Chip
  /\ \/ handlers = <<>>
     \/ \E at \in {"panic", "read", "eoi", "print", "default"},
           vector \in idt, code \in ScanCodes \cup {0} :
           handlers = <<[at |-> at, vector |-> vector, scan_code |-> code]>>
  /\ typed \in Seq(ScanCodes)
  /\ loaded \in 0 .. Len(typed)
  /\ full \in BOOLEAN
  /\ shown \in Seq(ScanCodes)

\* isr_handler has been entered: the machine is halted for good.
Panicked == \E i \in 1 .. Len(handlers) : handlers[i].at = "panic"

\* A device interrupt is taken for an exception only before pic::Init starts:
\* from its first word on, whatever the devices do and wherever the two chips
\* are in their initialisation, no interrupt ends in isr_handler.
RemapEndsPanics ==
  [][~Panicked /\ Panicked' => pc \in {"save1", "save2"}
                               \/ (pc = "words" /\ step = 1)]_vars

\* pic::Init gives the slave the mask of the BIOS back although ICW1 cleared
\* it, and when kernel_main is done the keyboard alone is unmasked on the
\* master, which also cuts off the slave.
BootedMasks ==
  pc \in {"frames", "halt"} =>
    /\ master.imr = Lines \ {kKeyboard}
    /\ slave.imr = bios[2]

\* The EOI is non-specific, yet it retires the keyboard's interrupt and no
\* other, even when unhandled interrupts are still in service.
EoiRetiresKeyboard ==
  [][AcknowledgeScanCode => /\ kKeyboard \in master.isr
                            /\ master.isr' = master.isr \ {kKeyboard}]_vars

\* The positions of the codes that are in the layout, among the first n.
Showable(n) == {k \in 1 .. n : typed[k] < kNumKeys}

\* Shown are the first n codes without those that are not in the layout: each of
\* them is at the place that the number of showable codes up to it gives.
ShownAre(n) ==
  /\ Len(shown) = Cardinality(Showable(n))
  /\ \A k \in Showable(n) : shown[Cardinality(Showable(k))] = typed[k]

\* The characters on the screen are those of the keys, in the order typed and
\* each once; codes that are not in the layout (key releases) show nothing.
ShownInOrder == \E n \in 0 .. Len(typed) : ShownAre(n)

AllShown == ShownAre(Len(typed))

\* kernel_main reaches its halt loop, stops at a boot loader it does not
\* know, or is caught in isr_handler: interrupts never keep it from going on.
BootEnds == <>(pc \in {"halt", "stopped"} \/ Panicked)

\* The keyboard works: the timer is not in service and a code in the buffer
\* has a request latched or is being handled.
KeyboardUp ==
  /\ pc = "halt"
  /\ 0 \notin master.isr
  /\ full => kKeyboard \in master.irr \cup master.isr

\* If the keyboard works when kernel_main is done, then it keeps working and
\* every key appears on the screen.
KeysAppear == KeyboardUp ~> AllShown

(***************************************************************************)
(* What the comments of the code say and the code does not keep.           *)
(***************************************************************************)

\* Once the keyboard's mask is cleared, a key that is typed is printed.
KeyboardServed == pc = "halt" ~> AllShown
=============================================================================
