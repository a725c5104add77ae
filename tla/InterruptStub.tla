--------------------------- MODULE InterruptStub ----------------------------
(***************************************************************************)
(* One interrupt, from the processor's frame through the assembly stubs to *)
(* the C++ handler and back:                                               *)
(*   src/InterruptDescriptorTable/InterruptHandler.{nasm,cc}               *)
(*   include/InterruptDescriptorTable/InterruptHandler.h                   *)
(* Every instruction of a stub is a step.  Stack addresses count 32-bit    *)
(* words: 16-byte alignment is a multiple of 4.  The gates clear IF, so no *)
(* other maskable interrupt comes in between.                              *)
(***************************************************************************)
EXTENDS Integers, Sequences, SequencesExt

CONSTANTS
  StackSize,  \* words of the stack
  Tops,       \* where esp may be when the interrupt comes
  Contexts,   \* the registers of the interrupted code, esp not among them
  ErrCode     \* what the processor pushes as an error code

General  == <<"eax", "ecx", "edx", "ebx", "ebp", "esi", "edi">>
Segments == <<"ds", "es", "fs", "gs">>
CpuFrame == <<"eflags", "cs", "eip">>
Registers == ToSet(General) \cup ToSet(Segments) \cup ToSet(CpuFrame) \cup {"cr2"}

ASSUME StubAssumption ==
  /\ StackSize \in Nat
  /\ \A t \in Tops : t \in 24 .. StackSize
  /\ \A c \in Contexts : c \in [Registers -> Nat]
  /\ ErrCode \in Nat

VARIABLES
  vector,     \* the interrupt's vector
  before,     \* the interrupted registers
  top,        \* esp of the interrupted code
  at,         \* the next instruction of the stub; 0 before, behind the iret at the end
  regs,       \* the registers
  esp,        \* the stack pointer
  stack       \* the words of the stack

stubVars == <<vector, before, top, at, regs, esp, stack>>

-----------------------------------------------------------------------------
(***************************************************************************)
(* The stubs as programs.                                                  *)
(***************************************************************************)
Irqs == 32 .. 47

\* Exceptions for which the processor pushes an error code.
CpuPushesErrCode == {8, 10, 11, 12, 13, 14, 17, 30}

\* Mutant: isr17 is made by the other macro.
ErrCodeStubsShort == {8} \cup 10 .. 14 \cup {30}
\* The stubs made by ISR_ERRCODE.
ErrCodeStubs == {8} \cup 10 .. 14 \cup {17, 30}

\* What the stub of a vector pushes as its number.
Number(v) == IF v \in Irqs THEN v - 32 ELSE v

Ins(op, r, s) == [op |-> op, r |-> r, s |-> s]
Push(r) == Ins("push", r, r)
Pop(r) == Ins("pop", r, r)
Mov(r, s) == Ins("mov", r, s)

CommonStub == <<
  Push("eax"), Push("ecx"), Push("edx"), Push("ebx"), Push("ebp"), Push("esi"), Push("edi"),
  Mov("ebp", "ds"), Push("ebp"), Mov("ebp", "es"), Push("ebp"),
  Mov("ebp", "fs"), Push("ebp"), Mov("ebp", "gs"), Push("ebp"),
  Ins("load", "ebp", "0x10"),
  Mov("ds", "ebp"), Mov("es", "ebp"), Mov("fs", "ebp"), Mov("gs", "ebp"),
  Mov("ebp", "cr2"), Push("ebp"),
  Ins("pass", "ebx", "esp"), Ins("call", "handler", ""), Ins("unwind", "esp", "ebx"),
  Pop("ebp"), Mov("cr2", "ebp"),
  Pop("ebp"), Mov("gs", "ebp"), Pop("ebp"), Mov("fs", "ebp"),
  Pop("ebp"), Mov("es", "ebp"), Pop("ebp"), Mov("ds", "ebp"),
  Pop("edi"), Pop("esi"), Pop("ebp"), Pop("ebx"), Pop("edx"), Pop("ecx"), Pop("eax"),
  Ins("discard", "esp", "8"), Ins("iret", "", "") >>

-----------------------------------------------------------------------------
StubInit ==
  /\ vector \in 0 .. 47
  /\ before \in Contexts
  /\ top \in Tops
  /\ at = 0
  /\ regs = before
  /\ esp = top
  /\ stack = [a \in 0 .. (StackSize - 1) |-> 0]

\* words pushed, the last one on top
PushAll(words) ==
  /\ esp' = esp - Len(words)
  /\ stack' = [a \in DOMAIN stack |->
                 IF a \in (esp - Len(words)) .. (esp - 1) THEN words[esp - a] ELSE stack[a]]

\* The processor's frame (the kernel does not leave ring 0: no esp, no ss), whose
\* registers change to those of the handler, then the instructions of the stub of this
\* vector up to its jump.
Deliver ==
  /\ at = 0
  /\ LET frame == <<regs["eflags"], regs["cs"], regs["eip"]>>
         error == IF vector \in CpuPushesErrCode THEN <<ErrCode>> ELSE <<>>
         zero  == IF vector \in ErrCodeStubs THEN <<>> ELSE <<0>>
     IN  PushAll(frame \o error \o zero \o <<Number(vector)>>)
  /\ regs' = [r \in Registers |-> IF r \in ToSet(CpuFrame) THEN 0 ELSE regs[r]]
  /\ at' = 1
  /\ UNCHANGED <<vector, before, top>>

Current(op) == at > 0 /\ at <= Len(CommonStub) /\ CommonStub[at].op = op
Operand == CommonStub[at].r
Source == CommonStub[at].s
Advance == at' = at + 1 /\ UNCHANGED <<vector, before, top>>

PushRegister ==
  /\ Current("push")
  /\ PushAll(<<regs[Operand]>>)
  /\ Advance
  /\ UNCHANGED regs

PopRegister ==
  /\ Current("pop")
  /\ regs' = [regs EXCEPT ![Operand] = stack[esp]]
  /\ esp' = esp + 1
  /\ Advance
  /\ UNCHANGED stack

\* mov between registers, and mov ebp, 0x10.
Move ==
  /\ Current("mov") \/ Current("load")
  /\ regs' = [regs EXCEPT ![Operand] = IF Current("load") THEN 16 ELSE regs[Source]]
  /\ Advance
  /\ UNCHANGED <<esp, stack>>

\* sub esp, 4; and esp, 0xFFFFFFF0
ArgumentSlot == ((esp - 1) \div 4) * 4

\* The stack pointer is kept in ebx and passed to the handler.
PassContext ==
  /\ Current("pass")
  /\ regs' = [regs EXCEPT !["ebx"] = esp]
  /\ esp' = ArgumentSlot
  /\ stack' = [stack EXCEPT ![ArgumentSlot] = esp]
  /\ Advance

\* irq_handler returns; it may have changed the registers a callee need not keep,
\* its argument and the stack below.  isr_handler halts.
CallHandler ==
  /\ Current("call")
  /\ vector \in Irqs
  /\ regs' = [r \in Registers |-> IF r \in {"eax", "ecx", "edx"} THEN 0 ELSE regs[r]]
  /\ stack' = [a \in DOMAIN stack |-> IF a <= esp THEN 0 ELSE stack[a]]
  /\ Advance
  /\ UNCHANGED esp

\* mov esp, ebx
Unwind ==
  /\ Current("unwind")
  /\ esp' = regs["ebx"]
  /\ Advance
  /\ UNCHANGED <<regs, stack>>

\* Mutant: add esp, 4.
DiscardedNumber == 1

\* add esp, 8: the number and the error code.
Discarded == 2

Discard ==
  /\ Current("discard")
  /\ esp' = esp + Discarded
  /\ Advance
  /\ UNCHANGED <<regs, stack>>

Iret ==
  /\ Current("iret")
  /\ regs' = [r \in Registers |->
                CASE r = "eip" -> stack[esp]
                  [] r = "cs" -> stack[esp + 1]
                  [] r = "eflags" -> stack[esp + 2]
                  [] OTHER -> regs[r]]
  /\ esp' = esp + 3
  /\ Advance
  /\ UNCHANGED stack

StubNext ==
  \/ Deliver \/ PushRegister \/ PopRegister \/ Move \/ PassContext
  \/ CallHandler \/ Unwind \/ Discard \/ Iret

-----------------------------------------------------------------------------
(***************************************************************************)
(* What the handler is handed.                                             *)
(***************************************************************************)
\* The fields of the structure and their offsets, in words.
InterruptContext ==
  [cr2 |-> 0, gs |-> 1, fs |-> 2, ds |-> 3, es |-> 4, edi |-> 5, esi |-> 6, ebp |-> 7,
   ebx |-> 8, edx |-> 9, ecx |-> 10, eax |-> 11, int_no |-> 12, err_code |-> 13,
   cs |-> 14, eflags |-> 15, esp |-> 16, ss |-> 17]

\* int_context->f, in the handler.
Field(f) == stack[stack[esp] + InterruptContext[f]]

\* The call instruction is next, or a handler that never returns has been entered.
InHandler == Current("call")

(***************************************************************************)
(* Properties.                                                             *)
(***************************************************************************)

\* The registers that the structure looks for where the stubs put them.  It has ds and es
\* the other way about, and begins the processor's frame a word late, without eip.
WellPlaced == ToSet(General) \cup {"cr2", "gs", "fs"}

\* The handler is called with an aligned stack, and in its context int_no and err_code are
\* the interrupt's, and eax, ecx, edx, ebx, ebp, esi, edi, cr2, gs and fs the interrupted
\* registers.  Of ds, es, cs, eflags, esp and ss it says nothing.
HandlerSeesInterrupt ==
  InHandler =>
    /\ esp % 4 = 0
    /\ Field("int_no") = Number(vector)
    /\ Field("err_code") = (IF vector \in CpuPushesErrCode THEN ErrCode ELSE 0)
    /\ \A r \in WellPlaced : Field(r) = before[r]

\* An interrupt that returns leaves no trace: every register, eip and eflags
\* included, and the stack pointer are those of the interrupted code.
ReturnsToInterrupted == at > Len(CommonStub) => regs = before /\ esp = top
=============================================================================
