------------------------------ MODULE Handlers ------------------------------
(***************************************************************************)
(* An interrupt through its stub and its handler, which logs the number of *)
(* an interrupt that nothing handles:                                      *)
(*   src/InterruptDescriptorTable/InterruptHandler.cc                      *)
(* or a call that logs any other message.  The two are not interleaved:    *)
(* the messages kernel_main logs have no arguments, so an interrupted call *)
(* and the handler's have not even log_buffer_ in common.                  *)
(***************************************************************************)
EXTENDS InterruptStub, Logger

vars == <<stubVars, logVars>>

kKeyboard == 1

\* The messages of isr_handler and irq_handler; their words are one character here.
UnhandledMessage(v) == <<IF v \in Irqs THEN "IRQ" ELSE "exception", "%", "X", "LF">>

UnsignedArg(n) == [type |-> "kUInt", value |-> n]

ASSUME HandlersAssumption ==
  /\ IntMax >= 47
  /\ \A v \in 0 .. 47 :
       /\ UnhandledMessage(v) \in Formats
       /\ \A n \in 0 .. 47 : UnsignedArg(n) \in Args(UnhandledMessage(v))

-----------------------------------------------------------------------------
NotLogging ==
  /\ level = "[INFO] " /\ fmt = <<>> /\ args = <<>>
  /\ pc = "idle"
  /\ i = 0 /\ arg_index = 0 /\ log_buffer = <<>> /\ out = <<>>

\* An interrupt that does not come.
NoInterrupt ==
  /\ vector = 0
  /\ before = (CHOOSE c \in Contexts : TRUE)
  /\ top = (CHOOSE t \in Tops : TRUE)

Init == StubInit /\ (NotLogging \/ (NoInterrupt /\ LogInit))

\* isr_handler handles nothing, irq_handler the keyboard.
Unhandled == vector \in Irqs => Field("int_no") # kKeyboard

\* Mutant: the other word behind the registers.
UnhandledNumberErrCode == ToUInt(Field("err_code"))
UnhandledNumber == ToUInt(Field("int_no"))

\* The handler calls LOG_ERROR.
LogError ==
  /\ InHandler /\ Unhandled
  /\ pc = "idle" /\ pc' = "log"
  /\ level' = "[ERROR] "
  /\ fmt' = UnhandledMessage(vector)
  /\ args' = <<UnsignedArg(UnhandledNumber)>>
  /\ UNCHANGED <<i, arg_index, log_buffer, out, stubVars>>

\* The stub; a handler that logs returns only when its message is out.
StubStep ==
  /\ StubNext
  /\ at = 0 => pc = "idle"
  /\ InHandler /\ Unhandled => pc = "returned"
  /\ UNCHANGED logVars

LogStep == LogNext /\ UNCHANGED stubVars

Next == StubStep \/ LogError \/ LogStep

Spec == Init /\ [][Next]_vars

(***************************************************************************)
(* Properties.                                                             *)
(***************************************************************************)

\* The message of an unhandled interrupt names it: from the push of its number by the stub,
\* through the context the handler is passed and the digits the logger makes, what is put
\* out is the number of this exception or IRQ, whatever the stack held.
UnhandledIsNamed ==
  (InHandler /\ pc = "returned") =>
    /\ level = "[ERROR] "
    /\ out = <<level>> \o Text(UnhandledMessage(vector), <<UnsignedArg(Number(vector))>>)
=============================================================================
