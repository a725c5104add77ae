-------------------------------- MODULE Libc --------------------------------
(***************************************************************************)
(* Calls of libc: any sequence of memory functions, or one call that       *)
(* prints, which neither reads nor writes what the others work on.         *)
(***************************************************************************)
EXTENDS LibcString, LibcPrintf

vars == <<stringVars, printfVars>>

\* No call that prints is under way.
NotPrinting ==
  /\ callee = "none"
  /\ format = <<>> /\ args = <<>> /\ given = <<>> /\ put = <<>>
  /\ pos = 0 /\ written = 0 /\ result = 0
  /\ pc = "returned"

Init ==
  \/ StringInit /\ NotPrinting
  \/ PrintfInit /\ mem = [a \in Addresses |-> 0] /\ call = [f |-> "none"]

MemoryCall == callee = "none" /\ StringNext /\ UNCHANGED printfVars
PrintStep == PrintfNext /\ UNCHANGED stringVars

Next == MemoryCall \/ PrintStep

Spec == Init /\ [][Next]_vars
=============================================================================
