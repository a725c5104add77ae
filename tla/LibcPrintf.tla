----------------------------- MODULE LibcPrintf -----------------------------
(***************************************************************************)
(* One call of printf, puts or abort:                                      *)
(*   src/libc/stdio/{printf,puts,putchar}.c, src/libc/stdlib/abort.c       *)
(* format[k] of the code is At(pos + k); the character after the last one  *)
(* is the NUL.  putchar returns its argument and never EOF, so print never *)
(* fails; what it is handed is put.                                        *)
(***************************************************************************)
EXTENDS Integers, Sequences, SequencesExt

CONSTANTS
  IntMax,     \* INT_MAX
  Formats,    \* format strings of printf
  Strings     \* string arguments; a character argument is a string of length 1

ASSUME LibcPrintfAssumption ==
  /\ IntMax \in Nat
  /\ Formats \subseteq Seq(STRING \ {"NUL"})
  /\ Strings \subseteq Seq(STRING)

VARIABLES
  callee,     \* "printf", "puts" or "abort", "none" if none is called
  format,     \* the format string
  args,       \* the arguments va_arg has not yet returned
  given,      \* all of them
  pos,        \* how far the pointer format has moved
  written,    \* written
  put,        \* what putchar has been handed
  pc,         \* "running", "returned", or "hung" in abort's loop
  result      \* what printf has returned

printfVars == <<callee, format, args, given, pos, written, put, pc, result>>

-----------------------------------------------------------------------------
(***************************************************************************)
(* What a format stands for, position by position.                         *)
(***************************************************************************)

\* The role of position k of f, after a position of role before: a character to be
\* put, the beginning of a conversion or of a %%, the second character of a
\* conversion, or part of an unknown conversion and what follows it.
NextRole(f, k, before) ==
  LET next == IF k < Len(f) THEN f[k + 1] ELSE "NUL"
  IN  IF before = "rest" THEN "rest"
      ELSE IF before \in {"c", "s"} THEN "second"
      ELSE IF before = "%%" \/ f[k] # "%" THEN "char"
      ELSE IF next = "%" THEN "%%"
      ELSE IF next \in {"c", "s"} THEN next ELSE "rest"

Role(f) ==
  LET role[k \in 0 .. Len(f)] == IF k = 0 THEN "none" ELSE NextRole(f, k, role[k - 1])
  IN  role

\* How many conversions begin in the first k characters of f.
Taken(f) ==
  LET taken[k \in 0 .. Len(f)] ==
        IF k = 0 THEN 0
        ELSE taken[k - 1] + (IF Role(f)[k] \in {"c", "s"} THEN 1 ELSE 0)
  IN  taken

\* What position k of f puts, with the arguments a.
Piece(f, a, k) ==
  CASE Role(f)[k] \in {"char", "rest"} -> <<f[k]>>
    [] Role(f)[k] \in {"%%", "second"} -> <<>>
    [] OTHER -> a[Taken(f)[k]]

\* The text of the first k characters of f.
TextUpTo(f, a) ==
  LET text[k \in 0 .. Len(f)] == IF k = 0 THEN <<>> ELSE text[k - 1] \o Piece(f, a, k)
  IN  text

Text(f, a) == TextUpTo(f, a)[Len(f)]

-----------------------------------------------------------------------------
At(k) == IF k < Len(format) THEN format[k + 1] ELSE "NUL"

PrintfInit ==
  /\ callee \in {"printf", "puts", "abort"}
  /\ CASE callee = "printf" -> format \in Formats
       [] callee = "puts"   -> format = <<"%", "s", "newline">>
       [] callee = "abort"  -> format = <<"kernel: panic: abort()", "newline">>
  /\ args \in [1 .. Taken(format)[Len(format)] -> Strings]
  /\ \A k \in 1 .. Len(format) :
       Role(format)[k] = "c" => Len(args[Taken(format)[k]]) = 1
  /\ given = args
  /\ pos = 0
  /\ written = 0
  /\ put = <<>>
  /\ pc = "running"
  /\ result = 0

\* size_t maxrem = INT_MAX - written
maxrem == IntMax - written

\* printf returns r; puts returns it too, abort enters its loop.
Finish(r) ==
  /\ pc' = IF callee = "abort" THEN "hung" ELSE "returned"
  /\ result' = r

Overflows(amount) == maxrem < amount

\* print amount characters of s and go on at position next, or return -1.
PrintOrFail(s, next) ==
  IF Overflows(Len(s))
  THEN Finish(-1) /\ UNCHANGED <<pos, written, put>>
  ELSE /\ put' = put \o s
       /\ written' = written + Len(s)
       /\ pos' = next
       /\ UNCHANGED <<pc, result>>

\* Mutant: the run of characters is taken from the first % of a %%.
RunStartKept == pos
\* A %% is skipped to its second %.
RunStart == IF At(pos) = "%" THEN pos + 1 ELSE pos

\* The run has one character at least and ends before the next %.
RunEnd ==
  LET amount[k \in Nat] ==
        IF At(RunStart + k) \in {"NUL", "%"} THEN k ELSE amount[k + 1]
  IN  RunStart + amount[1]

\* A run of ordinary characters.
PrintRun ==
  /\ pc = "running"
  /\ At(pos) # "NUL"
  /\ At(pos) # "%" \/ At(pos + 1) = "%"
  /\ PrintOrFail(SubSeq(format, RunStart + 1, RunEnd), RunEnd)
  /\ UNCHANGED <<callee, format, args, given>>

\* %c and %s.
PrintArg ==
  /\ pc = "running"
  /\ At(pos) = "%"
  /\ At(pos + 1) \in {"c", "s"}
  /\ args' = Tail(args)
  /\ PrintOrFail(Head(args), pos + 2)
  /\ UNCHANGED <<callee, format, given>>

\* Any other conversion: the rest of the format, its % included.
PrintRest ==
  /\ pc = "running"
  /\ At(pos) = "%"
  /\ At(pos + 1) \notin {"c", "s", "%"}
  /\ PrintOrFail(SubSeq(format, pos + 1, Len(format)), Len(format))
  /\ UNCHANGED <<callee, format, args, given>>

\* The end of the format.
Return ==
  /\ pc = "running"
  /\ At(pos) = "NUL"
  /\ Finish(written)
  /\ UNCHANGED <<callee, format, args, given, pos, written, put>>

PrintfNext == PrintRun \/ PrintArg \/ PrintRest \/ Return

-----------------------------------------------------------------------------
(***************************************************************************)
(* Properties.                                                             *)
(***************************************************************************)

\* A result that is not -1 counts the characters put, which are the text of the
\* format; -1 means that the text is longer than an int can count, and that only a
\* beginning of it has been put.
CountsTheText ==
  LET text == Text(format, given)
  IN  /\ IsPrefix(put, text)
      /\ (pc # "running") =>
           IF result = -1 THEN Len(text) > IntMax ELSE put = text /\ result = Len(text)
=============================================================================
