------------------------------- MODULE Logger -------------------------------
(***************************************************************************)
(* One call of LOG_INFO, LOG_WARN, LOG_ERROR or LOG_DEBUG:                 *)
(*   src/Logger/Logger.cc, include/Logger/Logger.h                         *)
(* Strings are sequences of characters; fmt[i] of the code is the element  *)
(* i + 1 here, and the element after the last one is the NUL.  The writer, *)
(* a FrameBuffer or a SerialPort, is what it is handed.                    *)
(***************************************************************************)
EXTENDS Integers, Sequences, SequencesExt

CONSTANTS
  IntMax,     \* INT_MAX
  Formats,    \* format strings
  Args(_)     \* the arguments, [type, value], tried with a format

UIntMod == 2 * (IntMax + 1)
IntMin  == -IntMax - 1

ASSUME LoggerAssumption ==
  /\ IntMax \in Nat
  /\ Formats \subseteq Seq(STRING \ {"NUL"})
  /\ \A f \in Formats : \A a \in Args(f) :
       \/ a.type = "kInt" /\ a.value \in IntMin .. IntMax
       \/ a.type = "kUInt" /\ a.value \in 0 .. (UIntMod - 1)
       \/ a.type = "kChar" /\ a.value \in STRING
       \/ a.type = "kStr" /\ a.value \in Seq(STRING) /\ Len(a.value) < 256

VARIABLES
  level,      \* the log level
  fmt,        \* the format string
  args,       \* arg_array
  pc,         \* "log", "printf", "returned", or "beyond" the format string
  i,          \* the index of Printf's loops
  arg_index,  \* arg_index
  log_buffer, \* log_buffer_ up to its first NUL
  out         \* what the writer has been handed

logVars == <<level, fmt, args, pc, i, arg_index, log_buffer, out>>

-----------------------------------------------------------------------------
(***************************************************************************)
(* Numbers.                                                                *)
(***************************************************************************)
DigitChars == <<"0", "1", "2", "3", "4", "5", "6", "7", "8", "9",
                "A", "B", "C", "D", "E", "F">>

\* '0' + digit of a negative digit is some other character.
DigitChar(d) == IF d \in 0 .. 15 THEN DigitChars[d + 1] ELSE "garbage"

\* The digits of n >= 0, last one first; none for 0.
Digits(n, base) ==
  LET digits[k \in Nat] ==
        IF k = 0 THEN <<>> ELSE <<DigitChar(k % base)>> \o digits[k \div base]
  IN  digits[n]

\* LogBufferReverse(0, i - 1).
LogBufferReverse(s) == Reverse(s)

\* n *= -1 overflows for the least int: its digits are negative (n % 10), or the
\* compiler divides as unsigned.
Magnitudes(n) ==
  LET digits == Digits(IF n < 0 THEN -n ELSE n, 10)
      Negative(c) == IF c = "0" THEN "0" ELSE DigitChar(-1)
  IN  {digits} \cup
      (IF n = IntMin THEN {[k \in DOMAIN digits |-> Negative(digits[k])]} ELSE {})

Sign(n) == IF n < 0 THEN <<"-">> ELSE <<>>

\* The strings SetLogBuffer may leave; no caller asks for more digits.
SetLogBuffer(n) == {LogBufferReverse(digits \o Sign(n)) : digits \in Magnitudes(n)}

\* The overload for unsigned int.
SetLogBufferUnsigned(n) == LogBufferReverse(Digits(n, 10))

\* Mutant: the prefix is not appended.
SetLogBufferHexBare(n) ==
  IF n = 0 THEN <<"0", "x", "0">> ELSE LogBufferReverse(Digits(n, 16))
SetLogBufferHex(n) ==
  IF n = 0 THEN <<"0", "x", "0">> ELSE LogBufferReverse(Digits(n, 16) \o <<"x", "0">>)

\* GetValue<int> and GetValue<unsigned int> convert what the Arg was made from.
ToUInt(v) == v % UIntMod
ToInt(v)  == IF ToUInt(v) > IntMax THEN ToUInt(v) - UIntMod ELSE ToUInt(v)

-----------------------------------------------------------------------------
(***************************************************************************)
(* Log and Printf.                                                         *)
(***************************************************************************)
Levels == {"[INFO] ", "[WARN] ", "[ERROR] ", "[DEBUG] "}
Numbers == {"d", "u", "x", "X"}
Specifiers == Numbers \cup {"c", "s"}

At(k) == IF k = Len(fmt) THEN "NUL" ELSE fmt[k + 1]

\* Each specifier has an argument it can show.
Suits(c, a) ==
  CASE c \in Numbers -> a.type \in {"kInt", "kUInt"}
    [] c = "c" -> a.type = "kChar"
    [] c = "s" -> a.type = "kStr"

\* The role of position k of f, after a position of role before: a character to be
\* printed, the % of a specifier, known or not, or the character behind that %.
NextRole(f, k, before) ==
  IF before \in Specifiers \cup {"unknown"} THEN "second"
  ELSE IF f[k] # "%" THEN "char"
  ELSE IF k < Len(f) /\ f[k + 1] \in Specifiers THEN f[k + 1] ELSE "unknown"

Role(f) ==
  LET role[k \in 0 .. Len(f)] == IF k = 0 THEN "none" ELSE NextRole(f, k, role[k - 1])
  IN  role

\* How many specifiers that take an argument begin in the first k characters of f.
Taken(f) ==
  LET taken[k \in 0 .. Len(f)] ==
        IF k = 0 THEN 0
        ELSE taken[k - 1] + (IF Role(f)[k] \in Specifiers THEN 1 ELSE 0)
  IN  taken

LogInit ==
  /\ level \in Levels
  /\ fmt \in Formats
  /\ args \in [1 .. Taken(fmt)[Len(fmt)] -> Args(fmt)]
  /\ \A k \in 1 .. Len(fmt) :
       Role(fmt)[k] \in Specifiers => Suits(Role(fmt)[k], args[Taken(fmt)[k]])
  /\ pc = "log"
  /\ i = 0
  /\ arg_index = 0
  /\ log_buffer = <<>>
  /\ out = <<>>

Log ==
  /\ pc = "log"
  /\ pc' = "printf"
  /\ out' = <<level>>
  /\ UNCHANGED <<level, fmt, args, i, arg_index, log_buffer>>

\* The inner loop, or the return at the end of the format.
PrintLiteral ==
  /\ pc = "printf"
  /\ At(i) # "%"
  /\ IF At(i) = "NUL"
     THEN pc' = "returned" /\ UNCHANGED <<i, out>>
     ELSE i' = i + 1 /\ out' = Append(out, At(i)) /\ UNCHANGED pc
  /\ UNCHANGED <<level, fmt, args, arg_index, log_buffer>>

Value == args[arg_index + 1].value

\* The number goes through log_buffer_ to the writer.
PrintNumber(s) ==
  /\ log_buffer' = s
  /\ out' = out \o s

NextArg == arg_index + 1

PrintArg(c) ==
  \/ /\ c = "d"
     /\ \E s \in SetLogBuffer(ToInt(Value)) : PrintNumber(s)
  \/ /\ c = "u"
     /\ PrintNumber(SetLogBufferUnsigned(ToUInt(Value)))
  \/ /\ c \in {"x", "X"}
     /\ PrintNumber(SetLogBufferHex(ToUInt(Value)))
  \/ /\ c = "c"
     /\ out' = Append(out, Value)
     /\ UNCHANGED log_buffer
  \/ /\ c = "s"
     /\ out' = out \o Value
     /\ UNCHANGED log_buffer

\* Mutant: a specification of two characters is taken for one of three.
AfterSpecifierThree == i + 3
AfterSpecifier == i + 2

\* The switch, and the ++i of the outer loop behind it.  A character that is no
\* specifier prints nothing.
Format ==
  /\ pc = "printf"
  /\ At(i) = "%"
  /\ LET c == At(i + 1)
     IN  IF c \in Specifiers
         THEN PrintArg(c) /\ arg_index' = NextArg
         ELSE UNCHANGED <<out, log_buffer, arg_index>>
  /\ i' = AfterSpecifier
  /\ pc' = IF i' > Len(fmt) THEN "beyond" ELSE "printf"
  /\ UNCHANGED <<level, fmt, args>>

LogNext == Log \/ PrintLiteral \/ Format

-----------------------------------------------------------------------------
(***************************************************************************)
(* Reference: what each specifier should show, digit by digit from the     *)
(* left, and the text a format stands for.                                 *)
(***************************************************************************)
Power(base) == LET power[k \in Nat] == IF k = 0 THEN 1 ELSE base * power[k - 1] IN power

NumDigits(n, base) == CHOOSE k \in 1 .. (n + 1) :
  n < Power(base)[k] /\ (k = 1 \/ Power(base)[k - 1] <= n)

Numeral(n, base) ==
  LET m == NumDigits(n, base)
  IN  [k \in 1 .. m |-> DigitChars[1 + ((n \div Power(base)[m - k]) % base)]]

Shown(c, v) ==
  CASE c = "d" -> Sign(ToInt(v)) \o Numeral(IF ToInt(v) < 0 THEN -ToInt(v) ELSE ToInt(v), 10)
    [] c = "u" -> Numeral(ToUInt(v), 10)
    [] c \in {"x", "X"} -> <<"0", "x">> \o Numeral(ToUInt(v), 16)
    [] c = "c" -> <<v>>
    [] c = "s" -> v

\* Where the code parts from it: no digit is made of a decimal 0 (see DecimalsShown).
IsOmitted(c, v) == c \in {"d", "u"} /\ ToUInt(v) = 0

Printed(c, v) == IF IsOmitted(c, v) THEN <<>> ELSE Shown(c, v)

\* What position k of f puts out, with the arguments a.
Piece(f, a, k) ==
  CASE Role(f)[k] = "char" -> <<f[k]>>
    [] Role(f)[k] \in Specifiers -> Printed(Role(f)[k], a[Taken(f)[k]].value)
    [] OTHER -> <<>>

\* The text of the first k characters of f, less every decimal 0.
TextUpTo(f, a) ==
  LET text[k \in 0 .. Len(f)] == IF k = 0 THEN <<>> ELSE text[k - 1] \o Piece(f, a, k)
  IN  text

Text(f, a) == TextUpTo(f, a)[Len(f)]

(***************************************************************************)
(* Properties.                                                             *)
(***************************************************************************)

\* "%d - Signed decimal integer" and "%u - Unsigned decimal integer" (Logger.h:52-53):
\* a format that is one of them alone shows its argument as a decimal integer.  The
\* loops of SetLogBuffer make no digit of 0: this fails.
DecimalsShown ==
  (/\ pc = "returned" /\ fmt \in {<<"%", "d">>, <<"%", "u">>}
   /\ ToInt(args[1].value) # IntMin)
    => out = <<level>> \o Shown(fmt[2], args[1].value)

\* Printf shows the text its format stands for, each number as the numeral that reads
\* back to its argument, except that a decimal 0 leaves no trace in the text and that
\* nothing is said of a format that gives the least int to a %d.
PrintfShowsText ==
  (pc = "returned" /\ \A k \in 1 .. Len(fmt) :
                       Role(fmt)[k] = "d" => ToInt(args[Taken(fmt)[k]].value) # IntMin)
    => out = <<level>> \o Text(fmt, args)

\* A format is read past its NUL only if the last thing in it is a % without a
\* character behind it; every other format, with unknown specifiers too, is left
\* where it ends.
BeyondOnlyAfterPercent ==
  (pc = "beyond") => arg_index = Len(args) /\ i = Len(fmt) + 1 /\ Last(fmt) = "%"
=============================================================================
