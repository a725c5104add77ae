----------------------------- MODULE MCHandlers -----------------------------
(***************************************************************************)
(* Handlers for TLC: every vector, every alignment of the stack; ints of 8 *)
(* bits, all formats of up to 4 characters.                                *)
(***************************************************************************)
EXTENDS Handlers

\* No two registers alike, so that a mixed-up one shows.
AllDifferent ==
  [r \in Registers |-> 1000 + IndexFirstSubSeq(<<r>>, General \o Segments \o CpuFrame \o <<"cr2">>)]

\* The selectors flush_gdt leaves.
KernelContext ==
  [r \in Registers |-> IF r \in ToSet(Segments) THEN 16
                       ELSE IF r = "cs" THEN 8 ELSE AllDifferent[r]]

SomeContexts == {AllDifferent, KernelContext}
AllAlignments == 29 .. 32

FormatChars == {"a", "%", "d", "u", "X", "c", "s"}
NumberFormats == {<<"%", c>> : c \in {"d", "u", "x", "X"}}
ShortFormats == BoundedSeq(FormatChars, 4) \cup NumberFormats
HandlerFormats == {UnhandledMessage(v) : v \in {0, 32}}
SomeFormats == ShortFormats \cup HandlerFormats

IntArg(v) == [type |-> "kInt", value |-> v]

\* Values around the powers of 10 and of 16, and the ends of the types.
SomeNumbers == {IntArg(v) : v \in {-128, -127, -10, -1, 7, 127}}
               \cup {UnsignedArg(v) : v \in {0, 16, 100, 255}}
AllNumbers == {IntArg(v) : v \in -128 .. 127} \cup {UnsignedArg(v) : v \in 0 .. 255}
SomeText == {[type |-> "kChar", value |-> "z"], [type |-> "kStr", value |-> <<"y", "z">>]}

\* All numbers with a specifier alone or in a handler's message, some in a longer format.
ArgsOf(f) ==
  IF f \in NumberFormats \cup HandlerFormats THEN AllNumbers ELSE SomeNumbers \cup SomeText
=============================================================================
