------------------------- MODULE MCKernelInterrupts -------------------------
(***************************************************************************)
(* Instances of KernelInterrupts for TLC: two keys of a layout of two and  *)
(* one code that is not in it (a key release).                             *)
(***************************************************************************)
EXTENDS KernelInterrupts

\* The mask BIOSes leave on a PC (timer, keyboard, cascade and floppy on), and
\* everything masked.
PcMask    == <<{3, 4, 5, 7}, {0, 1, 2, 3, 4, 5, 7}>>
AllMasked == <<0 .. 7, 0 .. 7>>

AnyMask == {PcMask, AllMasked}
=============================================================================
