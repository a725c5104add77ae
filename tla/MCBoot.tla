-------------------------------- MODULE MCBoot -------------------------------
(***************************************************************************)
(* Boot for TLC: an address space of 4 pages, the kernel in the last,      *)
(* stubs on both sides of a 64KB boundary, segments with one bit set at    *)
(* each edge of a field.                                                   *)
(***************************************************************************)
EXTENDS Boot

SomeEnds == {4, 7}
LowMemory == {0, 1}

BitsOf(n) == {b \in 0 .. 9 : (n \div 2 ^ b) % 2 = 1}

\* 16 bytes for each stub from 0xC0100000 and from 0xC010FF00 on.
SomeLinks ==
  { [v \in Stubs |-> {20, 30, 31} \cup Shift(BitsOf(v), 4)],
    [v \in Stubs |-> IF v < 16 THEN {20, 30, 31} \cup 8 .. 15 \cup Shift(BitsOf(v), 4)
                     ELSE {16, 20, 30, 31} \cup Shift(BitsOf(v - 16), 4)] }

SomeGates == {<<48, {31, 17, 16, 15, 3}>>, <<51, {31, 0}>>}

SomeSegments ==
  {Segment(base, limit, {1, 4, 7}, {0, 7}) :
     base \in {{0, 31}, {15}, {16, 23}, {24}}, limit \in {{15, 20}, {16}, {19}, {0, 31}}}
=============================================================================
