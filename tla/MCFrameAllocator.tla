-------------------------- MODULE MCFrameAllocator --------------------------
(***************************************************************************)
(* Instances of FrameAllocator for TLC: 4-byte frames, 2-byte kilobytes,   *)
(* 2-bit bytes, 2-byte dwords and 64-value words.  As in the machine a     *)
(* frame is some KB, a dword of the bitmap covers several frames, the      *)
(* kernel starts where low memory ends and the address space is larger     *)
(* than memory.  The kernel image is 12..17: one whole frame and a half.   *)
(***************************************************************************)
EXTENDS FrameAllocatorRefinement

Available(first, length) ==
  [available |-> TRUE, addr |-> first, len |-> length]

Reserved(first, length) ==
  [available |-> FALSE, addr |-> first, len |-> length]

\* A PC: low memory, the hole below the kernel, memory up to mem_upper.  The
\* number of frames is a multiple of kFramesPerDword in one and not in the other.
PlainMap ==
  [mem_upper |-> 18,
   mmap |-> <<Available(0, 9), Reserved(9, 3), Available(12, 36)>>]
OddMap ==
  [mem_upper |-> 15,
   mmap |-> <<Available(0, 8), Reserved(8, 4), Available(12, 30)>>]

\* A reserved frame in the part of memory the memset does not reach.
HoleMap ==
  [mem_upper |-> 18,
   mmap |-> <<Available(0, 8), Available(12, 24), Reserved(36, 4),
              Available(40, 8)>>]

\* Memory beyond mem_upper: mem_upper stops at the first hole.
BeyondMap ==
  [mem_upper |-> 10,
   mmap |-> <<Available(0, 8), Available(12, 20), Reserved(32, 8),
              Available(40, 24)>>]

\* Memory beyond the 32-bit address space.
HighMap ==
  [mem_upper |-> 18,
   mmap |-> <<Available(0, 8), Available(12, 36), Available(64, 16)>>]

\* Entries that are unaligned, overlap or are out of order.
RaggedMap ==
  [mem_upper |-> 12,
   mmap |-> <<Available(13, 23), Available(20, 9), Reserved(30, 2),
              Available(0, 11)>>]

\* So much memory that its size in bytes is 0 in a word.
WrapMap ==
  [mem_upper |-> 26, mmap |-> <<Available(0, 8), Available(12, 52)>>]

AllMaps   == {PlainMap, OddMap, HoleMap, BeyondMap, HighMap, RaggedMap, WrapMap}
PlainMaps == {PlainMap, OddMap}

\* Memory is all zeros, all ones, or something else at power-on.
AnyRam   == {{}, 0 .. 15, {1, 6, 8, 9}}
=============================================================================
