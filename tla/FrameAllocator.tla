--------------------------- MODULE FrameAllocator ---------------------------
(***************************************************************************)
(* The physical frame allocator of the kernel:                             *)
(*   src/VirtualMemoryMgmt/PhysicalFrameAllocator/PhysicalFrameAllocator.cc*)
(*   include/VirtualMemoryMgmt/PhysicalFrameAllocator/...Allocator.h       *)
(* together with the call kernel_main makes to it (kernel/kmain.cc).       *)
(*                                                                         *)
(* The bitmap pmmap_ is the set of the bit positions that are 1, counted   *)
(* from the address in pmmap_.  Positions past the pmmap_size_ dwords of   *)
(* the bitmap are ordinary memory: BitmapSet and BitmapUnset check no      *)
(* bound.  All sizes of the machine are constants, so that a run can scale *)
(* them down: 4096-byte frames, 1024-byte kilobytes, 8-bit bytes, 4-byte   *)
(* dwords and 32-bit words in the real kernel.                             *)
(***************************************************************************)
EXTENDS Integers, Sequences, FiniteSets

CONSTANTS
  FrameSize,    \* kFrameSize: bytes in a frame
  KB,           \* bytes in a kilobyte (1024 in KilobytesToFrames)
  LowKB,        \* kilobytes below the kernel (1024 in kmain.cc)
  BitsPerByte,  \* bits in a byte
  DwordBytes,   \* sizeof(uint32_t)
  WordMod,      \* values of a uint32_t/size_t: 2^32
  KernelStart,  \* _kernel_physical_start
  KernelEnd,    \* _kernel_physical_end: first address past .bss
  VirtualStart, \* _kernel_virtual_start
  VirtualBase,  \* KERNEL_VIRTUAL_BASE
  BootInfos,    \* the Multiboot infos the boot loader may hand over
  RamContents   \* what the memory under the bitmap may hold at power-on

(***************************************************************************)
(* A Multiboot info, as far as the allocator reads it.  An entry of the    *)
(* memory map has a 64-bit address and length.                             *)
(***************************************************************************)
MmapEntry == [available : BOOLEAN, addr : Nat, len : Nat]
BootInfo  == [mem_upper : Nat, mmap : Seq(MmapEntry)]

ASSUME SizesAssumption ==
  /\ FrameSize \in Nat \ {0}
  /\ KB \in Nat \ {0}
  /\ LowKB \in Nat
  /\ BitsPerByte \in Nat \ {0}
  /\ DwordBytes \in Nat \ {0}
  /\ WordMod \in Nat \ {0}

\* kernel/link.ld puts the start of the image on a frame boundary, behind low
\* memory; nothing aligns its end.
ASSUME KernelAssumption ==
  /\ KernelStart \in Nat \ {0}
  /\ KernelEnd \in Nat
  /\ KernelStart % FrameSize = 0
  /\ KernelStart < KernelEnd
  /\ KernelEnd < WordMod
  /\ VirtualStart \in Nat
  /\ VirtualBase \in Nat

ASSUME BootAssumption ==
  /\ BootInfos \subseteq BootInfo
  /\ RamContents \subseteq SUBSET Nat

VARIABLES
  pc,          \* where kernel_main is: "reset", "regions", "kernel", "ready"
  boot,        \* the Multiboot info of this boot
  entry,       \* the mmap pointer of InitAvailableRegions, as an index
  mem_size,    \* mem_size_
  max_frames,  \* max_frames_
  used_frames, \* used_frames_
  pmmap_size,  \* pmmap_size_
  pmmap_ptr,   \* pmmap_: the virtual address of the bitmap
  pmmap,       \* the bits that are 1, from pmmap_ptr on
  owned,       \* addresses AllocFrame gave out and FreeFrame has not taken back
  result       \* what the last AllocFrame returned, 0 being nullptr

config == <<boot, mem_size, max_frames, pmmap_size, pmmap_ptr>>
vars   == <<pc, boot, entry, mem_size, max_frames, used_frames, pmmap_size,
            pmmap_ptr, pmmap, owned, result>>

-----------------------------------------------------------------------------
(***************************************************************************)
(* Arithmetic.                                                             *)
(***************************************************************************)
kFramesPerDword == BitsPerByte * DwordBytes

\* Mutant: the product is not taken modulo 2^32.
KilobytesToFramesUnbounded(mem_size_kb) == (mem_size_kb * KB) \div FrameSize

KilobytesToFrames(mem_size_kb) ==
  ((mem_size_kb * KB) % WordMod) \div FrameSize

\* addr & ~(alignment - 1), for an alignment that is a power of two.
HighBits(addr, alignment) == alignment * (addr \div alignment)

\* !(addr & ~(alignment - 1)): true of the addresses below alignment.
IsAligned(addr, alignment) == HighBits(addr, alignment) = 0

Align(addr, alignment) == (HighBits(addr, alignment) + alignment) % WordMod

PhysicalToVirtual(physical_address, virtual_base_address) ==
  (physical_address + virtual_base_address) % WordMod

(***************************************************************************)
(* The bitmap.  A loop that sets or clears consecutive bits is one set     *)
(* operation on the interval of their positions.                           *)
(***************************************************************************)
FrameRange(align, frames) == align .. (align + frames - 1)

BitmapSet(bitmap, bits) == bitmap \cup bits

\* Mutant: `&= ~mask' written as `= ~mask' clears every other bit as well.
BitmapUnsetClobbers(bitmap, bits) == {}
BitmapUnset(bitmap, bits) == bitmap \ bits

\* The least of the unset bits of range, a set of positions.
FirstUnsetIn(bitmap, range) ==
  CHOOSE bit \in range \ bitmap : \A other \in range \ bitmap : bit <= other

\* Mutant: only whole dwords are searched, the rem_bits loop is missing.
BitmapFirstUnsetNoRemainder(bitmap, size) ==
  LET whole == 0 .. (kFramesPerDword * (size \div kFramesPerDword) - 1)
  IN  IF whole \subseteq bitmap THEN -1 ELSE FirstUnsetIn(bitmap, whole)

\* Mutant: the search runs one bit too far.
BitmapFirstUnsetInclusive(bitmap, size) ==
  IF 0 .. size \subseteq bitmap THEN -1 ELSE FirstUnsetIn(bitmap, 0 .. size)

\* The whole dwords are searched first, then the size % 32 bits that remain.
BitmapFirstUnset(bitmap, size) ==
  LET words == kFramesPerDword * (size \div kFramesPerDword)
      whole == 0 .. (words - 1)
      rest  == words .. (size - 1)
  IN  IF ~(whole \subseteq bitmap)     THEN FirstUnsetIn(bitmap, whole)
      ELSE IF ~(rest \subseteq bitmap) THEN FirstUnsetIn(bitmap, rest)
      ELSE -1

\* Mutant: a byte for every frame of the dwords.
MemsetPerFrame(bitmap, size) ==
  bitmap \cup (0 .. (size * kFramesPerDword * BitsPerByte - 1))

\* memset(pmmap_, 0xFF, size): size counts bytes.
Memset(bitmap, size) == bitmap \cup (0 .. (size * BitsPerByte - 1))

-----------------------------------------------------------------------------
(***************************************************************************)
(* Initialisation.  kernel_main calls Init once; its three parts are the   *)
(* three actions below, taken in this order.  (Init returns at once when   *)
(* the info pointer is null, which the loader never passes.)               *)
(***************************************************************************)
Init ==
  /\ pc = "reset"
  /\ boot \in BootInfos
  /\ pmmap \in RamContents
  /\ entry = 1
  /\ mem_size = 0
  /\ max_frames = 0
  /\ used_frames = 0
  /\ pmmap_size = 0
  /\ pmmap_ptr = 0
  /\ owned = {}
  /\ result = 0

\* InitPhysicalFrameAllocator, then Init up to and including the memset.
InitBitmap ==
  /\ pc = "reset"
  /\ LET kb     == (LowKB + boot.mem_upper) % WordMod
         frames == KilobytesToFrames(kb)
         dwords == frames \div kFramesPerDword
                     + (IF frames % kFramesPerDword # 0 THEN 1 ELSE 0)
     IN  /\ mem_size'    = kb
         /\ max_frames'  = frames
         /\ used_frames' = frames
         /\ pmmap_size'  = dwords
         /\ pmmap'       = Memset(pmmap, dwords)
  /\ pmmap_ptr' = PhysicalToVirtual(KernelEnd, VirtualStart)
  /\ pc' = "regions"
  /\ UNCHANGED <<boot, entry, owned, result>>

\* Mutant: a region's frames are counted rounding up.
InitRegionRoundsUp(base, size) ==
  LET frames == (size + FrameSize - 1) \div FrameSize
  IN  /\ pmmap' = BitmapSet(
                    BitmapUnset(pmmap, FrameRange(base \div FrameSize, frames)),
                    {0})
      /\ used_frames' = (used_frames - frames) % WordMod

\* Mutant: frame 0 is not taken back.
InitRegionFreesZero(base, size) ==
  LET frames == size \div FrameSize
  IN  /\ pmmap' = BitmapUnset(pmmap, FrameRange(base \div FrameSize, frames))
      /\ used_frames' = (used_frames - frames) % WordMod

\* Frees the frames of a region; bit 0 is set again without being counted.
InitRegion(base, size) ==
  LET frames == size \div FrameSize
      align  == base \div FrameSize
  IN  /\ pmmap' = BitmapSet(BitmapUnset(pmmap, FrameRange(align, frames)), {0})
      /\ used_frames' = (used_frames - frames) % WordMod

\* One turn of the loop of InitAvailableRegions, or its end.  Only the low
\* 32 bits of an entry's address and length are read.
InitAvailableRegions ==
  /\ pc = "regions"
  /\ IF entry <= Len(boot.mmap)
     THEN LET mmap == boot.mmap[entry]
          IN  /\ IF mmap.available
                 THEN InitRegion(mmap.addr % WordMod, mmap.len % WordMod)
                 ELSE UNCHANGED <<pmmap, used_frames>>
              /\ entry' = entry + 1
              /\ UNCHANGED pc
     ELSE /\ pc' = "kernel"
          /\ UNCHANGED <<entry, pmmap, used_frames>>
  /\ UNCHANGED <<config, owned, result>>

\* Mutant: a size below FrameSize reserves nothing.
RegionFramesFloor(size) == size \div FrameSize

\* How many frames FreeRegion marks as in use: at least one.
RegionFrames(size) == IF size < FrameSize THEN 1 ELSE size \div FrameSize

\* The frames FreeRegion marks as in use.
FreeRegion(base, size) == FrameRange(base \div FrameSize, RegionFrames(size))

\* The size DeinitKernel reserves for the bitmap: its number of dwords,
\* taken for bytes.
PmmapSizeAligned ==
  IF IsAligned(pmmap_size, FrameSize) THEN pmmap_size
  ELSE Align(pmmap_size, FrameSize)

\* Reserves the kernel image and what lies behind it.
DeinitKernel ==
  /\ pc = "kernel"
  /\ pmmap' = BitmapSet(
                BitmapSet(pmmap, FreeRegion(KernelStart, KernelEnd - KernelStart)),
                FreeRegion(KernelEnd, PmmapSizeAligned))
  /\ used_frames' = (used_frames + RegionFrames(KernelEnd - KernelStart)
                                 + RegionFrames(PmmapSizeAligned)) % WordMod
  /\ pc' = "ready"
  /\ UNCHANGED <<config, entry, owned, result>>

-----------------------------------------------------------------------------
(***************************************************************************)
(* The interface.  AllocFrame may also be called before Init, on the       *)
(* members the constructor left; FreeFrame is called with what AllocFrame  *)
(* returned, as its documentation demands.                                 *)
(***************************************************************************)

\* Mutant: the comparison leaves one frame in hand.
LimitReachedEarly == used_frames >= max_frames - 2

\* used_frames_ - max_frames_ <= 0 on unsigned integers.
LimitReached == (used_frames - max_frames) % WordMod <= 0

AllocFrame ==
  LET p_index == IF LimitReached THEN -1
                 ELSE BitmapFirstUnset(pmmap, max_frames)
  IN  /\ pc \in {"reset", "ready"}
      /\ \/ /\ p_index = -1
            /\ result' = 0
            /\ UNCHANGED <<pmmap, used_frames, owned>>
         \/ /\ p_index # -1
            /\ pmmap' = BitmapSet(pmmap, {p_index})
            /\ used_frames' = (used_frames + 1) % WordMod
            /\ result' = (FrameSize * p_index) % WordMod
            /\ owned' = owned \cup {result'}
      /\ UNCHANGED <<config, pc, entry>>

\* A null frame is left alone.
FreeFrame(frame) ==
  /\ pc = "ready"
  /\ frame # 0
  /\ pmmap' = BitmapUnset(pmmap, {frame \div FrameSize})
  /\ used_frames' = (used_frames - 1) % WordMod
  /\ owned' = owned \ {frame}
  /\ UNCHANGED <<config, pc, entry, result>>

Next ==
  \/ InitBitmap
  \/ InitAvailableRegions
  \/ DeinitKernel
  \/ AllocFrame
  \/ \E frame \in owned : FreeFrame(frame)

Spec == Init /\ [][Next]_vars

-----------------------------------------------------------------------------
(***************************************************************************)
(* Properties.                                                             *)
(***************************************************************************)

\* Every member has the type its declaration gives it; the frame count is
\* one that a 32-bit byte count can hold.
TypeOK ==
  /\ pc \in {"reset", "regions", "kernel", "ready"}
  /\ boot \in BootInfos
  /\ entry \in Nat \ {0}
  /\ mem_size \in 0 .. (WordMod - 1)
  /\ max_frames \in Nat
  /\ FrameSize * max_frames < WordMod
  /\ used_frames \in 0 .. (WordMod - 1)
  /\ pmmap_size \in Nat
  /\ pmmap_ptr \in 0 .. (WordMod - 1)
  /\ pmmap \subseteq Nat
  /\ owned \subseteq 0 .. (WordMod - 1)
  /\ result \in 0 .. (WordMod - 1)

\* AllocFrame never returns a frame that a client still holds: no sequence
\* of allocations and frees makes two clients share a frame.
FreshFrame == [][AllocFrame /\ result' # 0 => result' \notin owned]_vars

\* The frames with a byte of the kernel image in them.
KernelFrames ==
  {f \in 0 .. KernelEnd : /\ FrameSize * f < KernelEnd
                          /\ KernelStart < FrameSize * (f + 1)}

\* Whatever the memory map says, no frame of the kernel image is handed out,
\* the last one included, which the image need not fill (DeinitKernel).
KernelNeverAllocated ==
  \A frame \in owned : frame \div FrameSize \notin KernelFrames

\* The bitmap accounts for what clients hold: an address handed out is that of
\* a frame below max_frames_, not frame 0, whose bit is set; nothing is handed
\* out before Init is over, and from then on no sequence of calls clears the
\* bit of frame 0 or of a frame of the kernel.
BitmapAccounts ==
  /\ pc # "ready" => owned = {}
  /\ pc = "reset" => max_frames = 0
  /\ pc # "reset" /\ max_frames > 0 => 0 \in pmmap
  /\ pc = "ready" => KernelFrames \subseteq pmmap
  /\ \A frame \in owned :
       \E p \in 1 .. (max_frames - 1) :
         /\ frame = FrameSize * p
         /\ p \in pmmap
         /\ p \notin KernelFrames

\* The frames below max_frames that the bitmap marks as in use.
FramesInUse == pmmap \cap (0 .. (max_frames - 1))

\* used_frames_ and the bitmap may disagree after Init, but by an amount that
\* no later allocation or free changes.
Drift == (used_frames - Cardinality(FramesInUse)) % WordMod
DriftConstant == [][pc = "ready" => Drift' = Drift]_vars

\* The frames that an available entry of the map covers entirely.
AvailableFrames(b) ==
  {f \in 0 .. (WordMod \div FrameSize) :
     \E i \in 1 .. Len(b.mmap) :
       /\ b.mmap[i].available
       /\ b.mmap[i].addr <= FrameSize * f
       /\ FrameSize * (f + 1) <= b.mmap[i].addr + b.mmap[i].len}

\* The frames kept from clients: frame 0, the image and the frames behind it.
WithheldFrames ==
  {0} \cup KernelFrames \cup FreeRegion(KernelEnd, PmmapSizeAligned)

\* The maps Init handles as intended: memory is below 4GB, the available
\* entries are disjoint, start on a frame and lie in the counted memory,
\* they hold the kernel, and the frames that are not available are among
\* those the memset reaches.
WellFormed(b) ==
  LET bytes  == (LowKB + b.mem_upper) * KB
      frames == bytes \div FrameSize
      avail  == {i \in 1 .. Len(b.mmap) : b.mmap[i].available}
  IN  /\ bytes < WordMod
      /\ \A i \in avail : /\ b.mmap[i].addr % FrameSize = 0
                          /\ b.mmap[i].addr + b.mmap[i].len <= bytes
      /\ \A i, j \in avail :
           i < j => b.mmap[i].addr + b.mmap[i].len <= b.mmap[j].addr
      /\ \A f \in (0 .. (frames - 1)) \ AvailableFrames(b) :
           f < BitsPerByte * (frames \div kFramesPerDword)
      /\ WithheldFrames \subseteq AvailableFrames(b)

\* "Some frames marked as used are in use by the kernel or simply unavailable for
\* allocation (i.e., reserved memory)" (PhysicalFrameAllocator.h:109-110): only frames
\* the memory map calls available are handed out.  The code keeps it on well-formed maps
\* alone: memset sets part of the bitmap, and the low word of an address past 4GB is
\* another address.
ReservedNeverAllocated ==
  \A frame \in owned : frame \div FrameSize \in AvailableFrames(boot)

\* On a well-formed map every frame handed out is memory that the map calls
\* available.
OnlyAvailableAllocated == WellFormed(boot) => ReservedNeverAllocated

\* On a well-formed map AllocFrame returns nullptr only when clients hold
\* every available frame that is not withheld from them, although the count
\* it tests first is not the number of frames in use.
NullMeansExhausted ==
  [][AllocFrame /\ pc = "ready" /\ result' = 0 /\ WellFormed(boot)
       => \A f \in AvailableFrames(boot) \ WithheldFrames :
            FrameSize * f \in owned]_vars

\* Every bit that a step changes is in the pmmap_size_ dwords of the bitmap.
ChangesInBitmap ==
  \A bit \in (pmmap \ pmmap') \cup (pmmap' \ pmmap) :
    bit < pmmap_size' * kFramesPerDword

\* On a well-formed map page data is kept in the dwords of the bitmap, nowhere else:
\* no call changes a bit of the memory behind it.
BitmapInBounds == [][WellFormed(boot) => ChangesInBitmap]_vars

(***************************************************************************)
(* What the comments of the code say of the allocator and the code does    *)
(* not keep.                                                               *)
(***************************************************************************)

\* The frames the bitmap lies in: the boot page directory maps VirtualBase to
\* physical address 0.
BitmapFrames ==
  LET first == (pmmap_ptr - VirtualBase) % WordMod
  IN  {f \in 0 .. (WordMod \div FrameSize) :
         /\ FrameSize * f < first + pmmap_size * DwordBytes
         /\ first < FrameSize * (f + 1)}

\* The bitmap is at pmmap_addr, in memory DeinitKernel reserves: a client is
\* never given the frame that holds it.
BitmapNeverAllocated ==
  pc = "ready" => \A frame \in owned : frame \div FrameSize \notin BitmapFrames
=============================================================================
