------------------------ MODULE FrameAllocatorProofs ------------------------
(***************************************************************************)
(* Theorems about the frame allocator, for every size of frame, word and   *)
(* dword and every kernel image: first on every memory map, then on those  *)
(* it handles as intended (WellFormed), where the frames handed out are    *)
(* available memory, nullptr means that none is left, the bitmap stays in  *)
(* its dwords, and the allocator implements the frame pool.                *)
(***************************************************************************)
EXTENDS FrameAllocatorRefinement, FiniteSetTheorems, WellFoundedInduction, TLAPS

-----------------------------------------------------------------------------
(***************************************************************************)
(* Division and remainder by a divisor that is not a literal.              *)
(***************************************************************************)

\* C's / and % on a non-negative dividend.
LEMMA DivNat ==
  ASSUME NEW a \in Nat, NEW d \in Nat \ {0}
  PROVE  /\ a \div d \in Nat
         /\ d * (a \div d) <= a
         /\ a < d * (a \div d) + d
  BY SMT

LEMMA DivInt ==
  ASSUME NEW a \in Int, NEW d \in Nat \ {0}
  PROVE  /\ a \div d \in Int
         /\ a % d \in 0 .. (d - 1)
         /\ a = d * (a \div d) + (a % d)
  BY SMT

LEMMA ModRange ==
  ASSUME NEW a \in Int, NEW d \in Nat \ {0}
  PROVE  a % d \in 0 .. (d - 1)
  BY SMT

LEMMA ModUnique ==
  ASSUME NEW d \in Nat \ {0}, NEW q \in Int, NEW r \in 0 .. (d - 1)
  PROVE  (d * q + r) % d = r
  BY SMT

LEMMA ModSmall ==
  ASSUME NEW a \in Nat, NEW d \in Nat \ {0}, a < d
  PROVE  a % d = a
  BY SMT

LEMMA DivMultiple ==
  ASSUME NEW q \in Nat, NEW d \in Nat \ {0}
  PROVE  (d * q) \div d = q
  BY SMT

LEMMA MultipleLess ==
  ASSUME NEW a \in Nat, NEW b \in Nat, NEW d \in Nat \ {0}, a < b
  PROVE  d * a + d <= d * b
  BY SMT

LEMMA MultiplePositive ==
  ASSUME NEW a \in Nat \ {0}, NEW b \in Nat \ {0}
  PROVE  a * b \in Nat \ {0}
  BY SMT

\* Unsigned arithmetic wraps around: a wrapped operand changes no result.
LEMMA ModShift ==
  ASSUME NEW a \in Int, NEW b \in Int, NEW d \in Nat \ {0}
  PROVE  ((a % d) + b) % d = (a + b) % d
<1> DEFINE q == a \div d
           m == a % d
           p == (a + b) \div d
           r == (a + b) % d
<1>1. q \in Int /\ m \in 0 .. (d - 1) /\ a = d * q + m
  BY DivInt
<1>2. p \in Int /\ r \in 0 .. (d - 1) /\ a + b = d * p + r
  <2>1. a + b \in Int
    OBVIOUS
  <2> QED BY <2>1, DivInt
<1> HIDE DEF q, m, p, r
<1>3. m + b = d * (p - q) + r
  <2>1. d * (p - q) = d * p - d * q
    BY <1>1, <1>2
  <2> QED BY <1>1, <1>2, <2>1
<1>4. (d * (p - q) + r) % d = r
  <2>1. p - q \in Int
    BY <1>1, <1>2
  <2> QED BY <2>1, <1>2, ModUnique
<1>5. (m + b) % d = r
  BY <1>3, <1>4
<1> QED BY <1>5 DEF m, r

\* What a 32-bit operation leaves is a word.
LEMMA WordType ==
  ASSUME NEW a \in Int
  PROVE  a % WordMod \in 0 .. (WordMod - 1)
  BY SizesAssumption, ModRange

-----------------------------------------------------------------------------
(***************************************************************************)
(* The search of the bitmap.                                               *)
(***************************************************************************)

LEMMA LeastElement ==
  ASSUME NEW S \in SUBSET Nat, S # {}
  PROVE  \E x \in S : \A y \in S : x <= y
<1>1. \E x \in S : \A y \in S : ~(<<y, x>> \in OpToRel(<, Nat))
  BY NatLessThanWellFounded, WFMin
<1>2. PICK x \in S : \A y \in S : ~(<<y, x>> \in OpToRel(<, Nat))
  BY <1>1
<1>3. ASSUME NEW y \in S
      PROVE  x <= y
  <2>1. y < x => <<y, x>> \in OpToRel(<, Nat)
    <3>1. <<y, x>> \in Nat \X Nat /\ <<y, x>>[1] = y /\ <<y, x>>[2] = x
      OBVIOUS
    <3> QED BY <3>1, Zenon DEF OpToRel
  <2>2. ~(y < x)
    BY <1>2, <2>1, Zenon
  <2> QED BY <2>2
<1> QED BY <1>3

LEMMA FirstUnsetInRange ==
  ASSUME NEW bitmap, NEW range \in SUBSET Nat, ~(range \subseteq bitmap)
  PROVE  FirstUnsetIn(bitmap, range) \in range \ bitmap
<1>1. range \ bitmap \in SUBSET Nat /\ range \ bitmap # {}
  OBVIOUS
<1>2. \E x \in range \ bitmap : \A y \in range \ bitmap : x <= y
  BY <1>1, LeastElement
<1> QED BY <1>2 DEF FirstUnsetIn

LEMMA FramesPerDwordType == kFramesPerDword \in Nat \ {0}
  BY SizesAssumption, MultiplePositive DEF kFramesPerDword

\* BitmapFirstUnset finds a clear bit below size, or all of them are set.
LEMMA BitmapFirstUnsetCorrect ==
  ASSUME NEW bitmap, NEW size \in Nat
  PROVE  \/ /\ BitmapFirstUnset(bitmap, size) = -1
            /\ 0 .. (size - 1) \subseteq bitmap
         \/ BitmapFirstUnset(bitmap, size) \in (0 .. (size - 1)) \ bitmap
<1> DEFINE words == kFramesPerDword * (size \div kFramesPerDword)
           whole == 0 .. (words - 1)
           rest  == words .. (size - 1)
<1>1. words \in Nat /\ words <= size
  BY FramesPerDwordType, DivNat
<1>2. BitmapFirstUnset(bitmap, size) =
        IF ~(whole \subseteq bitmap)     THEN FirstUnsetIn(bitmap, whole)
        ELSE IF ~(rest \subseteq bitmap) THEN FirstUnsetIn(bitmap, rest)
        ELSE -1
  BY DEF BitmapFirstUnset
<1> HIDE DEF words
<1>3. /\ whole \in SUBSET Nat
      /\ rest \in SUBSET Nat
      /\ whole \cup rest = 0 .. (size - 1)
  BY <1>1
<1> HIDE DEF whole, rest
<1>4. CASE ~(whole \subseteq bitmap)
  BY <1>2, <1>3, <1>4, FirstUnsetInRange
<1>5. CASE whole \subseteq bitmap /\ ~(rest \subseteq bitmap)
  BY <1>2, <1>3, <1>5, FirstUnsetInRange
<1>6. CASE whole \subseteq bitmap /\ rest \subseteq bitmap
  BY <1>2, <1>3, <1>6
<1> QED BY <1>4, <1>5, <1>6

\* The outcomes of AllocFrame: nothing changes and nullptr is returned, or a
\* clear bit below max_frames_ is set and the address of its frame returned.
LEMMA AllocFrameOutcome ==
  ASSUME TypeOK, AllocFrame
  PROVE  \/ /\ result' = 0
            /\ UNCHANGED <<pmmap, used_frames, owned>>
         \/ \E p \in (0 .. (max_frames - 1)) \ pmmap :
              /\ pmmap' = pmmap \cup {p}
              /\ used_frames' = (used_frames + 1) % WordMod
              /\ result' = FrameSize * p
              /\ owned' = owned \cup {FrameSize * p}
<1> DEFINE p_index == IF LimitReached THEN -1
                      ELSE BitmapFirstUnset(pmmap, max_frames)
<1>1. p_index = -1 \/ p_index \in (0 .. (max_frames - 1)) \ pmmap
  BY BitmapFirstUnsetCorrect DEF TypeOK
<1>2. \/ /\ p_index = -1
         /\ result' = 0
         /\ UNCHANGED <<pmmap, used_frames, owned>>
      \/ /\ p_index # -1
         /\ pmmap' = BitmapSet(pmmap, {p_index})
         /\ used_frames' = (used_frames + 1) % WordMod
         /\ result' = (FrameSize * p_index) % WordMod
         /\ owned' = owned \cup {result'}
  BY Zenon DEF AllocFrame
<1> HIDE DEF p_index
<1>3. ASSUME p_index \in (0 .. (max_frames - 1)) \ pmmap
      PROVE  (FrameSize * p_index) % WordMod = FrameSize * p_index
  <2>1. /\ p_index \in Nat
        /\ p_index < max_frames
        /\ max_frames \in Nat
        /\ FrameSize * max_frames < WordMod
    BY <1>3 DEF TypeOK
  <2>2. FrameSize * p_index \in Nat /\ FrameSize * p_index < WordMod
    BY <2>1, SizesAssumption, MultipleLess
  <2> QED BY <2>2, SizesAssumption, ModSmall
<1> QED BY <1>1, <1>2, <1>3 DEF BitmapSet

-----------------------------------------------------------------------------
(***************************************************************************)
(* Type correctness.                                                       *)
(***************************************************************************)

LEMMA BootType ==
  ASSUME TypeOK, entry <= Len(boot.mmap)
  PROVE  /\ boot.mmap[entry].addr \in Nat
         /\ boot.mmap[entry].len \in Nat
<1>1. boot \in BootInfo /\ entry \in Nat \ {0}
  BY BootAssumption DEF TypeOK
<1>2. boot.mmap \in Seq(MmapEntry)
  BY <1>1 DEF BootInfo
<1>3. entry \in 1 .. Len(boot.mmap)
  BY <1>1, <1>2
<1>4. boot.mmap[entry] \in MmapEntry
  BY <1>2, <1>3
<1> QED BY <1>4 DEF MmapEntry

\* Freeing a region sets no bit but that of frame 0.
LEMMA InitRegionBitmap ==
  ASSUME NEW base, NEW size, InitRegion(base, size)
  PROVE  0 \in pmmap' /\ pmmap' \subseteq pmmap \cup {0}
  BY Zenon DEF InitRegion, BitmapSet, BitmapUnset

LEMMA RegionFramesType ==
  ASSUME NEW size \in Nat
  PROVE  RegionFrames(size) \in Nat \ {0}
<1>1. size \div FrameSize \in Nat /\ size < FrameSize * (size \div FrameSize) + FrameSize
  BY SizesAssumption, DivNat
<1>2. size >= FrameSize => size \div FrameSize # 0
  BY <1>1, SizesAssumption
<1> QED BY <1>1, <1>2, SizesAssumption DEF RegionFrames

LEMMA PmmapSizeAlignedType ==
  ASSUME TypeOK
  PROVE  PmmapSizeAligned \in Nat
<1>1. pmmap_size \in Nat /\ pmmap_size \div FrameSize \in Nat
  BY SizesAssumption, DivNat DEF TypeOK
<1>2. HighBits(pmmap_size, FrameSize) \in Nat
  BY <1>1, SizesAssumption DEF HighBits
<1>3. Align(pmmap_size, FrameSize) \in Nat
  <2>1. HighBits(pmmap_size, FrameSize) + FrameSize \in Int
    BY <1>2, SizesAssumption
  <2>2. Align(pmmap_size, FrameSize) \in 0 .. (WordMod - 1)
    BY <2>1, SizesAssumption, ModRange, Zenon DEF Align
  <2> QED BY <2>2
<1> QED BY <1>1, <1>3 DEF PmmapSizeAligned

LEMMA SmallSizeNoFrame ==
  ASSUME NEW size \in Nat, size < FrameSize
  PROVE  size \div FrameSize = 0
  BY SizesAssumption

\* The variables of the members and of the clients have their types.
THEOREM TypeCorrect == Spec => []TypeOK
<1>1. Init => TypeOK
  <2> SUFFICES ASSUME Init PROVE TypeOK
    OBVIOUS
  <2>1. FrameSize * 0 = 0
    BY SizesAssumption
  <2> QED BY <2>1, SizesAssumption, BootAssumption DEF Init, TypeOK
<1>2. TypeOK /\ [Next]_vars => TypeOK'
  <2> SUFFICES ASSUME TypeOK, [Next]_vars PROVE TypeOK'
    OBVIOUS
  <2>1. CASE InitBitmap
    <3> DEFINE kb     == (LowKB + boot.mem_upper) % WordMod
               frames == KilobytesToFrames(kb)
               dwords == frames \div kFramesPerDword
                           + (IF frames % kFramesPerDword # 0 THEN 1 ELSE 0)
    <3>1. boot.mem_upper \in Nat
      BY BootAssumption DEF TypeOK, BootInfo
    <3>2. kb \in 0 .. (WordMod - 1)
      <4>1. LowKB + boot.mem_upper \in Int
        BY <3>1, SizesAssumption
      <4> QED BY <4>1, WordType
    <3>3. frames \in Nat /\ FrameSize * frames < WordMod
      <4> HIDE DEF kb
      <4>1. kb * KB \in Int
        BY <3>2, SizesAssumption
      <4>2. (kb * KB) % WordMod \in 0 .. (WordMod - 1)
        BY <4>1, SizesAssumption, ModRange
      <4> QED BY <4>2, SizesAssumption, DivNat DEF KilobytesToFrames
    <3>4. frames \in 0 .. (WordMod - 1)
      BY <3>3, SizesAssumption
    <3>5. dwords \in Nat
      <4> HIDE DEF frames
      <4> QED BY <3>3, FramesPerDwordType, DivNat
    <3>6. pmmap_ptr' \in 0 .. (WordMod - 1)
      <4>1. KernelEnd + VirtualStart \in Int
        BY KernelAssumption
      <4> QED BY <2>1, <4>1, SizesAssumption, ModRange
              DEF InitBitmap, PhysicalToVirtual
    <3>7. /\ mem_size' = kb
          /\ max_frames' = frames
          /\ used_frames' = frames
          /\ pmmap_size' = dwords
          /\ pmmap' = Memset(pmmap, dwords)
          /\ pc' = "regions"
          /\ UNCHANGED <<boot, entry, owned, result>>
      BY <2>1 DEF InitBitmap
    <3> HIDE DEF kb, frames, dwords
    <3>8. pmmap' \subseteq Nat
      <4>1. dwords * BitsPerByte - 1 \in Int
        BY <3>5, SizesAssumption
      <4>2. 0 .. (dwords * BitsPerByte - 1) \subseteq Nat
        BY <4>1
      <4>3. pmmap' = pmmap \cup (0 .. (dwords * BitsPerByte - 1))
        BY <3>7 DEF Memset
      <4> QED BY <4>2, <4>3, Zenon DEF TypeOK
    <3> QED BY <3>2, <3>3, <3>4, <3>5, <3>6, <3>7, <3>8 DEF TypeOK
  <2>2. CASE InitAvailableRegions
    <3>1. CASE entry <= Len(boot.mmap) /\ boot.mmap[entry].available
      <4> DEFINE frames == (boot.mmap[entry].len % WordMod) \div FrameSize
      <4>1. frames \in Nat
        <5>1. boot.mmap[entry].len \in Int
          BY <3>1, BootType
        <5>2. boot.mmap[entry].len % WordMod \in Nat
          BY <5>1, WordType
        <5> QED BY <5>2, SizesAssumption, DivNat
      <4>2. used_frames - frames \in Int
        BY <4>1 DEF TypeOK
      <4>3. (used_frames - frames) % WordMod \in 0 .. (WordMod - 1)
        BY <4>2, WordType
      <4>4. used_frames' \in 0 .. (WordMod - 1)
        BY <2>2, <3>1, <4>3 DEF InitAvailableRegions, InitRegion
      <4>5. pmmap' \subseteq Nat
        <5>1. InitRegion(boot.mmap[entry].addr % WordMod,
                         boot.mmap[entry].len % WordMod)
          BY <2>2, <3>1 DEF InitAvailableRegions
        <5>2. pmmap' \subseteq pmmap \cup {0}
          BY <5>1, InitRegionBitmap, Zenon
        <5>3. pmmap \subseteq Nat
          BY DEF TypeOK
        <5> QED BY <5>2, <5>3
      <4>6. pc' = pc /\ entry' = entry + 1 /\ UNCHANGED <<config, owned, result>>
        BY <2>2, <3>1 DEF InitAvailableRegions
      <4> QED BY <4>4, <4>5, <4>6 DEF TypeOK, config
    <3>2. CASE entry <= Len(boot.mmap) /\ ~boot.mmap[entry].available
      <4>1. entry' = entry + 1
        BY <2>2, <3>2 DEF InitAvailableRegions
      <4>2. UNCHANGED <<pc, pmmap, used_frames, config, owned, result>>
        BY <2>2, <3>2 DEF InitAvailableRegions
      <4> QED BY <4>1, <4>2 DEF TypeOK, config
    <3>3. CASE ~(entry <= Len(boot.mmap))
      BY <2>2, <3>3 DEF InitAvailableRegions, TypeOK, config
    <3> QED BY <3>1, <3>2, <3>3
  <2>3. CASE DeinitKernel
    <3>1. /\ RegionFrames(KernelEnd - KernelStart) \in Nat
          /\ RegionFrames(PmmapSizeAligned) \in Nat
      BY RegionFramesType, PmmapSizeAlignedType, KernelAssumption
    <3>2. used_frames' \in 0 .. (WordMod - 1)
      <4>1. used_frames + RegionFrames(KernelEnd - KernelStart)
                        + RegionFrames(PmmapSizeAligned) \in Int
        BY <3>1 DEF TypeOK
      <4> QED BY <2>3, <4>1, WordType DEF DeinitKernel
    <3>3. pmmap' \subseteq Nat
      <4>1. KernelStart \div FrameSize \in Nat /\ KernelEnd \div FrameSize \in Nat
        BY KernelAssumption, SizesAssumption, DivNat
      <4>2. /\ FreeRegion(KernelStart, KernelEnd - KernelStart) \subseteq Nat
            /\ FreeRegion(KernelEnd, PmmapSizeAligned) \subseteq Nat
        BY <4>1, <3>1 DEF FreeRegion, FrameRange
      <4> QED BY <2>3, <4>2, Zenon DEF DeinitKernel, BitmapSet, TypeOK
    <3> QED BY <2>3, <3>2, <3>3 DEF DeinitKernel, TypeOK, config
  <2>4. CASE AllocFrame
    <3>1. UNCHANGED <<config, pc, entry>>
      BY <2>4 DEF AllocFrame
    <3>2. CASE result' = 0 /\ UNCHANGED <<pmmap, used_frames, owned>>
      BY <3>1, <3>2, SizesAssumption DEF TypeOK, config
    <3>3. ASSUME NEW p \in (0 .. (max_frames - 1)) \ pmmap,
                 pmmap' = pmmap \cup {p},
                 used_frames' = (used_frames + 1) % WordMod,
                 result' = FrameSize * p,
                 owned' = owned \cup {FrameSize * p}
          PROVE  TypeOK'
      <4>1. FrameSize * p \in 0 .. (WordMod - 1)
        BY SizesAssumption, MultipleLess DEF TypeOK
      <4>2. used_frames' \in 0 .. (WordMod - 1)
        <5>1. used_frames + 1 \in Int
          BY DEF TypeOK
        <5> QED BY <3>3, <5>1, WordType
      <4>3. /\ pmmap' \subseteq Nat
            /\ owned' \subseteq 0 .. (WordMod - 1)
            /\ result' \in 0 .. (WordMod - 1)
        <5>1. pmmap \subseteq Nat /\ owned \subseteq 0 .. (WordMod - 1)
          BY DEF TypeOK
        <5>2. p \in Nat
          OBVIOUS
        <5> QED BY <3>3, <4>1, <5>1, <5>2, Zenon
      <4> QED BY <3>1, <4>2, <4>3 DEF TypeOK, config
    <3> QED BY <2>4, <3>2, <3>3, AllocFrameOutcome
  <2>5. ASSUME NEW frame \in owned, FreeFrame(frame)
        PROVE  TypeOK'
    <3>1. used_frames' \in 0 .. (WordMod - 1)
      <4>1. used_frames - 1 \in Int
        BY DEF TypeOK
      <4> QED BY <2>5, <4>1, WordType DEF FreeFrame
    <3> QED BY <2>5, <3>1 DEF FreeFrame, BitmapUnset, TypeOK, config
  <2>6. CASE UNCHANGED vars
    BY <2>6 DEF vars, TypeOK
  <2> QED BY <2>1, <2>2, <2>3, <2>4, <2>5, <2>6 DEF Next
<1> QED BY <1>1, <1>2, PTL DEF Spec

-----------------------------------------------------------------------------
(***************************************************************************)
(* The bitmap accounts for what clients hold.                              *)
(***************************************************************************)

\* DeinitKernel covers the image: the whole frames from KernelStart on, and
\* the frame of KernelEnd as the first frame of what it reserves behind it.
LEMMA DeinitKernelCovers ==
  ASSUME NEW size \in Nat
  PROVE  KernelFrames \subseteq
           FreeRegion(KernelStart, KernelEnd - KernelStart)
             \cup FreeRegion(KernelEnd, size)
<1> DEFINE k == KernelStart \div FrameSize
           e == KernelEnd \div FrameSize
           n == RegionFrames(KernelEnd - KernelStart)
           b == RegionFrames(size)
<1>1. /\ k \in Nat /\ KernelStart = FrameSize * k
      /\ e \in Nat /\ KernelEnd < FrameSize * e + FrameSize
  <2>1. KernelStart = FrameSize * (KernelStart \div FrameSize)
    BY KernelAssumption, SizesAssumption, DivInt
  <2> QED BY <2>1, KernelAssumption, SizesAssumption, DivNat
<1>2. n \in Nat \ {0} /\ b \in Nat \ {0}
  BY RegionFramesType, KernelAssumption
<1>3. /\ FreeRegion(KernelStart, KernelEnd - KernelStart) = k .. (k + n - 1)
      /\ FreeRegion(KernelEnd, size) = e .. (e + b - 1)
  BY DEF FreeRegion, FrameRange
<1> SUFFICES ASSUME NEW f \in KernelFrames
             PROVE  f \in k .. (k + n - 1) \/ f \in e .. (e + b - 1)
  BY <1>3, Zenon
<1>4. f \in Nat /\ FrameSize * f < KernelEnd /\ KernelStart < FrameSize * (f + 1)
  BY KernelAssumption DEF KernelFrames
<1>4a. n = IF KernelEnd - KernelStart < FrameSize THEN 1
          ELSE (KernelEnd - KernelStart) \div FrameSize
  BY DEF RegionFrames
<1> HIDE DEF k, e, n, b
<1>5. k <= f
  <2>1. SUFFICES ASSUME f + 1 <= k PROVE FALSE
    BY <1>1, <1>4
  <2>2. FrameSize * (f + 1) <= FrameSize * k
    BY <2>1, <1>1, <1>4, SizesAssumption
  <2> QED BY <2>2, <1>1, <1>4, SizesAssumption, KernelAssumption
<1>6. f <= e
  <2>1. SUFFICES ASSUME e < f PROVE FALSE
    BY <1>1, <1>4
  <2>2. FrameSize * e + FrameSize <= FrameSize * f
    BY <2>1, <1>1, <1>4, SizesAssumption, MultipleLess
  <2>3. FrameSize * e \in Int /\ FrameSize * f \in Int
    BY <1>1, <1>4, SizesAssumption
  <2> QED BY <2>2, <2>3, <1>1, <1>4, SizesAssumption, KernelAssumption
<1>7. CASE f = e
  BY <1>7, <1>1, <1>2
<1>8. CASE f < e
  <2> DEFINE size_k == KernelEnd - KernelStart
             w == size_k \div FrameSize
  <2>1. size_k \in Nat /\ w \in Nat /\ size_k < FrameSize * w + FrameSize
    BY KernelAssumption, SizesAssumption, DivNat
  <2>2. KernelEnd >= FrameSize * f + FrameSize
    <3>1. FrameSize * f + FrameSize <= FrameSize * e
      BY <1>8, <1>1, <1>4, SizesAssumption, MultipleLess
    <3>2. FrameSize * e <= KernelEnd
      BY KernelAssumption, SizesAssumption, DivNat DEF e
    <3>3. FrameSize * e \in Int /\ FrameSize * f \in Int
      BY <1>1, <1>4, SizesAssumption
    <3> QED BY <3>1, <3>2, <3>3, SizesAssumption, KernelAssumption
  <2> HIDE DEF w
  <2>3. f - k < w
    <3>1. SUFFICES ASSUME w <= f - k PROVE FALSE
      BY <2>1, <1>1, <1>4
    <3>2. FrameSize * w <= FrameSize * (f - k)
      BY <3>1, <2>1, <1>1, <1>4, <1>5, SizesAssumption
    <3>3. FrameSize * (f - k) = FrameSize * f - FrameSize * k
      BY <1>1, <1>4, SizesAssumption
    <3>4. FrameSize * w \in Int /\ FrameSize * f \in Int /\ FrameSize * k \in Int
      BY <2>1, <1>1, <1>4, SizesAssumption
    <3> QED BY <3>2, <3>3, <3>4, <2>1, <2>2, <1>1, SizesAssumption, KernelAssumption
  <2>4. w <= n
    BY <1>4a, <2>1, <1>2, SizesAssumption, KernelAssumption, SmallSizeNoFrame DEF w
  <2> QED BY <2>3, <2>4, <2>1, <1>1, <1>2, <1>4, <1>5
<1> QED BY <1>6, <1>7, <1>8, <1>1, <1>4

\* A machine with a frame has a dword of bitmap.
LEMMA NoEmptyBitmap ==
  ASSUME NEW frames \in Nat \ {0}, NEW bits \in Nat \ {0}
  PROVE  frames \div bits + (IF frames % bits # 0 THEN 1 ELSE 0) \in Nat \ {0}
<1>1. frames \div bits \in Nat
  BY DivNat
<1>2. frames % bits = 0 => frames \div bits # 0
  BY DivInt, <1>1
<1> QED BY <1>1, <1>2

\* What a client holds is accounted for in the bitmap (BitmapAccounts is
\* inductive together with the type invariant).
THEOREM Accounts == Spec => []BitmapAccounts
<1>1. Init => BitmapAccounts
  BY DEF Init, BitmapAccounts
<1>2. TypeOK /\ TypeOK' /\ BitmapAccounts /\ [Next]_vars => BitmapAccounts'
  <2> SUFFICES ASSUME TypeOK, TypeOK', BitmapAccounts, [Next]_vars
               PROVE  BitmapAccounts'
    OBVIOUS
  <2>1. CASE InitBitmap
    <3>1. pc = "reset" /\ pc' = "regions" /\ owned' = owned
      BY <2>1 DEF InitBitmap
    <3>2. owned = {}
      BY <3>1 DEF BitmapAccounts
    <3>3. ASSUME max_frames' > 0 PROVE 0 \in pmmap'
      <4>1. pmmap_size' = max_frames' \div kFramesPerDword
                            + (IF max_frames' % kFramesPerDword # 0 THEN 1 ELSE 0)
        BY <2>1 DEF InitBitmap
      <4>2. max_frames' \in Nat \ {0}
        BY <3>3 DEF TypeOK
      <4>3. pmmap_size' \in Nat \ {0}
        BY <4>1, <4>2, FramesPerDwordType, NoEmptyBitmap
      <4>4. pmmap_size' * BitsPerByte \in Nat \ {0}
        BY <4>3, SizesAssumption, MultiplePositive
      <4>5. 0 \in 0 .. (pmmap_size' * BitsPerByte - 1)
        BY <4>4
      <4>6. pmmap' = pmmap \cup (0 .. (pmmap_size' * BitsPerByte - 1))
        BY <2>1 DEF InitBitmap, Memset
      <4> QED BY <4>5, <4>6, Zenon
    <3> QED BY <3>1, <3>2, <3>3 DEF BitmapAccounts
  <2>2. CASE InitAvailableRegions
    <3>1. /\ pc = "regions" /\ pc' \in {"regions", "kernel"}
          /\ owned' = owned /\ max_frames' = max_frames
      BY <2>2 DEF InitAvailableRegions, config
    <3>2. owned = {}
      BY <3>1 DEF BitmapAccounts
    <3>3. max_frames > 0 => 0 \in pmmap
      BY <3>1 DEF BitmapAccounts
    <3>4. 0 \in pmmap' \/ pmmap' = pmmap
      <4>1. \/ InitRegion(boot.mmap[entry].addr % WordMod,
                          boot.mmap[entry].len % WordMod)
            \/ pmmap' = pmmap
        BY <2>2 DEF InitAvailableRegions
      <4> QED BY <4>1, InitRegionBitmap, Zenon
    <3> QED BY <3>1, <3>2, <3>3, <3>4 DEF BitmapAccounts
  <2>3. CASE DeinitKernel
    <3>1. /\ pc = "kernel" /\ pc' = "ready"
          /\ owned' = owned /\ max_frames' = max_frames
      BY <2>3 DEF DeinitKernel, config
    <3>2. owned = {} /\ (max_frames > 0 => 0 \in pmmap)
      BY <3>1 DEF BitmapAccounts
    <3>3. pmmap' = (pmmap \cup FreeRegion(KernelStart, KernelEnd - KernelStart))
                     \cup FreeRegion(KernelEnd, PmmapSizeAligned)
      BY <2>3 DEF DeinitKernel, BitmapSet
    <3>4. KernelFrames \subseteq pmmap'
      BY <3>3, PmmapSizeAlignedType, DeinitKernelCovers
    <3> QED BY <3>1, <3>2, <3>3, <3>4 DEF BitmapAccounts, KernelFrames
  <2>4. CASE AllocFrame
    <3>1. UNCHANGED <<config, pc, entry>>
      BY <2>4 DEF AllocFrame
    <3>2. CASE UNCHANGED <<pmmap, used_frames, owned>>
      BY <3>1, <3>2 DEF BitmapAccounts, KernelFrames, config
    <3>3. ASSUME NEW p \in (0 .. (max_frames - 1)) \ pmmap,
                 pmmap' = pmmap \cup {p},
                 owned' = owned \cup {FrameSize * p}
          PROVE  BitmapAccounts'
      <4>1. max_frames \in Nat /\ max_frames > 0 /\ max_frames' = max_frames
        BY <3>1 DEF TypeOK, config
      <4>2. pc = "ready"
        <5>1. pc # "reset"
          BY <4>1 DEF BitmapAccounts
        <5> QED BY <5>1, <2>4 DEF AllocFrame
      <4>3. p \in 1 .. (max_frames - 1) /\ p \notin KernelFrames
        <5>1. 0 \in pmmap /\ KernelFrames \subseteq pmmap
          BY <4>1, <4>2 DEF BitmapAccounts
        <5>2. p # 0 /\ p \notin KernelFrames
          BY <5>1
        <5> QED BY <5>2, <4>1
      <4>4. ASSUME NEW frame \in owned'
            PROVE  \E q \in 1 .. (max_frames' - 1) :
                     /\ frame = FrameSize * q
                     /\ q \in pmmap'
                     /\ q \notin KernelFrames
        <5>1. CASE frame = FrameSize * p
          BY <5>1, <4>1, <4>3, <3>3
        <5>2. CASE frame \in owned
          <6>1. PICK q \in 1 .. (max_frames - 1) :
                  frame = FrameSize * q /\ q \in pmmap /\ q \notin KernelFrames
            BY <5>2 DEF BitmapAccounts
          <6> QED BY <6>1, <4>1, <3>3, Zenon
        <5> QED BY <5>1, <5>2, <3>3, Zenon
      <4> QED BY <4>1, <4>2, <4>4, <3>1, <3>3 DEF BitmapAccounts, KernelFrames
    <3> QED BY <2>4, <3>2, <3>3, AllocFrameOutcome
  <2>5. ASSUME NEW frame \in owned, FreeFrame(frame)
        PROVE  BitmapAccounts'
    <3>1. /\ pc = "ready" /\ pc' = pc
          /\ max_frames' = max_frames
          /\ owned' = owned \ {frame}
          /\ pmmap' = pmmap \ {frame \div FrameSize}
      BY <2>5 DEF FreeFrame, BitmapUnset, config
    <3>2. PICK p \in 1 .. (max_frames - 1) :
            frame = FrameSize * p /\ p \in pmmap /\ p \notin KernelFrames
      BY DEF BitmapAccounts
    <3>3. p \in Nat /\ frame \div FrameSize = p
      <4>1. p \in Nat
        BY DEF TypeOK
      <4> QED BY <4>1, <3>2, SizesAssumption, DivMultiple
    <3>4. pmmap' = pmmap \ {p}
      BY <3>1, <3>3
    <3>5. (max_frames > 0 => 0 \in pmmap) /\ KernelFrames \subseteq pmmap
      BY <3>1 DEF BitmapAccounts
    <3>6. (max_frames' > 0 => 0 \in pmmap') /\ KernelFrames \subseteq pmmap'
      BY <3>1, <3>2, <3>4, <3>5
    <3>7. ASSUME NEW other \in owned'
          PROVE  \E q \in 1 .. (max_frames' - 1) :
                   /\ other = FrameSize * q
                   /\ q \in pmmap'
                   /\ q \notin KernelFrames
      <4>1. other \in owned /\ other # FrameSize * p
        BY <3>1, <3>2
      <4>2. PICK q \in 1 .. (max_frames - 1) :
              other = FrameSize * q /\ q \in pmmap /\ q \notin KernelFrames
        BY <4>1 DEF BitmapAccounts
      <4>3. q # p
        BY <4>1, <4>2
      <4> QED BY <4>2, <4>3, <3>1, <3>4
    <3> QED BY <3>1, <3>6, <3>7 DEF BitmapAccounts, KernelFrames
  <2>6. CASE UNCHANGED vars
    BY <2>6 DEF vars, BitmapAccounts, KernelFrames
  <2> QED BY <2>1, <2>2, <2>3, <2>4, <2>5, <2>6 DEF Next
<1> QED BY <1>1, <1>2, TypeCorrect, PTL DEF Spec

-----------------------------------------------------------------------------
(***************************************************************************)
(* What clients may rely on, whatever the boot loader reports.             *)
(***************************************************************************)

\* No frame with a byte of the kernel image is ever handed out: the image is
\* covered although its last frame is only reached by rounding.
THEOREM KernelIsSafe == Spec => []KernelNeverAllocated
<1>1. TypeOK /\ BitmapAccounts => KernelNeverAllocated
  <2> SUFFICES ASSUME TypeOK, BitmapAccounts, NEW frame \in owned
               PROVE  frame \div FrameSize \notin KernelFrames
    BY DEF KernelNeverAllocated
  <2>1. PICK p \in 1 .. (max_frames - 1) :
          frame = FrameSize * p /\ p \notin KernelFrames
    BY DEF BitmapAccounts
  <2>2. p \in Nat
    BY DEF TypeOK
  <2> QED BY <2>1, <2>2, SizesAssumption, DivMultiple
<1> QED BY <1>1, TypeCorrect, Accounts, PTL

\* AllocFrame never returns a frame some client still holds.
THEOREM FramesAreFresh == Spec => FreshFrame
<1>1. TypeOK /\ BitmapAccounts /\ [Next]_vars
        => [AllocFrame /\ result' # 0 => result' \notin owned]_vars
  <2> SUFFICES ASSUME TypeOK, BitmapAccounts, AllocFrame,
                      result' # 0, result' \in owned
               PROVE  FALSE
    OBVIOUS
  <2>1. PICK p \in (0 .. (max_frames - 1)) \ pmmap : result' = FrameSize * p
    BY AllocFrameOutcome
  <2>2. PICK q \in 1 .. (max_frames - 1) : result' = FrameSize * q /\ q \in pmmap
    BY DEF BitmapAccounts
  <2>3. p \in Nat /\ q \in Nat
    BY DEF TypeOK
  <2>4. p = q
    BY <2>1, <2>2, <2>3, SizesAssumption, DivMultiple
  <2> QED BY <2>1, <2>2, <2>4
<1> QED BY <1>1, TypeCorrect, Accounts, PTL DEF Spec, FreshFrame

LEMMA FramesInUseFinite ==
  ASSUME TypeOK
  PROVE  IsFiniteSet(FramesInUse) /\ Cardinality(FramesInUse) \in Nat
<1>1. max_frames - 1 \in Int
  BY DEF TypeOK
<1>2. IsFiniteSet(0 .. (max_frames - 1))
  BY <1>1, FS_Interval
<1>3. FramesInUse \in SUBSET (0 .. (max_frames - 1))
  BY DEF FramesInUse
<1>4. IsFiniteSet(FramesInUse)
  BY <1>2, <1>3, FS_Subset
<1> QED BY <1>4, FS_CardinalityType

\* The count of used frames and the bitmap change together: the error Init
\* leaves in the count is the same after every allocation and every free.
THEOREM DriftIsConstant == Spec => DriftConstant
<1>1. TypeOK /\ BitmapAccounts /\ [Next]_vars
        => [pc = "ready" => Drift' = Drift]_vars
  <2> SUFFICES ASSUME TypeOK, BitmapAccounts, Next, pc = "ready"
               PROVE  Drift' = Drift
    OBVIOUS
  <2> DEFINE n == Cardinality(FramesInUse)
  <2>0. n \in Nat /\ IsFiniteSet(FramesInUse)
    BY FramesInUseFinite
  <2>1. CASE AllocFrame
    <3>1. max_frames' = max_frames
      BY <2>1 DEF AllocFrame, config
    <3>2. CASE UNCHANGED <<pmmap, used_frames, owned>>
      BY <3>1, <3>2 DEF Drift, FramesInUse
    <3>3. ASSUME NEW p \in (0 .. (max_frames - 1)) \ pmmap,
                 pmmap' = pmmap \cup {p},
                 used_frames' = (used_frames + 1) % WordMod
          PROVE  Drift' = Drift
      <4>1. FramesInUse' = FramesInUse \cup {p} /\ p \notin FramesInUse
        BY <3>1, <3>3 DEF FramesInUse
      <4>2. Cardinality(FramesInUse') = n + 1
        BY <2>0, <4>1, FS_AddElement
      <4> HIDE DEF n
      <4>3. used_frames + 1 \in Int /\ -(n + 1) \in Int
        BY <2>0 DEF TypeOK
      <4>4. (((used_frames + 1) % WordMod) + -(n + 1)) % WordMod
              = (used_frames + 1 + -(n + 1)) % WordMod
        BY <4>3, SizesAssumption, ModShift
      <4>5. used_frames + 1 + -(n + 1) = used_frames - n
        BY <2>0 DEF TypeOK
      <4>6. (used_frames + 1) % WordMod \in Int
        BY <4>3, WordType
      <4>7. ((used_frames + 1) % WordMod) + -(n + 1)
              = ((used_frames + 1) % WordMod) - (n + 1)
        BY <4>6, <2>0
      <4> QED BY <3>3, <4>2, <4>4, <4>5, <4>7 DEF Drift, n
    <3> QED BY <2>1, <3>2, <3>3, AllocFrameOutcome
  <2>2. ASSUME NEW frame \in owned, FreeFrame(frame)
        PROVE  Drift' = Drift
    <3>1. PICK p \in 1 .. (max_frames - 1) : frame = FrameSize * p /\ p \in pmmap
      BY DEF BitmapAccounts
    <3>2. p \in Nat /\ frame \div FrameSize = p
      <4>1. p \in Nat
        BY DEF TypeOK
      <4> QED BY <4>1, <3>1, SizesAssumption, DivMultiple
    <3>3. /\ max_frames' = max_frames
          /\ pmmap' = pmmap \ {p}
          /\ used_frames' = (used_frames - 1) % WordMod
      BY <2>2, <3>2 DEF FreeFrame, BitmapUnset, config
    <3>4. FramesInUse' = FramesInUse \ {p} /\ p \in FramesInUse
      BY <3>1, <3>2, <3>3 DEF FramesInUse, TypeOK
    <3>5. Cardinality(FramesInUse') = n - 1
      BY <2>0, <3>4, FS_RemoveElement
    <3> HIDE DEF n
    <3>6. used_frames - 1 \in Int /\ -(n - 1) \in Int
      BY <2>0 DEF TypeOK
    <3>7. (((used_frames - 1) % WordMod) + -(n - 1)) % WordMod
            = (used_frames - 1 + -(n - 1)) % WordMod
      BY <3>6, SizesAssumption, ModShift
    <3>8. used_frames - 1 + -(n - 1) = used_frames - n
      BY <2>0 DEF TypeOK
    <3>9. ((used_frames - 1) % WordMod) + -(n - 1)
            = ((used_frames - 1) % WordMod) - (n - 1)
      <4>1. (used_frames - 1) % WordMod \in Int
        BY <3>6, WordType
      <4> QED BY <4>1, <2>0
    <3> QED BY <3>3, <3>5, <3>7, <3>8, <3>9 DEF Drift, n
  <2>3. ~InitBitmap /\ ~InitAvailableRegions /\ ~DeinitKernel
    BY DEF InitBitmap, InitAvailableRegions, DeinitKernel
  <2> QED BY <2>1, <2>2, <2>3 DEF Next
<1> QED BY <1>1, TypeCorrect, Accounts, PTL DEF Spec, DriftConstant

-----------------------------------------------------------------------------
(***************************************************************************)
(* The inductive invariant on a well-formed map. While the regions are     *)
(* freed, used_frames_ is max_frames_ less the number of frames freed so   *)
(* far; once the kernel is reserved, the clear bits are those of the       *)
(* frames neither withheld nor held, and used_frames_ is the number of the *)
(* bits set, or one less: bit 0 is set without being counted, and a frame  *)
(* the image shares with what lies behind it is counted twice.             *)
(***************************************************************************)

\* The frames of an available entry of the map.
EntryFrames(i) ==
  FrameRange(boot.mmap[i].addr \div FrameSize, boot.mmap[i].len \div FrameSize)

\* The frames of the available entries before entry k.
Released(k) ==
  UNION {EntryFrames(i) : i \in {j \in 1 .. (k - 1) : boot.mmap[j].available}}

AllFrames == 0 .. (max_frames - 1)
HeldFrames == {f \in AllFrames : FrameSize * f \in owned}

RegionsFreed ==
  /\ entry \in 1 .. (Len(boot.mmap) + 1)
  /\ pc = "kernel" => entry = Len(boot.mmap) + 1
  /\ AllFrames \ AvailableFrames(boot) \subseteq pmmap
  /\ Released(entry) \cap pmmap \subseteq {0}
  /\ used_frames = max_frames - Cardinality(Released(entry))

KernelReserved ==
  /\ AllFrames \ pmmap = (AvailableFrames(boot) \ WithheldFrames) \ HeldFrames
  /\ HeldFrames \subseteq AvailableFrames(boot) \ WithheldFrames
  /\ used_frames \in {Cardinality(FramesInUse) - 1, Cardinality(FramesInUse)}

CountInv ==
  /\ pc = "reset" => entry = 1
  /\ max_frames <= pmmap_size * kFramesPerDword
  /\ pc # "reset" /\ WellFormed(boot) =>
       /\ AvailableFrames(boot) \subseteq AllFrames
       /\ pc # "ready" => RegionsFreed
       /\ pc = "ready" => KernelReserved

-----------------------------------------------------------------------------
(***************************************************************************)
(* Multiples of a divisor that is not a literal.                           *)
(***************************************************************************)
LEMMA Scale ==
  ASSUME NEW a \in Int, NEW b \in Int, NEW d \in Nat \ {0}
  PROVE  /\ d * a \in Int
         /\ d * a <= d * b <=> a <= b
         /\ d * (a + b) = d * a + d * b
         /\ d * (a + 1) = d * a + d
  BY SMT

LEMMA DivGreatest ==
  ASSUME NEW a \in Nat, NEW n \in Int, NEW d \in Nat \ {0}
  PROVE  n <= a \div d <=> d * n <= a
<1> DEFINE q == a \div d
<1>1. q \in Nat /\ d * q <= a /\ a < d * q + d
  BY DivNat
<1> HIDE DEF q
<1>2. d * n \in Int /\ d * q \in Int /\ d * (q + 1) = d * q + d
  BY <1>1, Scale
<1>3. CASE n <= q
  BY <1>1, <1>2, <1>3, Scale
<1>4. CASE q + 1 <= n
  <2>1. d * (q + 1) <= d * n
    BY <1>1, <1>4, Scale
  <2> QED BY <2>1, <1>1, <1>2, <1>4
<1> QED BY <1>1, <1>3, <1>4 DEF q

LEMMA FrameRangeFinite ==
  ASSUME NEW align \in Nat, NEW frames \in Nat
  PROVE  /\ IsFiniteSet(FrameRange(align, frames))
         /\ Cardinality(FrameRange(align, frames)) = frames
<1> DEFINE last == align + frames - 1
<1>1. align \in Int /\ last \in Int /\ FrameRange(align, frames) = align .. last
  BY DEF FrameRange
<1>2. (IF align > last THEN 0 ELSE last - align + 1) = frames
  OBVIOUS
<1> HIDE DEF last
<1> QED BY <1>1, <1>2, FS_Interval

-----------------------------------------------------------------------------
(***************************************************************************)
(* Well-formed memory maps.                                                *)
(***************************************************************************)

\* What WellFormed says of the entries of the map.
Bytes == (LowKB + boot.mem_upper) * KB

Regular ==
  LET avail == {i \in 1 .. Len(boot.mmap) : boot.mmap[i].available}
  IN  /\ Bytes < WordMod
      /\ \A i \in avail : /\ boot.mmap[i].addr % FrameSize = 0
                          /\ boot.mmap[i].addr + boot.mmap[i].len <= Bytes
      /\ \A i, j \in avail :
           i < j => boot.mmap[i].addr + boot.mmap[i].len <= boot.mmap[j].addr
      /\ \A f \in (0 .. (Bytes \div FrameSize - 1)) \ AvailableFrames(boot) :
           f < BitsPerByte * ((Bytes \div FrameSize) \div kFramesPerDword)

LEMMA WellFormedRegular ==
  WellFormed(boot) <=> Regular /\ WithheldFrames \subseteq AvailableFrames(boot)
  BY DEF WellFormed, Regular, Bytes

LEMMA EntryType ==
  ASSUME TypeOK, NEW i \in 1 .. Len(boot.mmap)
  PROVE  /\ boot.mmap[i].addr \in Nat
         /\ boot.mmap[i].len \in Nat
         /\ boot.mem_upper \in Nat
         /\ Len(boot.mmap) \in Nat
<1>1. boot \in BootInfo
  BY BootAssumption DEF TypeOK
<1>2. boot.mmap \in Seq(MmapEntry) /\ boot.mem_upper \in Nat
  BY <1>1 DEF BootInfo
<1>3. boot.mmap[i] \in MmapEntry
  BY <1>2
<1> QED BY <1>2, <1>3 DEF MmapEntry

LEMMA BytesType == TypeOK => Bytes \in Nat /\ Len(boot.mmap) \in Nat
<1> SUFFICES ASSUME TypeOK PROVE Bytes \in Nat /\ Len(boot.mmap) \in Nat
  OBVIOUS
<1>1. boot.mmap \in Seq(MmapEntry) /\ boot.mem_upper \in Nat
  BY BootAssumption DEF TypeOK, BootInfo
<1> QED BY <1>1, SizesAssumption DEF Bytes

\* An available entry of a regular map: what InitRegion frees for it are the frames
\* it covers.
LEMMA EntryFramesAreAvailable ==
  ASSUME TypeOK, Regular, NEW i \in 1 .. Len(boot.mmap), boot.mmap[i].available
  PROVE  /\ boot.mmap[i].addr % WordMod = boot.mmap[i].addr
         /\ boot.mmap[i].len % WordMod = boot.mmap[i].len
         /\ boot.mmap[i].addr \div FrameSize \in Nat
         /\ boot.mmap[i].len \div FrameSize \in Nat
         /\ EntryFrames(i) =
              {f \in 0 .. (WordMod \div FrameSize) :
                 /\ boot.mmap[i].addr <= FrameSize * f
                 /\ FrameSize * (f + 1) <= boot.mmap[i].addr + boot.mmap[i].len}
<1> DEFINE addr == boot.mmap[i].addr
           len  == boot.mmap[i].len
           a    == addr \div FrameSize
           n    == len \div FrameSize
           w    == WordMod \div FrameSize
<1>1. addr \in Nat /\ len \in Nat /\ Bytes \in Nat
  BY EntryType, BytesType
<1>2. addr % FrameSize = 0 /\ addr + len <= Bytes /\ Bytes < WordMod
  BY DEF Regular
<1> HIDE DEF addr, len
<1>3. addr % WordMod = addr /\ len % WordMod = len
  <2>1. addr < WordMod /\ len < WordMod
    BY <1>1, <1>2, SizesAssumption
  <2> QED BY <2>1, <1>1, ModSmall, SizesAssumption
<1>4. a \in Nat /\ n \in Nat /\ w \in Nat
  BY <1>1, SizesAssumption, DivNat
<1>5. addr = FrameSize * a
  BY <1>1, <1>2, SizesAssumption, DivInt
<1>6. ASSUME NEW f \in Nat
      PROVE  /\ addr <= FrameSize * f <=> a <= f
             /\ FrameSize * (f + 1) <= addr + len <=> f <= a + n - 1
             /\ f <= a + n - 1 => f <= w
  <2> HIDE DEF a, n, w
  <2>1. addr <= FrameSize * f <=> a <= f
    BY <1>4, <1>5, SizesAssumption, Scale
  <2>2. FrameSize * (f + 1) = FrameSize * a + FrameSize * (f + 1 - a)
    <3>1. f + 1 - a \in Int /\ a + (f + 1 - a) = f + 1
      BY <1>4
    <3> QED BY <3>1, <1>4, SizesAssumption, Scale
  <2>3. FrameSize * (f + 1 - a) <= len <=> f + 1 - a <= n
    <3>1. f + 1 - a \in Int
      BY <1>4
    <3> QED BY <3>1, <1>1, SizesAssumption, DivGreatest DEF n
  <2>4. FrameSize * (f + 1 - a) \in Int /\ FrameSize * a \in Int
    BY <1>4, SizesAssumption
  <2>5. FrameSize * (f + 1) <= addr + len <=> f <= a + n - 1
    BY <2>2, <2>3, <2>4, <1>1, <1>4, <1>5
  <2>6. FrameSize * (f + 1) <= WordMod <=> f + 1 <= w
    BY SizesAssumption, DivGreatest DEF w
  <2>7. FrameSize * (f + 1) \in Int
    BY SizesAssumption
  <2> QED BY <2>1, <2>5, <2>6, <2>7, <1>1, <1>2, <1>4, SizesAssumption
<1>7. a .. (a + n - 1) =
        {f \in 0 .. w : addr <= FrameSize * f /\ FrameSize * (f + 1) <= addr + len}
  <2> HIDE DEF a, n, w
  <2>1. ASSUME NEW f \in a .. (a + n - 1)
        PROVE  f \in 0 .. w /\ addr <= FrameSize * f /\ FrameSize * (f + 1) <= addr + len
    <3>1. f \in Nat /\ a <= f /\ f <= a + n - 1
      BY <1>4
    <3>2. /\ addr <= FrameSize * f <=> a <= f
          /\ FrameSize * (f + 1) <= addr + len <=> f <= a + n - 1
          /\ f <= a + n - 1 => f <= w
      BY <3>1, <1>6
    <3>3. f \in 0 .. w
      BY <3>1, <3>2, <1>4
    <3> QED BY <3>1, <3>2, <3>3
  <2>2. ASSUME NEW f \in 0 .. w, addr <= FrameSize * f, FrameSize * (f + 1) <= addr + len
        PROVE  f \in a .. (a + n - 1)
    <3>1. f \in Nat
      BY <1>4
    <3> QED BY <3>1, <1>4, <1>6, <2>2
  <2> QED BY <2>1, <2>2
<1> QED BY <1>3, <1>4, <1>7 DEF EntryFrames, FrameRange, addr, len

LEMMA EntryFramesFinite ==
  ASSUME TypeOK, Regular, NEW i \in 1 .. Len(boot.mmap), boot.mmap[i].available
  PROVE  /\ IsFiniteSet(EntryFrames(i))
         /\ Cardinality(EntryFrames(i)) = boot.mmap[i].len \div FrameSize
<1> DEFINE a == boot.mmap[i].addr \div FrameSize
           n == boot.mmap[i].len \div FrameSize
<1>1. a \in Nat /\ n \in Nat
  BY EntryFramesAreAvailable
<1>2. EntryFrames(i) = FrameRange(a, n)
  BY DEF EntryFrames
<1> HIDE DEF a, n
<1> QED BY <1>1, <1>2, FrameRangeFinite DEF n

LEMMA ReleasedAll ==
  ASSUME TypeOK, Regular
  PROVE  Released(Len(boot.mmap) + 1) = AvailableFrames(boot)
<1> DEFINE avail == {j \in 1 .. Len(boot.mmap) : boot.mmap[j].available}
           covers(i, f) == /\ boot.mmap[i].addr <= FrameSize * f
                           /\ FrameSize * (f + 1) <= boot.mmap[i].addr + boot.mmap[i].len
<1>1. Released(Len(boot.mmap) + 1) = UNION {EntryFrames(i) : i \in avail}
  <2>1. Len(boot.mmap) + 1 - 1 = Len(boot.mmap)
    BY BytesType
  <2> QED BY <2>1 DEF Released
<1>2. \A i \in avail :
        EntryFrames(i) = {f \in 0 .. (WordMod \div FrameSize) : covers(i, f)}
  BY EntryFramesAreAvailable
<1>3. AvailableFrames(boot) =
        {f \in 0 .. (WordMod \div FrameSize) : \E i \in avail : covers(i, f)}
  BY DEF AvailableFrames
<1> HIDE DEF avail, covers
<1> QED BY <1>1, <1>2, <1>3

LEMMA ReleasedNext ==
  ASSUME TypeOK, NEW k \in 1 .. Len(boot.mmap)
  PROVE  Released(k + 1) = IF boot.mmap[k].available THEN Released(k) \cup EntryFrames(k)
                           ELSE Released(k)
<1>1. 1 .. (k + 1 - 1) = 1 .. (k - 1) \cup {k}
  OBVIOUS
<1>2. {j \in 1 .. (k + 1 - 1) : boot.mmap[j].available} =
        {j \in 1 .. (k - 1) : boot.mmap[j].available}
          \cup (IF boot.mmap[k].available THEN {k} ELSE {})
  BY <1>1
<1>3. CASE boot.mmap[k].available
  BY <1>2, <1>3 DEF Released
<1>4. CASE ~boot.mmap[k].available
  BY <1>2, <1>4 DEF Released
<1> QED BY <1>3, <1>4

LEMMA ReleasedSubset ==
  ASSUME TypeOK, Regular, NEW k \in 1 .. Len(boot.mmap) + 1
  PROVE  /\ Released(k) \subseteq AvailableFrames(boot)
         /\ \A i \in {j \in 1 .. (k - 1) : boot.mmap[j].available} : i \in 1 .. Len(boot.mmap)
<1>1. 1 .. (k - 1) \subseteq 1 .. (Len(boot.mmap) + 1 - 1)
  BY BytesType
<1>2. Released(k) \subseteq Released(Len(boot.mmap) + 1)
  BY <1>1 DEF Released
<1> QED BY <1>1, <1>2, BytesType, ReleasedAll

\* The entries are disjoint, so no frame is freed twice.
LEMMA ReleasedDisjoint ==
  ASSUME TypeOK, Regular, NEW k \in 1 .. Len(boot.mmap), boot.mmap[k].available
  PROVE  Released(k) \cap EntryFrames(k) = {}
<1> SUFFICES ASSUME NEW f \in Released(k), f \in EntryFrames(k)
             PROVE  FALSE
  OBVIOUS
<1>1. PICK i \in {j \in 1 .. (k - 1) : boot.mmap[j].available} : f \in EntryFrames(i)
  BY DEF Released
<1>2. i \in 1 .. Len(boot.mmap) /\ boot.mmap[i].available /\ i < k
  BY BytesType
<1>3. f \in 0 .. (WordMod \div FrameSize) /\ boot.mmap[k].addr <= FrameSize * f
  BY EntryFramesAreAvailable
<1>4. FrameSize * (f + 1) <= boot.mmap[i].addr + boot.mmap[i].len
  BY <1>1, <1>2, EntryFramesAreAvailable
<1>5. boot.mmap[i].addr + boot.mmap[i].len <= boot.mmap[k].addr
  BY <1>2 DEF Regular
<1>6. boot.mmap[i].addr \in Nat /\ boot.mmap[i].len \in Nat /\ boot.mmap[k].addr \in Nat
  BY <1>2, EntryType
<1> DEFINE first == FrameSize * f
           last  == boot.mmap[i].addr + boot.mmap[i].len
<1>7. first \in Int /\ FrameSize * (f + 1) = first + FrameSize
  <2>1. f \in Int
    BY <1>3
  <2> QED BY <2>1, SizesAssumption, Scale
<1>8. boot.mmap[k].addr <= first /\ first + FrameSize <= last /\ last <= boot.mmap[k].addr
  BY <1>3, <1>4, <1>5, <1>7
<1>9. first \in Int /\ last \in Int
  BY <1>6, <1>7
<1> HIDE DEF first, last
<1> QED BY <1>6, <1>8, <1>9, SizesAssumption

LEMMA AllFramesFinite ==
  ASSUME TypeOK
  PROVE  IsFiniteSet(AllFrames) /\ Cardinality(AllFrames) = max_frames
<1>1. 0 \in Nat /\ max_frames \in Nat /\ AllFrames = FrameRange(0, max_frames)
  BY DEF TypeOK, AllFrames, FrameRange
<1> QED BY <1>1, FrameRangeFinite

-----------------------------------------------------------------------------
(***************************************************************************)
(* What DeinitKernel reserves.                                             *)
(***************************************************************************)
Image  == FreeRegion(KernelStart, KernelEnd - KernelStart)
Behind == FreeRegion(KernelEnd, PmmapSizeAligned)

ImageFrames  == RegionFrames(KernelEnd - KernelStart)
BehindFrames == RegionFrames(PmmapSizeAligned)

LEMMA ReservedTypes ==
  ASSUME TypeOK
  PROVE  /\ ImageFrames \in Nat \ {0} /\ BehindFrames \in Nat \ {0}
         /\ KernelStart \div FrameSize \in Nat \ {0}
         /\ KernelStart = FrameSize * (KernelStart \div FrameSize)
         /\ KernelEnd \div FrameSize \in Nat
         /\ Image = FrameRange(KernelStart \div FrameSize, ImageFrames)
         /\ Behind = FrameRange(KernelEnd \div FrameSize, BehindFrames)
<1>1. ImageFrames \in Nat \ {0} /\ BehindFrames \in Nat \ {0}
  BY RegionFramesType, PmmapSizeAlignedType, KernelAssumption DEF ImageFrames, BehindFrames
<1>2. KernelStart \div FrameSize \in Nat /\ KernelEnd \div FrameSize \in Nat
  BY KernelAssumption, SizesAssumption, DivNat
<1>3. KernelStart = FrameSize * (KernelStart \div FrameSize)
  BY KernelAssumption, SizesAssumption, DivInt
<1>4. FrameSize * 0 = 0 /\ KernelStart # 0
  BY SizesAssumption, KernelAssumption
<1>5. KernelStart \div FrameSize # 0
  BY <1>3, <1>4
<1> QED BY <1>1, <1>2, <1>3, <1>5 DEF Image, Behind, FreeRegion, ImageFrames, BehindFrames

\* The image's frames that are reserved first are whole, or the only one.
LEMMA ImageInKernel ==
  ASSUME TypeOK
  PROVE  /\ Image \subseteq KernelFrames
         /\ Image \cap Behind = {} \/ ImageFrames = 1
<1> DEFINE k == KernelStart \div FrameSize
           e == KernelEnd \div FrameSize
           n == ImageFrames
           b == BehindFrames
           size == KernelEnd - KernelStart
           w == size \div FrameSize
<1>1. /\ n \in Nat \ {0} /\ b \in Nat \ {0} /\ k \in Nat \ {0} /\ e \in Nat
      /\ KernelStart = FrameSize * k
      /\ Image = k .. (k + n - 1) /\ Behind = e .. (e + b - 1)
  BY ReservedTypes DEF FrameRange
<1>2. size \in Nat /\ w \in Nat /\ FrameSize * w <= size /\ size < FrameSize * w + FrameSize
  BY KernelAssumption, SizesAssumption, DivNat
<1>3. n = IF size < FrameSize THEN 1 ELSE w
  BY DEF ImageFrames, RegionFrames
<1>4. KernelStart \in Nat /\ KernelEnd \in Nat /\ FrameSize \in Nat \ {0} /\ KernelEnd = KernelStart + size
  BY KernelAssumption, SizesAssumption
<1>5. KernelStart < KernelEnd
  BY KernelAssumption
<1>5a. \A m \in Int : m <= e <=> FrameSize * m <= KernelEnd
  BY <1>4, DivGreatest
<1> HIDE DEF k, e, n, b, w, size
<1>6. ASSUME NEW f \in Image
      PROVE  f \in KernelFrames
  <2>1. f \in Nat /\ k <= f /\ f <= k + n - 1
    BY <1>1
  <2>2. /\ FrameSize * k <= FrameSize * f /\ FrameSize * f \in Int
        /\ FrameSize * (f + 1) = FrameSize * f + FrameSize
    BY <2>1, <1>1, <1>4, Scale
  <2>3. KernelStart < FrameSize * (f + 1)
    BY <2>2, <1>1, <1>4
  <2>4. FrameSize * f < KernelEnd
    <3>1. CASE size < FrameSize
      <4>1. f = k
        BY <2>1, <1>1, <1>3, <3>1
      <4> QED BY <4>1, <1>1, <1>5
    <3>2. CASE ~(size < FrameSize)
      <4>1. f + 1 <= k + w
        BY <2>1, <1>1, <1>2, <1>3, <3>2
      <4>2. /\ FrameSize * (f + 1) <= FrameSize * (k + w)
            /\ FrameSize * (k + w) = FrameSize * k + FrameSize * w
            /\ FrameSize * w \in Int /\ FrameSize * k \in Int
        BY <4>1, <2>1, <1>1, <1>2, <1>4, Scale
      <4> QED BY <4>2, <2>2, <1>1, <1>2, <1>4
    <3> QED BY <3>1, <3>2
  <2>5. f <= FrameSize * f
    <3>1. \A x \in Nat, d \in Nat \ {0} : x <= d * x
      BY SMT
    <3> QED BY <3>1, <2>1, <1>4
  <2>6. f \in 0 .. KernelEnd
    BY <2>1, <2>2, <2>4, <2>5, <1>4
  <2> QED BY <2>3, <2>4, <2>6 DEF KernelFrames
<1>7. CASE size < FrameSize
  BY <1>3, <1>6, <1>7 DEF n
<1>8. CASE ~(size < FrameSize)
  <2>1. n = w
    BY <1>3, <1>8
  <2>2. k + w \in Int /\ FrameSize * (k + w) <= KernelEnd
    <3>1. /\ FrameSize * (k + w) = FrameSize * k + FrameSize * w
          /\ FrameSize * w \in Int /\ FrameSize * k \in Int
      BY <1>1, <1>2, <1>4, Scale
    <3> QED BY <3>1, <1>1, <1>2, <1>4
  <2>3. k + n <= e
    BY <2>1, <2>2, <1>5a
  <2>4. Image \cap Behind = {}
    BY <2>3, <1>1
  <2> QED BY <2>4, <1>6
<1> QED BY <1>7, <1>8

\* Frame 0 is not of the image; a frame may be in both parts, but only one.
LEMMA WithheldCount ==
  ASSUME TypeOK
  PROVE  /\ WithheldFrames = {0} \cup (Image \cup Behind)
         /\ 0 \notin Image \cup Behind
         /\ IsFiniteSet(WithheldFrames)
         /\ Cardinality(WithheldFrames) \in
              {ImageFrames + BehindFrames, ImageFrames + BehindFrames + 1}
<1> DEFINE k == KernelStart \div FrameSize
           e == KernelEnd \div FrameSize
<1>1. /\ ImageFrames \in Nat \ {0} /\ BehindFrames \in Nat \ {0}
      /\ k \in Nat \ {0} /\ e \in Nat
      /\ Image = FrameRange(k, ImageFrames) /\ Behind = FrameRange(e, BehindFrames)
  BY ReservedTypes
<1>2. WithheldFrames = {0} \cup (Image \cup Behind)
  <2>1. KernelFrames \subseteq Image \cup Behind
    BY DeinitKernelCovers, PmmapSizeAlignedType DEF Image, Behind
  <2> QED BY <2>1, ImageInKernel DEF WithheldFrames, Behind
<1>3. k <= e
  <2>1. FrameSize * k <= KernelEnd
    BY ReservedTypes, KernelAssumption
  <2> QED BY <2>1, <1>1, KernelAssumption, SizesAssumption, DivGreatest
<1> HIDE DEF k, e
<1>4. 0 \notin Image \cup Behind
  BY <1>1, <1>3 DEF FrameRange
<1>5. /\ IsFiniteSet(Image) /\ Cardinality(Image) = ImageFrames
      /\ IsFiniteSet(Behind) /\ Cardinality(Behind) = BehindFrames
  BY <1>1, FrameRangeFinite
<1> DEFINE both == Cardinality(Image \cap Behind)
<1>6. both \in {0, 1}
  <2>1. IsFiniteSet(Image \cap Behind) /\ both <= ImageFrames
    BY <1>5, FS_Intersection
  <2>2. both \in Nat
    BY <2>1, FS_CardinalityType
  <2>3. Image \cap Behind = {} => both = 0
    BY FS_EmptySet
  <2> HIDE DEF both
  <2> QED BY <2>1, <2>2, <2>3, ImageInKernel
<1>7. /\ IsFiniteSet(Image \cup Behind)
      /\ Cardinality(Image \cup Behind) = ImageFrames + BehindFrames - both
  BY <1>5, FS_Union
<1>8. /\ IsFiniteSet(WithheldFrames)
      /\ Cardinality(WithheldFrames) = Cardinality(Image \cup Behind) + 1
  <2>1. WithheldFrames = (Image \cup Behind) \cup {0}
    BY <1>2
  <2> QED BY <2>1, <1>4, <1>7, FS_AddElement
<1> HIDE DEF both
<1> QED BY <1>1, <1>2, <1>4, <1>6, <1>7, <1>8

-----------------------------------------------------------------------------
(***************************************************************************)
(* The steps.                                                              *)
(***************************************************************************)
LEMMA MaxFramesSmall == TypeOK => max_frames \in Nat /\ max_frames < WordMod
<1>1. \A m \in Nat, d \in Nat \ {0} : m <= d * m
  BY SMT
<1> QED BY <1>1, SizesAssumption DEF TypeOK

LEMMA CeilCovers ==
  ASSUME NEW a \in Nat, NEW d \in Nat \ {0}
  PROVE  LET n == a \div d + (IF a % d # 0 THEN 1 ELSE 0)
         IN  n \in Nat /\ a <= n * d /\ a \div d <= n
<1> DEFINE q == a \div d
           m == a % d
<1>1. q \in Nat /\ m \in 0 .. (d - 1) /\ a = d * q + m
  <2>1. a \in Int
    OBVIOUS
  <2> QED BY <2>1, DivInt, DivNat
<1> HIDE DEF q, m
<1>2. q * d = d * q /\ (q + 1) * d = d * q + d
  BY <1>1, Scale
<1>3. a <= (q + (IF m # 0 THEN 1 ELSE 0)) * d
  <2>1. CASE m = 0
    BY <2>1, <1>1, <1>2
  <2>2. CASE m # 0
    BY <2>2, <1>1, <1>2
  <2> QED BY <2>1, <2>2
<1>4. q + (IF m # 0 THEN 1 ELSE 0) \in Nat /\ q <= q + (IF m # 0 THEN 1 ELSE 0)
  BY <1>1
<1> QED BY <1>3, <1>4 DEF q, m

LEMMA InitBitmap_Count ==
  ASSUME TypeOK, TypeOK', CountInv, InitBitmap
  PROVE  CountInv'
<1> DEFINE kb     == (LowKB + boot.mem_upper) % WordMod
           frames == KilobytesToFrames(kb)
           dwords == frames \div kFramesPerDword
                       + (IF frames % kFramesPerDword # 0 THEN 1 ELSE 0)
<1>1. /\ pc = "reset" /\ pc' = "regions" /\ entry' = entry /\ boot' = boot
      /\ max_frames' = frames /\ used_frames' = frames /\ pmmap_size' = dwords
      /\ pmmap' = pmmap \cup (0 .. (dwords * BitsPerByte - 1))
  BY DEF InitBitmap, Memset
<1>2. frames \in Nat
  BY <1>1 DEF TypeOK
<1> HIDE DEF frames
<1>3. dwords \in Nat /\ frames <= dwords * kFramesPerDword /\ frames \div kFramesPerDword <= dwords
  BY <1>2, FramesPerDwordType, CeilCovers
<1> HIDE DEF dwords
<1>4. entry = 1
  BY <1>1 DEF CountInv
<1>5. ASSUME WellFormed(boot)'
      PROVE  AvailableFrames(boot)' \subseteq AllFrames' /\ RegionsFreed'
  <2>1. Regular
    <3>1. Regular'
      <4>1. WellFormed(boot)' <=> Regular' /\ (WithheldFrames \subseteq AvailableFrames(boot))'
        BY DEF WellFormed, Regular, Bytes
      <4> QED BY <4>1, <1>5
    <3> QED BY <3>1, <1>1 DEF Regular, Bytes, AvailableFrames
  <2>2. Bytes \in Nat /\ Bytes < WordMod /\ Len(boot.mmap) \in Nat
    BY <2>1, BytesType DEF Regular
  <2>3. frames = Bytes \div FrameSize
    <3> DEFINE n == LowKB + boot.mem_upper
    <3>1. n \in Nat
      <4>1. boot \in BootInfo
        BY BootAssumption DEF TypeOK
      <4>2. boot.mem_upper \in Nat
        BY <4>1 DEF BootInfo
      <4> QED BY <4>2, SizesAssumption
    <3>2. \A x \in Nat, d \in Nat \ {0} : x <= x * d
      BY SMT
    <3>3. Bytes = n * KB
      BY DEF Bytes
    <3> HIDE DEF n
    <3>4. n < WordMod
      BY <3>1, <3>2, <3>3, <2>2, SizesAssumption
    <3>5. n % WordMod = n /\ Bytes % WordMod = Bytes
      BY <3>1, <3>4, <2>2, SizesAssumption, ModSmall
    <3>6. kb = n
      BY <3>5 DEF n
    <3> QED BY <3>3, <3>5, <3>6 DEF frames, KilobytesToFrames
  <2>4. AvailableFrames(boot) \subseteq 0 .. (frames - 1)
    <3>1. AvailableFrames(boot)' = AvailableFrames(boot) /\ Bytes' = Bytes /\ Regular'
      BY <1>1, <2>1 DEF AvailableFrames, Bytes, Regular
    <3>2. SUFFICES ASSUME NEW f \in AvailableFrames(boot)
                   PROVE  f \in 0 .. (frames - 1)
      OBVIOUS
    <3>3. PICK i \in 1 .. Len(boot.mmap) :
            /\ boot.mmap[i].available
            /\ FrameSize * (f + 1) <= boot.mmap[i].addr + boot.mmap[i].len
      BY <3>2 DEF AvailableFrames
    <3>4. boot.mmap[i].addr + boot.mmap[i].len <= Bytes
      BY <3>3, <2>1 DEF Regular
    <3>5. f \in Nat
      BY <3>2, SizesAssumption, DivNat DEF AvailableFrames
    <3>6. FrameSize * (f + 1) <= Bytes
      <4> DEFINE end == FrameSize * (f + 1)
      <4>1. end \in Int
        <5>1. f + 1 \in Int
          BY <3>5
        <5> QED BY <5>1, SizesAssumption, Scale
      <4>2. boot.mmap[i].addr \in Nat /\ boot.mmap[i].len \in Nat
        BY EntryType
      <4>3. end <= boot.mmap[i].addr + boot.mmap[i].len
        BY <3>3
      <4> HIDE DEF end
      <4>4. end <= Bytes
        BY <4>1, <4>2, <4>3, <3>4, <2>2
      <4> QED BY <4>4 DEF end
    <3>7. f + 1 <= frames
      BY <3>5, <3>6, <2>2, <2>3, SizesAssumption, DivGreatest
    <3> QED BY <3>5, <3>7, <1>2
  <2>5. (0 .. (frames - 1)) \ AvailableFrames(boot) \subseteq pmmap'
    <3>1. SUFFICES ASSUME NEW f \in (0 .. (frames - 1)) \ AvailableFrames(boot)
                   PROVE  f \in 0 .. (dwords * BitsPerByte - 1)
      BY <1>1
    <3>2. f < BitsPerByte * (frames \div kFramesPerDword)
      BY <2>1, <2>3 DEF Regular
    <3> DEFINE q == frames \div kFramesPerDword
    <3>3. q \in Nat /\ q <= dwords
      BY <1>2, <1>3, FramesPerDwordType, DivNat
    <3> HIDE DEF q
    <3>4. BitsPerByte * q <= BitsPerByte * dwords
      BY <3>3, <1>3, SizesAssumption, Scale
    <3>5. /\ BitsPerByte * q \in Int /\ BitsPerByte * dwords \in Int
          /\ BitsPerByte * dwords = dwords * BitsPerByte
      BY <3>3, <1>3, SizesAssumption
    <3>6. f < BitsPerByte * q
      BY <3>2 DEF q
    <3>7. f \in Nat
      BY <1>2
    <3> QED BY <3>4, <3>5, <3>6, <3>7
  <2>6. Released(1) = {} /\ Cardinality({}) = 0
    BY FS_EmptySet DEF Released
  <2>7. /\ Released(entry)' = Released(1)
        /\ AvailableFrames(boot)' = AvailableFrames(boot) /\ AllFrames' = 0 .. (frames - 1)
    BY <1>1, <1>4 DEF Released, EntryFrames, AvailableFrames, AllFrames
  <2>8. used_frames' = max_frames' - Cardinality(Released(entry))'
    <3>1. Cardinality(Released(entry))' = 0
      BY <2>6, <2>7
    <3> QED BY <3>1, <1>1, <1>2
  <2> QED BY <2>2, <2>4, <2>5, <2>6, <2>7, <2>8, <1>1, <1>4 DEF RegionsFreed
<1> QED BY <1>1, <1>3, <1>4, <1>5 DEF CountInv

\* InitRegion counts the frames it frees.
LEMMA InitAvailableRegions_Count ==
  ASSUME TypeOK, CountInv, InitAvailableRegions
  PROVE  CountInv'
<1>1. /\ pc = "regions" /\ pc' \in {"regions", "kernel"}
      /\ UNCHANGED <<boot, max_frames, pmmap_size>>
  BY DEF InitAvailableRegions, config
<1>2. /\ WellFormed(boot)' = WellFormed(boot)
      /\ AvailableFrames(boot)' = AvailableFrames(boot)
      /\ AllFrames' = AllFrames
      /\ \A k : Released(k)' = Released(k)
  BY <1>1 DEF WellFormed, WithheldFrames, PmmapSizeAligned, AvailableFrames, AllFrames,
              Released, EntryFrames
<1>3. ASSUME WellFormed(boot)
      PROVE  AvailableFrames(boot) \subseteq AllFrames /\ RegionsFreed'
  <2>1. Regular /\ AvailableFrames(boot) \subseteq AllFrames /\ RegionsFreed
    BY <1>1, <1>3, WellFormedRegular DEF CountInv
  <2>2. Len(boot.mmap) \in Nat /\ entry \in 1 .. (Len(boot.mmap) + 1)
    BY <2>1, BytesType DEF RegionsFreed
  <2>3. CASE entry <= Len(boot.mmap) /\ boot.mmap[entry].available
    <3> DEFINE n == boot.mmap[entry].len \div FrameSize
               c == Cardinality(Released(entry))
    <3>1. entry \in 1 .. Len(boot.mmap)
      BY <2>2, <2>3
    <3>2. /\ pmmap' = (pmmap \ EntryFrames(entry)) \cup {0}
          /\ used_frames' = (used_frames - n) % WordMod
          /\ entry' = entry + 1 /\ pc' = pc
      <4>1. InitRegion(boot.mmap[entry].addr, boot.mmap[entry].len)
        BY <2>1, <2>3, <3>1, EntryFramesAreAvailable DEF InitAvailableRegions
      <4> QED BY <4>1, <2>3 DEF InitAvailableRegions, InitRegion, BitmapSet, BitmapUnset, EntryFrames
    <3>3. Released(entry + 1) = Released(entry) \cup EntryFrames(entry)
      BY <2>3, <3>1, ReleasedNext
    <3>4. entry + 1 \in 1 .. Len(boot.mmap) + 1
      BY <2>2, <3>1
    <3>5. Released(entry + 1) \subseteq AvailableFrames(boot)
      BY <2>1, <3>4, ReleasedSubset
    <3>6. IsFiniteSet(AllFrames) /\ Cardinality(AllFrames) = max_frames
      BY AllFramesFinite
    <3>7. /\ IsFiniteSet(Released(entry + 1)) /\ IsFiniteSet(Released(entry))
          /\ Cardinality(Released(entry + 1)) <= max_frames
      <4>1. Released(entry + 1) \in SUBSET AllFrames /\ Released(entry) \in SUBSET AllFrames
        BY <2>1, <3>3, <3>5
      <4> QED BY <4>1, <3>6, FS_Subset
    <3>8. Cardinality(Released(entry + 1)) = c + n
      <4>1. IsFiniteSet(EntryFrames(entry)) /\ Cardinality(EntryFrames(entry)) = n
        BY <2>1, <2>3, <3>1, EntryFramesFinite
      <4>2. Released(entry) \cap EntryFrames(entry) = {}
        BY <2>1, <2>3, <3>1, ReleasedDisjoint
      <4>3. Cardinality(Released(entry + 1)) =
              c + n - Cardinality(Released(entry) \cap EntryFrames(entry))
        BY <4>1, <3>3, <3>7, FS_Union
      <4>4. Cardinality({}) = 0 /\ c \in Nat /\ n \in Nat
        BY <4>1, <3>7, FS_EmptySet, FS_CardinalityType
      <4> HIDE DEF c, n
      <4> QED BY <4>2, <4>3, <4>4
    <3>9. c \in Nat /\ n \in Nat /\ used_frames = max_frames - c
      <4>1. n \in Nat
        BY <2>1, <2>3, <3>1, EntryFramesAreAvailable
      <4> QED BY <4>1, <2>1, <3>7, FS_CardinalityType DEF RegionsFreed
    <3>10. used_frames' = max_frames - Cardinality(Released(entry + 1))
      <4> HIDE DEF c, n
      <4>0. max_frames \in Nat /\ max_frames < WordMod /\ c + n <= max_frames
        BY <3>7, <3>8, MaxFramesSmall
      <4>1. used_frames - n \in Nat /\ used_frames - n < WordMod
        BY <4>0, <3>9, SizesAssumption
      <4>2. (used_frames - n) % WordMod = used_frames - n
        BY <4>1, SizesAssumption, ModSmall
      <4> QED BY <4>2, <3>2, <3>8, <3>9, MaxFramesSmall
    <3>11. AllFrames \ AvailableFrames(boot) \subseteq pmmap'
      BY <2>1, <3>2, <3>3, <3>5 DEF RegionsFreed
    <3>12. Released(entry + 1) \cap pmmap' \subseteq {0}
      BY <2>1, <3>2, <3>3 DEF RegionsFreed
    <3>13. Released(entry)' = Released(entry + 1)
      BY <3>2, <1>1 DEF Released, EntryFrames
    <3> QED BY <1>1, <1>2, <2>1, <3>2, <3>4, <3>10, <3>11, <3>12, <3>13 DEF RegionsFreed
  <2>4. CASE entry <= Len(boot.mmap) /\ ~boot.mmap[entry].available
    <3>1. entry \in 1 .. Len(boot.mmap) /\ entry + 1 \in 1 .. (Len(boot.mmap) + 1)
      BY <2>2, <2>4
    <3>2. entry' = entry + 1 /\ pc' = pc /\ UNCHANGED <<pmmap, used_frames>>
      BY <2>4 DEF InitAvailableRegions
    <3>3. Released(entry)' = Released(entry)
      <4>1. Released(entry)' = Released(entry + 1)
        BY <3>2, <1>1 DEF Released, EntryFrames
      <4> QED BY <4>1, <2>4, <3>1, ReleasedNext
    <3> QED BY <1>1, <1>2, <2>1, <3>1, <3>2, <3>3 DEF RegionsFreed
  <2>5. CASE ~(entry <= Len(boot.mmap))
    <3>1. entry = Len(boot.mmap) + 1
      BY <2>2, <2>5
    <3>2. UNCHANGED <<entry, pmmap, used_frames>>
      BY <2>5 DEF InitAvailableRegions
    <3>3. Released(entry)' = Released(entry)
      BY <3>2, <1>1 DEF Released, EntryFrames
    <3> QED BY <1>1, <1>2, <2>1, <3>1, <3>2, <3>3 DEF RegionsFreed
  <2> QED BY <2>1, <2>3, <2>4, <2>5
<1> QED BY <1>1, <1>2, <1>3 DEF CountInv

LEMMA DeinitKernel_Count ==
  ASSUME TypeOK, BitmapAccounts, CountInv, DeinitKernel
  PROVE  CountInv'
<1>1. /\ pc = "kernel" /\ pc' = "ready"
      /\ UNCHANGED <<boot, max_frames, pmmap_size, owned>>
      /\ pmmap' = (pmmap \cup Image) \cup Behind
      /\ used_frames' = (used_frames + ImageFrames + BehindFrames) % WordMod
  BY DEF DeinitKernel, config, BitmapSet, Image, Behind, ImageFrames, BehindFrames
<1>2. /\ WellFormed(boot)' = WellFormed(boot)
      /\ AvailableFrames(boot)' = AvailableFrames(boot)
      /\ AllFrames' = AllFrames
      /\ WithheldFrames' = WithheldFrames
  BY <1>1 DEF WellFormed, WithheldFrames, PmmapSizeAligned, AvailableFrames, AllFrames
<1>3. ASSUME WellFormed(boot)
      PROVE  AvailableFrames(boot) \subseteq AllFrames /\ KernelReserved'
  <2> DEFINE A == AvailableFrames(boot)
             W == WithheldFrames
             reserved == ImageFrames + BehindFrames
  <2>1. Regular /\ W \subseteq A /\ A \subseteq AllFrames /\ RegionsFreed
    BY <1>1, <1>3, WellFormedRegular DEF CountInv
  <2>2. W = {0} \cup (Image \cup Behind)
    BY WithheldCount
  <2>3. 0 \in pmmap
    <3>1. 0 \in AllFrames
      BY <2>1, <2>2
    <3>2. max_frames > 0
      BY <3>1 DEF AllFrames, TypeOK
    <3> QED BY <3>2, <1>1 DEF BitmapAccounts
  <2>4. Released(entry) = A
    <3>1. entry = Len(boot.mmap) + 1
      BY <2>1, <1>1 DEF RegionsFreed
    <3> QED BY <3>1, <2>1, ReleasedAll
  <2>5. /\ AllFrames \ A \subseteq pmmap /\ A \cap pmmap \subseteq {0}
        /\ used_frames = max_frames - Cardinality(A)
    BY <2>1, <2>4 DEF RegionsFreed
  <2>6. AllFrames \ pmmap' = A \ W
    <3> HIDE DEF A, W
    <3> QED BY <1>1, <2>1, <2>2, <2>3, <2>5
  <2>7. owned' = {}
    BY <1>1 DEF BitmapAccounts
  <2>8. HeldFrames' = {}
    BY <2>7 DEF HeldFrames
  <2>9. /\ IsFiniteSet(AllFrames) /\ Cardinality(AllFrames) = max_frames
        /\ IsFiniteSet(A) /\ IsFiniteSet(W) /\ IsFiniteSet(A \ W)
        /\ Cardinality(A) <= max_frames /\ Cardinality(W) <= Cardinality(A)
    <3> HIDE DEF A, W
    <3>1. IsFiniteSet(AllFrames) /\ Cardinality(AllFrames) = max_frames
      BY AllFramesFinite
    <3>2. A \in SUBSET AllFrames /\ W \in SUBSET A /\ A \ W \in SUBSET A
      BY <2>1
    <3>3. IsFiniteSet(A) /\ Cardinality(A) <= max_frames
      BY <3>1, <3>2, FS_Subset
    <3> QED BY <3>1, <3>2, <3>3, FS_Subset
  <2>10. /\ FramesInUse' = AllFrames \ (A \ W)
         /\ Cardinality(FramesInUse') = max_frames - (Cardinality(A) - Cardinality(W))
    <3>1. FramesInUse' = AllFrames \ (A \ W)
      <4>1. FramesInUse' = pmmap' \cap AllFrames
        BY <1>2 DEF FramesInUse, AllFrames
      <4> QED BY <4>1, <2>6
    <3> HIDE DEF A, W
    <3>2. Cardinality(A \ W) = Cardinality(A) - Cardinality(W)
      <4>1. A \cap W = W
        BY <2>1
      <4> QED BY <4>1, <2>9, FS_Difference
    <3>3. Cardinality(AllFrames \ (A \ W)) = max_frames - Cardinality(A \ W)
      <4> DEFINE left == A \ W
      <4>1. AllFrames \cap left = left
        BY <2>1
      <4> HIDE DEF left
      <4>2. Cardinality(AllFrames \ left) = Cardinality(AllFrames) - Cardinality(left)
        BY <4>1, <2>9, FS_Difference
      <4> QED BY <4>2, <2>9 DEF left
    <3> QED BY <3>1, <3>2, <3>3
  <2>11. /\ Cardinality(A) \in Nat /\ Cardinality(W) \in Nat
         /\ max_frames \in Nat /\ max_frames < WordMod
         /\ reserved \in Nat
         /\ Cardinality(W) \in {reserved, reserved + 1}
    <3>1. Cardinality(A) \in Nat /\ Cardinality(W) \in Nat
      BY <2>9, FS_CardinalityType
    <3>2. reserved \in Nat
      BY ReservedTypes
    <3> QED BY <3>1, <3>2, MaxFramesSmall, WithheldCount
  <2>12. used_frames' \in {Cardinality(FramesInUse') - 1, Cardinality(FramesInUse')}
    <3> DEFINE a == Cardinality(A)
               w == Cardinality(W)
    <3>1. used_frames' = (max_frames - a + reserved) % WordMod
      <4>1. used_frames + ImageFrames + BehindFrames = max_frames - a + reserved
        <5>1. ImageFrames \in Nat /\ BehindFrames \in Nat
          BY ReservedTypes
        <5> HIDE DEF a
        <5> QED BY <5>1, <2>5, <2>11 DEF a
      <4> QED BY <4>1, <1>1
    <3>2. /\ a \in Nat /\ w \in Nat /\ w <= a /\ a <= max_frames
          /\ w \in {reserved, reserved + 1} /\ reserved \in Nat
          /\ max_frames \in Nat /\ max_frames < WordMod
          /\ Cardinality(FramesInUse') = max_frames - (a - w)
      BY <2>9, <2>10, <2>11
    <3> HIDE DEF a, w, reserved, A, W
    <3>3. max_frames - a + reserved \in Nat /\ max_frames - a + reserved < WordMod
      BY <3>2, SizesAssumption
    <3>4. used_frames' = max_frames - a + reserved
      BY <3>1, <3>3, SizesAssumption, ModSmall
    <3>5. \/ max_frames - a + reserved = max_frames - (a - w) - 1
          \/ max_frames - a + reserved = max_frames - (a - w)
      BY <3>2
    <3> QED BY <3>2, <3>4, <3>5
  <2>13. Cardinality(FramesInUse') = Cardinality(FramesInUse)'
    OBVIOUS
  <2> QED BY <1>2, <2>1, <2>6, <2>8, <2>12, <2>13 DEF KernelReserved
<1> QED BY <1>1, <1>2, <1>3 DEF CountInv

\* The frame a client holds has its number.
LEMMA SameFrame ==
  ASSUME NEW p \in Nat, NEW q \in Nat, FrameSize * p = FrameSize * q
  PROVE  p = q
  BY SizesAssumption, DivMultiple

LEMMA InUseBounded ==
  ASSUME TypeOK
  PROVE  /\ IsFiniteSet(FramesInUse) /\ Cardinality(FramesInUse) \in Nat
         /\ Cardinality(FramesInUse) <= max_frames
         /\ Cardinality(FramesInUse) = max_frames => FramesInUse = AllFrames
<1>1. FramesInUse \in SUBSET AllFrames
  BY DEF FramesInUse, AllFrames
<1> QED BY <1>1, FramesInUseFinite, AllFramesFinite, FS_Subset

LEMMA AllocFrame_Count ==
  ASSUME TypeOK, TypeOK', BitmapAccounts, CountInv, AllocFrame
  PROVE  CountInv'
<1>1. UNCHANGED <<config, pc, entry>> /\ pc \in {"reset", "ready"}
  BY DEF AllocFrame
<1>2. /\ UNCHANGED <<boot, max_frames, pmmap_size>>
      /\ WellFormed(boot)' = WellFormed(boot)
      /\ AvailableFrames(boot)' = AvailableFrames(boot)
      /\ AllFrames' = AllFrames
      /\ WithheldFrames' = WithheldFrames
  BY <1>1 DEF WellFormed, WithheldFrames, PmmapSizeAligned, AvailableFrames, AllFrames, config
<1>3. ASSUME pc = "ready", WellFormed(boot)
      PROVE  AvailableFrames(boot) \subseteq AllFrames /\ KernelReserved'
  <2> DEFINE C == AvailableFrames(boot) \ WithheldFrames
  <2>1. AvailableFrames(boot) \subseteq AllFrames /\ KernelReserved
    BY <1>3 DEF CountInv
  <2>2. CASE UNCHANGED <<pmmap, used_frames, owned>>
    BY <2>1, <2>2, <1>2 DEF KernelReserved, HeldFrames, FramesInUse
  <2>3. ASSUME NEW p \in (0 .. (max_frames - 1)) \ pmmap,
               pmmap' = pmmap \cup {p},
               used_frames' = (used_frames + 1) % WordMod,
               owned' = owned \cup {FrameSize * p}
        PROVE  KernelReserved'
    <3>1. p \in AllFrames \ pmmap /\ p \in Nat
      BY DEF AllFrames, TypeOK
    <3>2. HeldFrames' = HeldFrames \cup {p}
      <4>1. \A f \in AllFrames : FrameSize * f = FrameSize * p => f = p
        BY <3>1, SameFrame DEF AllFrames, TypeOK
      <4> QED BY <4>1, <3>1, <2>3, <1>2 DEF HeldFrames
    <3>3. p \in C \ HeldFrames /\ AllFrames \ pmmap = C \ HeldFrames /\ HeldFrames \subseteq C
      BY <3>1, <2>1 DEF KernelReserved
    <3>4. HeldFrames' \subseteq C /\ AllFrames' \ pmmap' = C \ HeldFrames'
      <4> HIDE DEF C
      <4> QED BY <3>2, <3>3, <2>3, <1>2
    <3>5. Cardinality(FramesInUse)' = Cardinality(FramesInUse) + 1
      <4>1. FramesInUse' = FramesInUse \cup {p} /\ p \notin FramesInUse
        BY <2>3, <1>2 DEF FramesInUse
      <4> QED BY <4>1, InUseBounded, FS_AddElement
    <3>6. /\ Cardinality(FramesInUse)' <= max_frames
          /\ Cardinality(FramesInUse) \in Nat /\ max_frames \in Nat /\ max_frames < WordMod
          /\ used_frames \in Nat
          /\ used_frames \in {Cardinality(FramesInUse) - 1, Cardinality(FramesInUse)}
      <4>1. FramesInUse' \in SUBSET AllFrames
        BY <1>2 DEF FramesInUse, AllFrames
      <4>2. Cardinality(FramesInUse') <= max_frames
        BY <4>1, AllFramesFinite, FS_Subset
      <4> QED BY <4>2, <2>1, InUseBounded, MaxFramesSmall DEF KernelReserved, TypeOK
    <3>7. used_frames' = used_frames + 1
      <4>1. used_frames + 1 \in Nat /\ used_frames + 1 < WordMod
        BY <3>5, <3>6, SizesAssumption
      <4> QED BY <4>1, <2>3, SizesAssumption, ModSmall
    <3>8. used_frames' \in {Cardinality(FramesInUse)' - 1, Cardinality(FramesInUse)'}
      BY <3>5, <3>6, <3>7
    <3> QED BY <3>4, <3>8, <1>2 DEF KernelReserved
  <2> QED BY <2>1, <2>2, <2>3, AllocFrameOutcome
<1> QED BY <1>1, <1>2, <1>3 DEF CountInv

LEMMA FreeFrame_Count ==
  ASSUME TypeOK, BitmapAccounts, CountInv, NEW frame \in owned, FreeFrame(frame)
  PROVE  CountInv'
<1>1. PICK p \in 1 .. (max_frames - 1) : frame = FrameSize * p /\ p \in pmmap
  BY DEF BitmapAccounts
<1>2. p \in Nat \ {0} /\ p \in AllFrames /\ frame \div FrameSize = p
  <2>1. p \in Nat \ {0} /\ p \in AllFrames
    BY DEF TypeOK, AllFrames
  <2> QED BY <2>1, <1>1, SizesAssumption, DivMultiple
<1>3. /\ pc = "ready" /\ UNCHANGED <<pc, entry, boot, max_frames, pmmap_size>>
      /\ pmmap' = pmmap \ {p} /\ owned' = owned \ {frame}
      /\ used_frames' = (used_frames - 1) % WordMod
  BY <1>2 DEF FreeFrame, BitmapUnset, config
<1>4. /\ WellFormed(boot)' = WellFormed(boot)
      /\ AvailableFrames(boot)' = AvailableFrames(boot)
      /\ AllFrames' = AllFrames
      /\ WithheldFrames' = WithheldFrames
  BY <1>3 DEF WellFormed, WithheldFrames, PmmapSizeAligned, AvailableFrames, AllFrames
<1>5. ASSUME WellFormed(boot)
      PROVE  AvailableFrames(boot) \subseteq AllFrames /\ KernelReserved'
  <2> DEFINE C == AvailableFrames(boot) \ WithheldFrames
  <2>1. AvailableFrames(boot) \subseteq AllFrames /\ KernelReserved
    BY <1>3, <1>5 DEF CountInv
  <2>2. HeldFrames' = HeldFrames \ {p}
    <3>1. \A f \in AllFrames : FrameSize * f = FrameSize * p => f = p
      BY <1>2, SameFrame DEF AllFrames, TypeOK
    <3> QED BY <3>1, <1>1, <1>2, <1>3, <1>4 DEF HeldFrames
  <2>3. p \in HeldFrames /\ AllFrames \ pmmap = C \ HeldFrames /\ HeldFrames \subseteq C
    BY <1>1, <1>2, <2>1 DEF KernelReserved, HeldFrames
  <2>4. HeldFrames' \subseteq C /\ AllFrames' \ pmmap' = C \ HeldFrames'
    <3> HIDE DEF C
    <3> QED BY <2>2, <2>3, <1>2, <1>3, <1>4
  <2>5. FramesInUse' = FramesInUse \ {p} /\ p \in FramesInUse /\ 0 \in FramesInUse
    <3>1. max_frames > 0
      BY <1>2 DEF AllFrames, TypeOK
    <3>2. 0 \in pmmap /\ 0 \in 0 .. (max_frames - 1) /\ p \in 0 .. (max_frames - 1)
      BY <3>1, <1>2, <1>3 DEF BitmapAccounts, AllFrames, TypeOK
    <3> QED BY <3>2, <1>1, <1>3 DEF FramesInUse
  <2>6. /\ Cardinality(FramesInUse') = Cardinality(FramesInUse) - 1
        /\ IsFiniteSet(FramesInUse')
    BY <2>5, InUseBounded, FS_RemoveElement
  <2>7. Cardinality(FramesInUse') \in Nat \ {0}
    <3>1. FramesInUse' # {}
      BY <2>5, <1>2
    <3> QED BY <3>1, <2>6, FS_EmptySet, FS_CardinalityType
  <2>8. used_frames' = used_frames - 1
    <3>1. /\ used_frames \in {Cardinality(FramesInUse) - 1, Cardinality(FramesInUse)}
          /\ used_frames < WordMod /\ used_frames \in Nat /\ Cardinality(FramesInUse) \in Nat
      <4>1. used_frames < WordMod /\ used_frames \in Nat
        BY SizesAssumption DEF TypeOK
      <4> QED BY <4>1, <2>1, InUseBounded DEF KernelReserved
    <3>2. used_frames - 1 \in Nat /\ used_frames - 1 < WordMod
      BY <3>1, <2>6, <2>7, SizesAssumption
    <3> QED BY <3>2, <1>3, SizesAssumption, ModSmall
  <2>9. used_frames' \in {Cardinality(FramesInUse)' - 1, Cardinality(FramesInUse)'}
    BY <2>1, <2>6, <2>8, InUseBounded DEF KernelReserved
  <2> QED BY <2>1, <2>4, <2>9, <1>4 DEF KernelReserved
<1> QED BY <1>3, <1>4, <1>5 DEF CountInv

LEMMA Counted == Spec => []CountInv
<1>1. Init => CountInv
  <2>1. 0 * kFramesPerDword = 0
    BY FramesPerDwordType
  <2> QED BY <2>1 DEF Init, CountInv
<1>2. TypeOK /\ TypeOK' /\ BitmapAccounts /\ CountInv /\ [Next]_vars => CountInv'
  <2> SUFFICES ASSUME TypeOK, TypeOK', BitmapAccounts, CountInv, [Next]_vars
               PROVE  CountInv'
    OBVIOUS
  <2>1. CASE UNCHANGED vars
    BY <2>1 DEF vars, CountInv, WellFormed, WithheldFrames, PmmapSizeAligned,
                AvailableFrames, AllFrames, RegionsFreed, Released, EntryFrames,
                KernelReserved, HeldFrames, FramesInUse
  <2> QED BY <2>1, InitBitmap_Count, InitAvailableRegions_Count, DeinitKernel_Count,
             AllocFrame_Count, FreeFrame_Count DEF Next
<1> QED BY <1>1, <1>2, TypeCorrect, Accounts, PTL DEF Spec

-----------------------------------------------------------------------------
(***************************************************************************)
(* What clients may rely on when the memory map is well-formed.            *)
(***************************************************************************)

\* On a well-formed map every frame a client holds is available memory, although
\* InitRegion counts whole frames only and the memset reaches whole dwords only.
THEOREM AllocatedIsAvailable == Spec => []OnlyAvailableAllocated
<1>1. TypeOK /\ BitmapAccounts /\ CountInv => OnlyAvailableAllocated
  <2> SUFFICES ASSUME TypeOK, BitmapAccounts, CountInv, WellFormed(boot), NEW frame \in owned
               PROVE  frame \div FrameSize \in AvailableFrames(boot)
    BY DEF OnlyAvailableAllocated, ReservedNeverAllocated
  <2>1. pc = "ready"
    BY DEF BitmapAccounts
  <2>2. PICK p \in 1 .. (max_frames - 1) : frame = FrameSize * p
    BY DEF BitmapAccounts
  <2>3. p \in Nat /\ p \in HeldFrames
    BY <2>2 DEF TypeOK, HeldFrames, AllFrames
  <2>4. HeldFrames \subseteq AvailableFrames(boot)
    BY <2>1 DEF CountInv, KernelReserved
  <2> QED BY <2>2, <2>3, <2>4, SizesAssumption, DivMultiple
<1> QED BY <1>1, TypeCorrect, Accounts, Counted, PTL

LEMMA NullOutcome ==
  ASSUME TypeOK, BitmapAccounts, pc = "ready", AllocFrame, result' = 0
  PROVE  /\ UNCHANGED <<pmmap, used_frames, owned>>
         /\ LimitReached \/ AllFrames \subseteq pmmap
<1> DEFINE p_index == IF LimitReached THEN -1 ELSE BitmapFirstUnset(pmmap, max_frames)
<1>1. \/ p_index = -1 /\ (LimitReached \/ AllFrames \subseteq pmmap)
      \/ p_index \in AllFrames \ pmmap
  BY BitmapFirstUnsetCorrect DEF TypeOK, AllFrames
<1>2. \/ p_index = -1 /\ UNCHANGED <<pmmap, used_frames, owned>>
      \/ p_index # -1 /\ result' = (FrameSize * p_index) % WordMod
  BY Zenon DEF AllocFrame
<1> HIDE DEF p_index
<1>3. ASSUME p_index \in AllFrames \ pmmap, result' = (FrameSize * p_index) % WordMod
      PROVE  FALSE
  <2>1. p_index \in Nat /\ p_index < max_frames /\ max_frames \in Nat
    BY <1>3 DEF AllFrames, TypeOK
  <2>2. 0 \in pmmap
    BY <2>1 DEF BitmapAccounts
  <2>3. p_index # 0
    BY <2>2, <1>3
  <2>4. FrameSize * p_index \in Nat \ {0}
    BY <2>1, <2>3, SizesAssumption, MultiplePositive
  <2>5. FrameSize * p_index < WordMod
    <3>1. FrameSize * p_index + FrameSize <= FrameSize * max_frames
      BY <2>1, SizesAssumption, MultipleLess
    <3>2. FrameSize * max_frames < WordMod /\ FrameSize * max_frames \in Int
      BY SizesAssumption DEF TypeOK
    <3> QED BY <3>1, <3>2, <2>4, SizesAssumption
  <2>6. result' = FrameSize * p_index
    BY <1>3, <2>4, <2>5, SizesAssumption, ModSmall
  <2> QED BY <2>4, <2>6
<1>4. -1 \notin AllFrames
  BY DEF AllFrames, TypeOK
<1> QED BY <1>1, <1>2, <1>3, <1>4

\* The limit is reached only when every bit below max_frames is set.
LEMMA LimitMeansFull ==
  ASSUME TypeOK, CountInv, pc = "ready", WellFormed(boot), LimitReached
  PROVE  AllFrames \subseteq pmmap
<1>1. /\ used_frames \in {Cardinality(FramesInUse) - 1, Cardinality(FramesInUse)}
  BY DEF CountInv, KernelReserved
<1>2. used_frames \in 0 .. (WordMod - 1) /\ max_frames \in Nat /\ max_frames < WordMod
  BY MaxFramesSmall DEF TypeOK
<1>3. used_frames = max_frames
  <2> DEFINE d == used_frames - max_frames
             q == d \div WordMod
  <2>1. d \in Int /\ q \in Int /\ d % WordMod \in 0 .. (WordMod - 1)
        /\ d = WordMod * q + (d % WordMod)
    <3>1. d \in Int
      BY <1>2
    <3> HIDE DEF d
    <3> QED BY <3>1, SizesAssumption, DivInt
  <2>2. d % WordMod <= 0
    BY DEF LimitReached
  <2>3. -WordMod < d /\ d < WordMod
    BY <1>2, SizesAssumption
  <2> HIDE DEF d, q
  <2>4. d = WordMod * q
    <3>1. d % WordMod = 0
      BY <2>1, <2>2
    <3> QED BY <3>1, <2>1, SizesAssumption
  <2>5. q = 0
    <3>1. \A x \in Int, w \in Nat \ {0} : -w < w * x /\ w * x < w => x = 0
      BY SMT
    <3> QED BY <3>1, <2>1, <2>3, <2>4, SizesAssumption
  <2>6. d = 0
    BY <2>4, <2>5, SizesAssumption
  <2> QED BY <2>6, <1>2 DEF d
<1>4. Cardinality(FramesInUse) = max_frames
  BY <1>1, <1>2, <1>3, InUseBounded
<1> QED BY <1>4, InUseBounded DEF FramesInUse

LEMMA NullMeansFull ==
  ASSUME TypeOK, BitmapAccounts, CountInv, pc = "ready", WellFormed(boot),
         AllocFrame, result' = 0
  PROVE  AllFrames \subseteq pmmap
  BY NullOutcome, LimitMeansFull

\* On a well-formed map nullptr is returned only when every available frame that is
\* not withheld is held, although the count AllocFrame tests first may be one less
\* than the number of frames in use.
THEOREM NullIsExhaustion == Spec => NullMeansExhausted
<1>1. TypeOK /\ BitmapAccounts /\ CountInv /\ [Next]_vars
        => [AllocFrame /\ pc = "ready" /\ result' = 0 /\ WellFormed(boot)
              => \A f \in AvailableFrames(boot) \ WithheldFrames : FrameSize * f \in owned]_vars
  <2> SUFFICES ASSUME TypeOK, BitmapAccounts, CountInv, AllocFrame, pc = "ready",
                      result' = 0, WellFormed(boot),
                      NEW f \in AvailableFrames(boot) \ WithheldFrames
               PROVE  FrameSize * f \in owned
    OBVIOUS
  <2>1. AllFrames \subseteq pmmap
    BY NullMeansFull
  <2>2. AllFrames \ pmmap = (AvailableFrames(boot) \ WithheldFrames) \ HeldFrames
    BY DEF CountInv, KernelReserved
  <2>3. f \in HeldFrames
    BY <2>1, <2>2
  <2> QED BY <2>3 DEF HeldFrames
<1> QED BY <1>1, TypeCorrect, Accounts, Counted, PTL DEF Spec, NullMeansExhausted

LEMMA FramesInBounds ==
  ASSUME TypeOK, CountInv, NEW bit \in AllFrames
  PROVE  bit < pmmap_size * kFramesPerDword
<1>1. max_frames <= pmmap_size * kFramesPerDword /\ pmmap_size * kFramesPerDword \in Int
  BY FramesPerDwordType DEF CountInv, TypeOK
<1> QED BY <1>1 DEF AllFrames, TypeOK

\* On a well-formed map no bit behind the pmmap_size_ dwords of the bitmap changes,
\* although BitmapSet and BitmapUnset check no bound.
THEOREM BitmapStaysInBounds == Spec => BitmapInBounds
<1>1. TypeOK /\ TypeOK' /\ BitmapAccounts /\ CountInv /\ [Next]_vars
        => [WellFormed(boot) => \A bit \in (pmmap \ pmmap') \cup (pmmap' \ pmmap) :
                                  bit < pmmap_size' * kFramesPerDword]_vars
  <2> SUFFICES ASSUME TypeOK, TypeOK', BitmapAccounts, CountInv, Next, WellFormed(boot),
                      NEW bit \in (pmmap \ pmmap') \cup (pmmap' \ pmmap)
               PROVE  bit < pmmap_size' * kFramesPerDword
    OBVIOUS
  <2>1. CASE InitBitmap
    <3>1. pmmap' = pmmap \cup (0 .. (pmmap_size' * BitsPerByte - 1))
      BY <2>1 DEF InitBitmap, Memset
    <3>2. bit \in Nat /\ bit < pmmap_size' * BitsPerByte
      <4>1. bit \in 0 .. (pmmap_size' * BitsPerByte - 1)
        BY <3>1
      <4>2. pmmap_size' * BitsPerByte \in Int
        BY SizesAssumption DEF TypeOK
      <4> QED BY <4>1, <4>2
    <3>3. \A s \in Nat, b \in Nat \ {0}, d \in Nat \ {0} : s * b <= s * (b * d)
      <4>1. SUFFICES ASSUME NEW s \in Nat, NEW b \in Nat \ {0}, NEW d \in Nat \ {0}
                     PROVE  s * b <= s * (b * d)
        OBVIOUS
      <4>2. b * 1 <= b * d /\ b * 1 = b
        BY Scale
      <4>3. b \in Int /\ b * d \in Int /\ b <= b * d
        BY <4>2, Scale
      <4> DEFINE c == b * d
      <4> HIDE DEF c
      <4>4. \A x \in Nat, y \in Int, z \in Int : y <= z => x * y <= x * z
        BY SMT
      <4> QED BY <4>3, <4>4
    <3>4. /\ pmmap_size' * BitsPerByte <= pmmap_size' * kFramesPerDword
          /\ pmmap_size' * BitsPerByte \in Int /\ pmmap_size' * kFramesPerDword \in Int
      <4>1. pmmap_size' \in Nat
        BY DEF TypeOK
      <4>2. pmmap_size' * BitsPerByte <= pmmap_size' * kFramesPerDword
        BY <4>1, <3>3, SizesAssumption DEF kFramesPerDword
      <4>3. \A s, b \in Nat : s * b \in Int
        BY SMT
      <4>4. BitsPerByte \in Nat /\ kFramesPerDword \in Nat
        BY SizesAssumption, FramesPerDwordType
      <4> QED BY <4>1, <4>2, <4>3, <4>4
    <3> QED BY <3>2, <3>4
  <2>2. ASSUME pc # "reset", pmmap_size' = pmmap_size, bit \in AllFrames \cup WithheldFrames
        PROVE  bit < pmmap_size' * kFramesPerDword
    <3>1. WithheldFrames \subseteq AllFrames
      BY <2>2, WellFormedRegular DEF CountInv
    <3> QED BY <3>1, <2>2, FramesInBounds
  <2>3. CASE InitAvailableRegions
    <3>1. pc = "regions" /\ pmmap_size' = pmmap_size
      BY <2>3 DEF InitAvailableRegions, config
    <3>2. Regular /\ AvailableFrames(boot) \subseteq AllFrames /\ RegionsFreed
      BY <3>1, WellFormedRegular DEF CountInv
    <3>3. entry <= Len(boot.mmap) /\ boot.mmap[entry].available
      BY <2>3 DEF InitAvailableRegions
    <3>4. entry \in 1 .. Len(boot.mmap)
      BY <3>2, <3>3, BytesType DEF RegionsFreed
    <3>5. pmmap' = (pmmap \ EntryFrames(entry)) \cup {0}
      <4>1. InitRegion(boot.mmap[entry].addr, boot.mmap[entry].len)
        BY <2>3, <3>2, <3>3, <3>4, EntryFramesAreAvailable DEF InitAvailableRegions
      <4> QED BY <4>1 DEF InitRegion, BitmapSet, BitmapUnset, EntryFrames
    <3>6. EntryFrames(entry) \subseteq AvailableFrames(boot)
      BY <3>2, <3>3, <3>4, EntryFramesAreAvailable DEF AvailableFrames
    <3>7. bit \in AllFrames \cup WithheldFrames
      BY <3>2, <3>5, <3>6 DEF WithheldFrames
    <3> QED BY <3>1, <3>7, <2>2
  <2>4. CASE DeinitKernel
    <3>1. /\ pc = "kernel" /\ pmmap_size' = pmmap_size
          /\ pmmap' = (pmmap \cup Image) \cup Behind
      BY <2>4 DEF DeinitKernel, config, BitmapSet, Image, Behind
    <3>2. bit \in WithheldFrames
      BY <3>1, WithheldCount
    <3> QED BY <3>1, <3>2, <2>2
  <2>5. CASE AllocFrame
    <3>1. pmmap_size' = pmmap_size /\ bit \in AllFrames
      BY <2>5, AllocFrameOutcome DEF AllocFrame, config, AllFrames
    <3>2. pc # "reset"
      BY <3>1 DEF AllFrames, BitmapAccounts
    <3> QED BY <3>1, <3>2, <2>2
  <2>6. ASSUME NEW frame \in owned, FreeFrame(frame)
        PROVE  bit < pmmap_size' * kFramesPerDword
    <3>1. /\ pc = "ready" /\ pmmap_size' = pmmap_size
          /\ bit = frame \div FrameSize
      BY <2>6 DEF FreeFrame, config, BitmapUnset
    <3>2. PICK p \in 1 .. (max_frames - 1) : frame = FrameSize * p
      BY DEF BitmapAccounts
    <3>3. p \in Nat /\ p \in AllFrames
      BY DEF AllFrames, TypeOK
    <3>4. bit = p
      BY <3>1, <3>2, <3>3, SizesAssumption, DivMultiple
    <3> QED BY <3>1, <3>3, <3>4, <2>2
  <2> QED BY <2>1, <2>3, <2>4, <2>5, <2>6 DEF Next
<1> QED BY <1>1, TypeCorrect, Accounts, Counted, PTL DEF Spec, BitmapInBounds, ChangesInBitmap

-----------------------------------------------------------------------------
(***************************************************************************)
(* The allocator implements the frame pool.                                *)
(***************************************************************************)
ClearFrames == {FrameSize * f : f \in AllFrames \ pmmap}

LEMMA PoolReady ==
  /\ pc = "ready" => PoolOfAllocator = ClearFrames \cup owned
  /\ pc # "ready" => PoolOfAllocator = {}
  BY DEF PoolOfAllocator, ClearFrames, AllFrames

\* Init's end publishes the frames with a clear bit.
LEMMA DeinitKernel_Publishes ==
  ASSUME TypeOK, BitmapAccounts, BitmapAccounts', DeinitKernel
  PROVE  Pool!Publish
<1>1. /\ pc = "kernel" /\ pc' = "ready" /\ owned' = owned /\ result' = result
      /\ max_frames' = max_frames
  BY DEF DeinitKernel, config
<1>2. owned = {}
  BY <1>1 DEF BitmapAccounts
<1>3. PoolOfAllocator = {} /\ PoolOfAllocator' = ClearFrames'
  <2>1. PoolOfAllocator' = ClearFrames' \cup owned'
    BY <1>1 DEF PoolOfAllocator, ClearFrames, AllFrames
  <2> QED BY <2>1, <1>1, <1>2, PoolReady
<1>4. ASSUME NEW frame \in ClearFrames'
      PROVE  /\ frame \in {FrameSize * f : f \in 0 .. (WordMod \div FrameSize)}
             /\ frame \notin {FrameSize * f : f \in KernelFrames} \cup {0}
  <2>1. PICK p \in AllFrames' \ pmmap' : frame = FrameSize * p
    BY DEF ClearFrames
  <2>2. p \in Nat /\ p < max_frames /\ max_frames \in Nat /\ FrameSize * max_frames < WordMod
    BY <1>1 DEF AllFrames, TypeOK
  <2>3. p # 0 /\ p \notin KernelFrames
    BY <1>1, <2>1, <2>2 DEF BitmapAccounts, KernelFrames
  <2>4. FrameSize * p \in Nat \ {0} /\ FrameSize * p <= WordMod
    <3>1. FrameSize * p \in Nat \ {0}
      BY <2>2, <2>3, SizesAssumption, MultiplePositive
    <3>2. FrameSize * p <= FrameSize * max_frames /\ FrameSize * max_frames \in Int
      BY <2>2, SizesAssumption, Scale
    <3> QED BY <3>1, <3>2, <2>2, SizesAssumption
  <2>5. p <= WordMod \div FrameSize /\ WordMod \div FrameSize \in Nat
    BY <2>2, <2>4, SizesAssumption, DivGreatest, DivNat
  <2>6. \A f \in KernelFrames : FrameSize * p # FrameSize * f
    <3>1. \A f \in KernelFrames : f \in Nat
      BY KernelAssumption DEF KernelFrames
    <3> QED BY <3>1, <2>2, <2>3, SameFrame
  <2> QED BY <2>1, <2>2, <2>4, <2>5, <2>6
<1> QED BY <1>1, <1>3, <1>4 DEF Pool!Publish

LEMMA AllocFrame_Takes ==
  ASSUME TypeOK, BitmapAccounts, CountInv, WellFormed(boot), AllocFrame
  PROVE  Pool!Take \/ Pool!Refuse
<1>1. UNCHANGED <<config, pc>> /\ pc \in {"reset", "ready"}
  BY DEF AllocFrame
<1>1a. max_frames' = max_frames
  BY <1>1 DEF config
<1>2. CASE pc = "reset"
  <2>1. max_frames = 0 /\ PoolOfAllocator = {} /\ PoolOfAllocator' = {}
    BY <1>1, <1>2 DEF BitmapAccounts, PoolOfAllocator
  <2>2. result' = 0 /\ owned' = owned
    BY <2>1, AllocFrameOutcome
  <2> QED BY <2>1, <2>2 DEF Pool!Refuse
<1>3. CASE pc = "ready" /\ result' = 0
  <2>1. UNCHANGED <<pmmap, owned>> /\ AllFrames \subseteq pmmap
    BY <1>3, NullOutcome, NullMeansFull
  <2>2. PoolOfAllocator = owned /\ PoolOfAllocator' = PoolOfAllocator
    <3>1. ClearFrames = {} /\ PoolOfAllocator = ClearFrames \cup owned
      BY <2>1, <1>3, PoolReady DEF ClearFrames
    <3> QED BY <3>1, <2>1, <1>1, <1>1a DEF PoolOfAllocator
  <2> QED BY <2>1, <2>2, <1>3 DEF Pool!Refuse
<1>4. CASE pc = "ready" /\ result' # 0
  <2>1. PICK p \in AllFrames \ pmmap :
          /\ pmmap' = pmmap \cup {p}
          /\ result' = FrameSize * p
          /\ owned' = owned \cup {FrameSize * p}
    BY <1>4, AllocFrameOutcome DEF AllFrames
  <2>2. p \in Nat
    BY DEF AllFrames, TypeOK
  <2>3. FrameSize * p \notin owned
    <3>1. SUFFICES ASSUME FrameSize * p \in owned PROVE FALSE
      OBVIOUS
    <3>2. PICK q \in 1 .. (max_frames - 1) : FrameSize * p = FrameSize * q /\ q \in pmmap
      BY <3>1 DEF BitmapAccounts
    <3>3. q \in Nat
      BY DEF TypeOK
    <3> QED BY <2>1, <2>2, <3>2, <3>3, SameFrame
  <2>4. PoolOfAllocator = ClearFrames \cup owned
    BY <1>4, PoolReady
  <2>5. PoolOfAllocator' = ClearFrames' \cup owned'
    BY <1>1, <1>4 DEF PoolOfAllocator, ClearFrames, AllFrames
  <2>6. ClearFrames = ClearFrames' \cup {FrameSize * p}
    <3>1. AllFrames \ pmmap = (AllFrames' \ pmmap') \cup {p}
      BY <2>1, <1>1a DEF AllFrames
    <3> QED BY <3>1 DEF ClearFrames
  <2>7. PoolOfAllocator' = PoolOfAllocator
    BY <2>1, <2>4, <2>5, <2>6
  <2>8. FrameSize * p \in PoolOfAllocator \ owned
    BY <2>3, <2>4, <2>6
  <2> QED BY <2>1, <2>7, <2>8 DEF Pool!Take
<1> QED BY <1>1, <1>2, <1>3, <1>4

LEMMA FreeFrame_Gives ==
  ASSUME TypeOK, BitmapAccounts, NEW frame \in owned, FreeFrame(frame)
  PROVE  Pool!Give
<1>1. PICK p \in 1 .. (max_frames - 1) : frame = FrameSize * p /\ p \in pmmap
  BY DEF BitmapAccounts
<1>2. p \in Nat /\ p \in AllFrames /\ frame \div FrameSize = p
  <2>1. p \in Nat /\ p \in AllFrames
    BY DEF TypeOK, AllFrames
  <2> QED BY <2>1, <1>1, SizesAssumption, DivMultiple
<1>3. /\ pc = "ready" /\ UNCHANGED <<pc, max_frames, result>>
      /\ pmmap' = pmmap \ {p} /\ owned' = owned \ {frame}
  BY <1>2 DEF FreeFrame, BitmapUnset, config
<1>4. PoolOfAllocator = ClearFrames \cup owned
  BY <1>3, PoolReady
<1>5. PoolOfAllocator' = ClearFrames' \cup owned'
  BY <1>3 DEF PoolOfAllocator, ClearFrames, AllFrames
<1>6. ClearFrames' = ClearFrames \cup {frame}
  <2>1. AllFrames' \ pmmap' = (AllFrames \ pmmap) \cup {p}
    BY <1>2, <1>3 DEF AllFrames
  <2> QED BY <2>1, <1>1 DEF ClearFrames
<1>7. PoolOfAllocator' = PoolOfAllocator
  BY <1>3, <1>4, <1>5, <1>6
<1> QED BY <1>3, <1>7 DEF Pool!Give

\* When the memory map is well-formed the bitmap and its count implement the frame
\* pool: Init publishes it, AllocFrame takes from it and refuses only when clients
\* hold all of it, and FreeFrame gives back.
THEOREM AllocatorImplementsPool == Spec /\ []WellFormed(boot) => ImplementsPool
<1>1. Init => Pool!PoolInit
  BY DEF Init, Pool!PoolInit, PoolOfAllocator
<1>2. /\ TypeOK /\ TypeOK' /\ BitmapAccounts /\ BitmapAccounts' /\ CountInv
      /\ WellFormed(boot) /\ [Next]_vars
      => [Pool!PoolNext]_(Pool!poolVars)
  <2> SUFFICES ASSUME TypeOK, TypeOK', BitmapAccounts, BitmapAccounts', CountInv,
                      WellFormed(boot), [Next]_vars
               PROVE  Pool!PoolNext \/ UNCHANGED Pool!poolVars
    OBVIOUS
  <2>1. CASE InitBitmap
    BY <2>1 DEF InitBitmap, PoolOfAllocator, Pool!poolVars
  <2>2. CASE InitAvailableRegions
    BY <2>2 DEF InitAvailableRegions, PoolOfAllocator, Pool!poolVars
  <2>3. CASE DeinitKernel
    BY <2>3, DeinitKernel_Publishes DEF Pool!PoolNext
  <2>4. CASE AllocFrame
    BY <2>4, AllocFrame_Takes DEF Pool!PoolNext
  <2>5. ASSUME NEW frame \in owned, FreeFrame(frame)
        PROVE  Pool!PoolNext
    BY <2>5, FreeFrame_Gives DEF Pool!PoolNext
  <2>6. CASE UNCHANGED vars
    BY <2>6 DEF vars, PoolOfAllocator, Pool!poolVars
  <2> QED BY <2>1, <2>2, <2>3, <2>4, <2>5, <2>6 DEF Next
<1> QED
  BY <1>1, <1>2, TypeCorrect, Accounts, Counted, PTL DEF Spec, ImplementsPool, Pool!PoolSpec
=============================================================================
