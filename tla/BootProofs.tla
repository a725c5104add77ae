------------------------------ MODULE BootProofs -----------------------------
(***************************************************************************)
(* Theorems about the boot, for every page size, address space, image and  *)
(* place of the stubs.                                                     *)
(***************************************************************************)
EXTENDS Boot, TLAPS

-----------------------------------------------------------------------------
(***************************************************************************)
(* Addresses of pages.                                                     *)
(***************************************************************************)

\* The page and the offset of an address that is given by them.
LEMMA PageAndOffset ==
  ASSUME NEW d \in Nat \ {0}, NEW p \in Nat, NEW a \in 0 .. (d - 1)
  PROVE  /\ (p * d + a) \div d = p
         /\ (p * d + a) % d = a
  BY SMT

\* An address below page k is on a page below k.
LEMMA PageBelow ==
  ASSUME NEW d \in Nat \ {0}, NEW k \in Nat, NEW a \in 0 .. (k * d - 1)
  PROVE  a \div d \in 0 .. (k - 1)
  BY SMT

LEMMA Below ==
  ASSUME NEW d \in Nat \ {0}, NEW n \in Nat, NEW k \in 0 .. (n - 1), NEW a \in 0 .. (d - 1)
  PROVE  k * d + a \in 0 .. (n * d - 1)
  BY SMT

LEMMA ModSmall ==
  ASSUME NEW a \in Nat, NEW d \in Nat \ {0}, a < d
  PROVE  a % d = a
  BY SMT

-----------------------------------------------------------------------------
(***************************************************************************)
(* The loader.  Its inductive invariant: what every instruction finds, and *)
(* that the processor keeps no translation but those of the boot page      *)
(* directory, the identity map not any more once it has been invalidated.  *)
(***************************************************************************)
WithPagingOff == {"cr3", "pse", "pg"}
InLowHalf     == WithPagingOff \cup {"jump"}
WithIdentity  == InLowHalf \cup {"unmap"}
MayKeep       == WithIdentity \cup {"invlpg"}
Instructions  == MayKeep \cup {"esp", "push", "kernel_main"}

\* What the loader has pushed are the first of the words it means to push.
Pushed ==
  /\ stack \in Seq({Arguments[k] : k \in 1 .. 7})
  /\ \A k \in 1 .. Len(stack) : stack[k] = Arguments[k]
  /\ CASE instr = "push" -> Len(stack) < 7
       [] instr = "kernel_main" -> Len(stack) = 7
       [] OTHER -> Len(stack) = 0

\* The translations the processor keeps.
Kept ==
  /\ tlb = [p \in DOMAIN tlb |-> 0]
  /\ DOMAIN tlb \subseteq {0, KERNEL_PAGE_NUMBER}
  /\ instr \in WithPagingOff => DOMAIN tlb = {}
  /\ instr \notin MayKeep => 0 \notin DOMAIN tlb

Registered ==
  /\ cr3 = (instr # "cr3")
  /\ pse = (instr \notin {"cr3", "pse"})
  /\ pg = (instr \notin WithPagingOff)
  /\ eip = IF instr \in InLowHalf THEN loader ELSE Virtual(loader)
  /\ directory = IF instr \in WithIdentity THEN BootPageDirectory
                 ELSE [BootPageDirectory EXCEPT ![0] = none]

LoaderInv ==
  /\ end \in Ends
  /\ info \in Infos
  /\ instr \in Instructions
  /\ Registered
  /\ Kept
  /\ Pushed

\* Addresses of the first page are moved to the page of the kernel.
LEMMA VirtualAddress ==
  ASSUME NEW a \in 0 .. (PageSize - 1)
  PROVE  /\ Virtual(a) = KERNEL_PAGE_NUMBER * PageSize + a
         /\ Virtual(a) \div PageSize = KERNEL_PAGE_NUMBER
         /\ Virtual(a) % PageSize = a
<1>1. /\ PageSize \in Nat \ {0} /\ NumPages \in Nat
      /\ KERNEL_PAGE_NUMBER \in 0 .. (NumPages - 1) /\ KERNEL_PAGE_NUMBER \in Nat
  BY LoaderAssumption
<1>2. KERNEL_PAGE_NUMBER * PageSize + a \in 0 .. (NumPages * PageSize - 1)
  BY <1>1, Below
<1>3. KERNEL_PAGE_NUMBER * PageSize \in Nat /\ NumPages * PageSize \in Nat
  BY <1>1
<1>4. NumPages * PageSize \in Nat \ {0}
  BY <1>2, <1>3
<1>5. Virtual(a) = KERNEL_PAGE_NUMBER * PageSize + a
  <2>1. a + KERNEL_PAGE_NUMBER * PageSize = KERNEL_PAGE_NUMBER * PageSize + a
    BY <1>3
  <2>2. (KERNEL_PAGE_NUMBER * PageSize + a) % (NumPages * PageSize)
          = KERNEL_PAGE_NUMBER * PageSize + a
    BY <1>2, <1>3, <1>4, ModSmall
  <2> QED BY <2>1, <2>2 DEF Virtual, KERNEL_VIRTUAL_BASE
<1> QED BY <1>1, <1>5, PageAndOffset

\* The frame of every page once paging is on.
LEMMA Frames ==
  ASSUME LoaderInv, pg
  PROVE  /\ Frame(KERNEL_PAGE_NUMBER) = 0
         /\ instr \in WithIdentity => Frame(0) = 0
         /\ instr \notin MayKeep => Frame(0) = none
         /\ \A p \in Pages \ {0, KERNEL_PAGE_NUMBER} : Frame(p) = none
<1>1. cr3 /\ pse
  BY DEF LoaderInv, Registered, WithPagingOff
<1>2. /\ KERNEL_PAGE_NUMBER \in Pages /\ 0 \in Pages /\ KERNEL_PAGE_NUMBER # 0
  BY LoaderAssumption DEF Pages
<1>3. \A p \in Pages : Frame(p) = IF p \in DOMAIN tlb THEN 0 ELSE directory[p]
  BY <1>1 DEF Frame, Walk, LoaderInv, Kept
<1>4. \A p \in Pages \ {0, KERNEL_PAGE_NUMBER} : directory[p] = none
  BY DEF LoaderInv, Registered, BootPageDirectory
<1>5. directory[KERNEL_PAGE_NUMBER] = 0
  BY <1>2 DEF LoaderInv, Registered, BootPageDirectory
<1>6. directory[0] = IF instr \in WithIdentity THEN 0 ELSE none
  BY <1>2 DEF LoaderInv, Registered, BootPageDirectory
<1>7. instr \notin MayKeep => 0 \notin DOMAIN tlb /\ instr \notin WithIdentity
  BY DEF LoaderInv, Kept, MayKeep
<1> QED BY <1>2, <1>3, <1>4, <1>5, <1>6, <1>7 DEF LoaderInv, Kept

\* Where accesses of the image go: to the image.
LEMMA ImageMapped ==
  ASSUME LoaderInv, pg, NEW a \in 0 .. (PageSize - 1)
  PROVE  /\ Translate(Virtual(a)) = a
         /\ instr \in WithIdentity => Translate(a) = a
<1>1. Frame(KERNEL_PAGE_NUMBER) = 0 /\ (instr \in WithIdentity => Frame(0) = 0)
  BY Frames
<1>2. 0 # none
  BY DEF none
<1>3. 0 * PageSize + a = a
  BY LoaderAssumption
<1>4. Translate(Virtual(a)) = a
  BY <1>1, <1>2, <1>3, VirtualAddress DEF Translate
<1>5. a \div PageSize = 0 /\ a % PageSize = a
  <2>1. 0 * PageSize + a = a /\ 0 \in Nat
    BY LoaderAssumption
  <2> QED BY <2>1, LoaderAssumption, PageAndOffset
<1> QED BY <1>1, <1>2, <1>3, <1>4, <1>5 DEF Translate

LEMMA ImageAddresses ==
  /\ loader \in 0 .. (PageSize - 1) /\ VGA \in 0 .. (PageSize - 1)
  /\ \A e \in Ends : e \in 0 .. (PageSize - 1) /\ e - 1 \in 0 .. (PageSize - 1)
                     /\ loader < e
  /\ \A i \in Infos : i \in 0 .. (PageSize - 1)
  BY LoaderAssumption

\* An instruction is always fetched from the loader's code: the one after the
\* enabling of paging through the identity map, those after the unmapping through
\* the higher half, whatever translations the processor keeps.
LEMMA Fetched == LoaderInv => InstructionsFetched
<1> SUFFICES ASSUME LoaderInv PROVE Translate(eip) = loader
  BY DEF InstructionsFetched
<1>1. CASE ~pg
  <2>1. eip = loader
    BY <1>1 DEF LoaderInv, Registered, InLowHalf
  <2> QED BY <1>1, <2>1 DEF Translate
<1>2. CASE pg /\ instr \in InLowHalf
  BY <1>2, ImageMapped, ImageAddresses DEF LoaderInv, Registered, WithIdentity
<1>3. CASE pg /\ instr \notin InLowHalf
  BY <1>3, ImageMapped, ImageAddresses DEF LoaderInv, Registered
<1> QED BY <1>1, <1>2, <1>3 DEF LoaderInv, Registered

LEMMA ArgumentsLength == Len(Arguments) = 7
  BY DEF Arguments

LEMMA PushedLength ==
  Pushed => Len(stack) \in Nat /\ (instr = "push" => Len(stack) \in 0 .. 6)
<1> DEFINE Words == {Arguments[k] : k \in 1 .. 7}
<1> SUFFICES ASSUME Pushed
             PROVE  Len(stack) \in Nat /\ (instr = "push" => Len(stack) \in 0 .. 6)
  OBVIOUS
<1>1. stack \in Seq(Words)
  BY DEF Pushed
<1> HIDE DEF Words
<1>2. Len(stack) \in Nat
  BY <1>1
<1>3. instr = "push" => Len(stack) < 7
  BY DEF Pushed
<1> DEFINE n == Len(stack)
<1> HIDE DEF n
<1>4. n \in Nat /\ (instr = "push" => n < 7)
  BY <1>2, <1>3 DEF n
<1>5. n \in Nat /\ (instr = "push" => n \in 0 .. 6)
  BY <1>4
<1> QED BY <1>5 DEF n

\* The invariant of the loader is inductive.
LEMMA LoaderInit_Inv == LoaderInit => LoaderInv
<1> SUFFICES ASSUME LoaderInit PROVE LoaderInv
  OBVIOUS
<1>1. Registered
  BY DEF LoaderInit, Registered, InLowHalf, WithIdentity, WithPagingOff
<1>2. Kept
  BY DEF LoaderInit, Kept, MayKeep, WithIdentity, InLowHalf, WithPagingOff
<1>3. Pushed
  BY DEF LoaderInit, Pushed
<1> QED
  BY <1>1, <1>2, <1>3
  DEF LoaderInit, LoaderInv, Instructions, MayKeep, WithIdentity, InLowHalf, WithPagingOff

LEMMA LoaderNext_Inv == LoaderInv /\ [LoaderNext]_loaderVars => LoaderInv'
<1> SUFFICES ASSUME LoaderInv, [LoaderNext]_loaderVars PROVE LoaderInv'
  OBVIOUS
<1> USE DEF Instructions, MayKeep, WithIdentity, InLowHalf, WithPagingOff
<1>1. CASE LoadDirectory
  BY <1>1 DEF LoadDirectory, Execute, After, LoaderInv, Registered, Kept, Pushed, Arguments
<1>2. CASE EnablePse
  BY <1>2 DEF EnablePse, Execute, After, LoaderInv, Registered, Kept, Pushed, Arguments
<1>3. CASE EnablePaging
  BY <1>3 DEF EnablePaging, Execute, After, LoaderInv, Registered, Kept, Pushed, Arguments
<1>4. CASE JumpHigh
  BY <1>4 DEF JumpHigh, Execute, After, LoaderInv, Registered, Kept, Pushed, Arguments
<1>5. CASE UnmapIdentity
  BY <1>5 DEF UnmapIdentity, Execute, After, LoaderInv, Registered, Kept, Pushed, Arguments
<1>6. CASE Invlpg
  BY <1>6 DEF Invlpg, Execute, After, LoaderInv, Registered, Kept, Pushed, Arguments
<1>7. CASE SetStack
  BY <1>7 DEF SetStack, Execute, After, LoaderInv, Registered, Kept, Pushed, Arguments
<1>8. CASE PushArgument
  <2>1. Arguments' = Arguments
    BY <1>8 DEF PushArgument, Arguments
  <2>2. LoaderInv /\ instr = "push" /\ Len(stack) \in 0 .. 6
    BY <1>8, PushedLength DEF PushArgument, LoaderInv
  <2>3. stack' = Append(stack, Arguments[Len(stack) + 1])
    BY <1>8 DEF PushArgument
  <2>4. instr' = IF Len(stack') = 7 THEN "kernel_main" ELSE "push"
    BY <1>8, <2>1, ArgumentsLength DEF PushArgument
  <2>5. Pushed'
    BY <2>1, <2>2, <2>3, <2>4 DEF LoaderInv, Pushed
  <2>6. Registered' /\ Kept'
    BY <1>8, <2>2, <2>4 DEF PushArgument, LoaderInv, Registered, Kept
  <2> QED BY <1>8, <2>4, <2>5, <2>6 DEF PushArgument, LoaderInv
<1>9. CASE CacheTranslation
  <2>1. PICK p \in Pages \ DOMAIN tlb :
          Walk(p) # none /\ tlb' = [q \in DOMAIN tlb \cup {p} |-> Frame(q)]
    BY <1>9 DEF CacheTranslation
  <2>2. pg /\ UNCHANGED <<end, info, instr, eip, cr3, pse, pg, directory, stack>>
    BY <1>9 DEF CacheTranslation
  <2>3. Frame(p) # none
    BY <2>1 DEF Frame
  <2>4. p \in {0, KERNEL_PAGE_NUMBER} /\ Frame(p) = 0
    BY <2>1, <2>2, <2>3, Frames DEF LoaderInv, Kept, none, BootPageDirectory, Registered, Frame, Walk
  <2>5. Kept'
    <3>1. DOMAIN tlb' = DOMAIN tlb \cup {p} /\ DOMAIN tlb \subseteq {0, KERNEL_PAGE_NUMBER}
      BY <2>1 DEF LoaderInv, Kept
    <3>2. \A q \in DOMAIN tlb : Frame(q) = 0
      BY DEF LoaderInv, Kept, Frame
    <3>3. tlb' = [q \in DOMAIN tlb' |-> 0]
      BY <2>1, <2>4, <3>1, <3>2
    <3>4. instr \notin WithPagingOff
      BY <2>2 DEF LoaderInv, Registered
    <3>5. instr \notin MayKeep => 0 \notin DOMAIN tlb /\ p # 0
      BY <2>2, <2>3, Frames DEF LoaderInv, Kept
    <3> QED BY <2>2, <2>4, <3>1, <3>3, <3>4, <3>5 DEF Kept
  <2>6. Registered' /\ Pushed'
    BY <2>2 DEF LoaderInv, Registered, Pushed, Arguments
  <2> QED BY <2>2, <2>5, <2>6 DEF LoaderInv
<1>10. CASE UNCHANGED loaderVars
  BY <1>10 DEF loaderVars, LoaderInv, Registered, Kept, Pushed, Arguments
<1> QED
  BY <1>1, <1>2, <1>3, <1>4, <1>5, <1>6, <1>7, <1>8, <1>9, <1>10 DEF LoaderNext

\* kernel_main finds each parameter where its declaration expects it.
LEMMA Parameters == LoaderInv => ParametersInOrder
<1> SUFFICES ASSUME LoaderInv, instr = "kernel_main"
             PROVE  /\ Parameter(1) = loader /\ Parameter(2) = end
                    /\ Translate(Parameter(3)) = Parameter(1)
                    /\ Translate(Parameter(4)) = Parameter(2)
                    /\ Parameter(3) - Parameter(5) = Parameter(1)
                    /\ Parameter(6) = magic
                    /\ Translate(Parameter(7)) = info
  BY DEF ParametersInOrder
<1>0. Len(stack) = 7 /\ \A k \in 1 .. Len(stack) : stack[k] = Arguments[k]
  BY DEF LoaderInv, Pushed
<1>1. \A k \in 1 .. 7 : Parameter(k) = Arguments[8 - k]
  BY <1>0 DEF Parameter
<1>2. /\ Parameter(1) = loader /\ Parameter(2) = end
      /\ Parameter(3) = Virtual(loader) /\ Parameter(4) = Virtual(end)
      /\ Parameter(5) = KERNEL_VIRTUAL_BASE
      /\ Parameter(6) = magic /\ Parameter(7) = Virtual(info)
  BY <1>1 DEF Arguments
<1>3. pg
  BY DEF LoaderInv, Registered, WithPagingOff
<1>4. /\ loader \in 0 .. (PageSize - 1)
      /\ end \in 0 .. (PageSize - 1)
      /\ info \in 0 .. (PageSize - 1)
  BY ImageAddresses DEF LoaderInv
<1>5. Virtual(loader) - KERNEL_VIRTUAL_BASE = loader
  <2>1. KERNEL_VIRTUAL_BASE \in Nat
    BY LoaderAssumption DEF KERNEL_VIRTUAL_BASE
  <2> QED BY <1>4, <2>1, VirtualAddress DEF KERNEL_VIRTUAL_BASE
<1> QED BY <1>2, <1>3, <1>4, <1>5, ImageMapped

\* In kernel_main the image and the screen are mapped, and nothing below.
LEMMA LowHalf == LoaderInv => LowHalfUnmapped
<1> SUFFICES ASSUME LoaderInv, instr = "kernel_main"
             PROVE  /\ \A a \in {VGA} \cup loader .. end : Translate(Virtual(a)) = a
                    /\ \A a \in 0 .. (KERNEL_VIRTUAL_BASE - 1) : Translate(a) = none
  BY DEF LowHalfUnmapped
<1>1. pg /\ instr \notin MayKeep
  BY DEF LoaderInv, Registered, MayKeep, WithIdentity, InLowHalf, WithPagingOff
<1>2. {VGA} \cup loader .. end \subseteq 0 .. (PageSize - 1)
  BY ImageAddresses, LoaderAssumption DEF LoaderInv
<1>3. ASSUME NEW a \in 0 .. (KERNEL_VIRTUAL_BASE - 1)
      PROVE  Translate(a) = none
  <2>1. a \div PageSize \in 0 .. (KERNEL_PAGE_NUMBER - 1)
    <3>1. a \in 0 .. (KERNEL_PAGE_NUMBER * PageSize - 1)
      BY DEF KERNEL_VIRTUAL_BASE
    <3>2. KERNEL_PAGE_NUMBER \in Nat /\ PageSize \in Nat \ {0}
      BY LoaderAssumption
    <3> QED BY <3>1, <3>2, PageBelow
  <2>2. a \div PageSize \in Pages \ {KERNEL_PAGE_NUMBER}
    BY <2>1, LoaderAssumption DEF Pages
  <2> QED BY <1>1, <2>2, Frames DEF Translate
<1> QED BY <1>1, <1>2, <1>3, ImageMapped

-----------------------------------------------------------------------------
(***************************************************************************)
(* Descriptors.                                                            *)
(***************************************************************************)

\* A field of a word, put back where it was.
LEMMA FieldInPlace ==
  ASSUME NEW w \in Word, NEW lo \in Nat, NEW hi \in Nat
  PROVE  Shift(Field(w, lo, hi), lo) = w \cap lo .. hi
<1>1. \A b \in w : b \in Int
  BY DEF Word
<1>2. ASSUME NEW x \in Shift(Field(w, lo, hi), lo) PROVE x \in w \cap lo .. hi
  BY <1>1 DEF Shift, Field
<1>3. ASSUME NEW x \in w \cap lo .. hi PROVE x \in Shift(Field(w, lo, hi), lo)
  <2>1. x - lo \in Field(w, lo, hi)
    BY DEF Field
  <2>2. (x - lo) + lo = x
    BY <1>1
  <2> QED BY <2>1, <2>2 DEF Shift
<1> QED BY <1>2, <1>3

\* The low field is in place already.
LEMMA LowField ==
  ASSUME NEW w \in Word, NEW hi \in Nat
  PROVE  Field(w, 0, hi) = w \cap 0 .. hi
<1>1. \A b \in w : b \in Int /\ b - 0 = b
  BY DEF Word
<1> QED BY <1>1 DEF Field

\* The processor gets back what the two SetGates were given.
LEMMA SegmentRoundTrip ==
  ASSUME NEW s \in SegmentArgs
  PROVE  DecodedSegment(GdtEntry(s)) =
           [base |-> s.base, limit |-> s.limit \cap 0 .. 19,
            flags |-> s.granularity \cap 4 .. 7, access |-> s.access]
<1>1. /\ s.base \in Word /\ s.limit \in Word
      /\ s.granularity \in SUBSET (0 .. 7)
  BY DEF SegmentArgs
<1>2. Field(s.base, 0, 15) \cup Shift(Field(s.base, 16, 23), 16)
        \cup Shift(Field(s.base, 24, 31), 24) = s.base
  <2>1. s.base = (s.base \cap 0 .. 15) \cup (s.base \cap 16 .. 23) \cup (s.base \cap 24 .. 31)
    BY <1>1 DEF Word
  <2>2. Field(s.base, 0, 15) = s.base \cap 0 .. 15
    BY <1>1, LowField
  <2>3. Shift(Field(s.base, 16, 23), 16) = s.base \cap 16 .. 23
    BY <1>1, FieldInPlace
  <2>4. Shift(Field(s.base, 24, 31), 24) = s.base \cap 24 .. 31
    BY <1>1, FieldInPlace
  <2> QED BY <2>1, <2>2, <2>3, <2>4
<1>3. Field(s.limit, 16, 19) \subseteq 0 .. 3
  BY <1>1 DEF Field, Word
<1>4. (Field(s.limit, 16, 19) \cup (s.granularity \cap 4 .. 7)) \cap 0 .. 3
        = Field(s.limit, 16, 19)
  BY <1>3
<1>5. (Field(s.limit, 16, 19) \cup (s.granularity \cap 4 .. 7)) \cap 4 .. 7
        = s.granularity \cap 4 .. 7
  BY <1>3
<1>6. Field(s.limit, 0, 15) \cup Shift(Field(s.limit, 16, 19), 16) = s.limit \cap 0 .. 19
  <2>1. s.limit \cap 0 .. 19 = (s.limit \cap 0 .. 15) \cup (s.limit \cap 16 .. 19)
    BY <1>1 DEF Word
  <2>2. Field(s.limit, 0, 15) = s.limit \cap 0 .. 15
    BY <1>1, LowField
  <2>3. Shift(Field(s.limit, 16, 19), 16) = s.limit \cap 16 .. 19
    BY <1>1, FieldInPlace
  <2> QED BY <2>1, <2>2, <2>3
<1> QED BY <1>2, <1>4, <1>5, <1>6 DEF DecodedSegment, GdtEntry

LEMMA GateRoundTrip ==
  ASSUME NEW w \in Word
  PROVE  GateAddress(IdtEntry(w)) = w
<1>1. w = (w \cap 0 .. 15) \cup (w \cap 16 .. 31)
  <2>1. \A b \in w : b \in 0 .. 15 \/ b \in 16 .. 31
    BY DEF Word
  <2> QED BY <2>1
<1> QED BY <1>1, LowField, FieldInPlace DEF GateAddress, IdtEntry

-----------------------------------------------------------------------------
(***************************************************************************)
(* The tables.  Their inductive invariant: every entry of the GDT is what  *)
(* SetGate makes of its arguments, the four behind the selectors are those *)
(* of InitGdt as soon as a selector names them; every gate of the IDT is   *)
(* zero, or that of a stub, or one that was added, and is enabled.         *)
(***************************************************************************)
BeforeSelectors == {"gdt", "flush data"}
BeforeGates     == BeforeSelectors \cup {"flush code", "idt", "disable"}

Packed ==
  /\ asked \in [1 .. 5 -> SegmentArgs]
  /\ gdt = [i \in 1 .. 5 |-> GdtEntry(asked[i])]
  /\ pc = "gdt" => next \in 0 .. 4
  /\ pc \in {"flush data", "flush code"} => next = 0
  /\ \A i \in 1 .. 4 : pc # "gdt" \/ i <= next => asked[i] = InitGdtSegments[i]

Selected ==
  /\ segs \in [{"cs", "ds", "es", "fs", "gs", "ss"} -> {0, kCodeSelector, kDataSelector}]
  /\ segs["cs"] # kDataSelector
  /\ \A r \in DOMAIN segs \ {"cs"} : segs[r] # kCodeSelector
  /\ pc \in BeforeSelectors => \A r \in DOMAIN segs : segs[r] = 0

\* The addresses the gate of v may hold.
Targets(v) ==
  IF v \in Stubs THEN {link[v]} ELSE {g[2] : g \in {h \in ExtraGates : h[1] = v}}

Gated ==
  /\ link \in Links
  /\ added \subseteq ExtraGates
  /\ pc = "idt" => next \in 0 .. 47
  /\ idt = [v \in Vectors |-> idt[v]]
  /\ \A v \in Vectors : idt[v] # ZeroEntry =>
       /\ v \in enabled
       /\ pc \in BeforeGates => v < DisabledFrom
       /\ \E w \in Targets(v) : idt[v] = IdtEntry(w)

Taken ==
  taken # NotTaken =>
    /\ pc = "up"
    /\ taken.cs = kCodeSelector
    /\ taken.vector \in enabled
    /\ taken.eip \in Targets(taken.vector)

TablesInv ==
  /\ pc \in BeforeGates \cup {"add", "up"}
  /\ Packed
  /\ Selected
  /\ Gated
  /\ Taken

LEMMA InitGdtSegmentsType ==
  \A i \in 1 .. 5 : InitGdtSegments[i] \in SegmentArgs
<1> DEFINE Args(base, limit, access, granularity) ==
             /\ base \subseteq 0 .. 31 /\ limit \subseteq 0 .. 31
             /\ access \subseteq 0 .. 7 /\ granularity \subseteq 0 .. 7
<1>1. ASSUME NEW b, NEW l, NEW a, NEW g, Args(b, l, a, g)
      PROVE  Segment(b, l, a, g) \in SegmentArgs
  BY <1>1 DEF Segment, SegmentArgs, Word
<1>2. /\ Args({}, {}, {}, {})
      /\ Args({}, Flat, {1, 3, 4, 7}, {0, 1, 2, 3, 6, 7})
      /\ Args({}, Flat, {1, 4, 7}, {0, 1, 2, 3, 6, 7})
      /\ Args({}, Flat, {1, 3, 4, 5, 6, 7}, {0, 1, 2, 3, 6, 7})
      /\ Args({}, Flat, {1, 4, 5, 6, 7}, {0, 1, 2, 3, 6, 7})
  BY DEF Flat
<1> HIDE DEF Args
<1> QED BY <1>1, <1>2 DEF InitGdtSegments

LEMMA Tables_Init == TablesInit => TablesInv
<1> SUFFICES ASSUME TablesInit PROVE TablesInv
  OBVIOUS
<1>1. Packed
  <2>1. Segment({}, {}, {}, {}) \in SegmentArgs /\ InitGdtSegments[1] = asked[1]
    BY InitGdtSegmentsType DEF InitGdtSegments, TablesInit
  <2> QED BY <2>1 DEF TablesInit, Packed
<1>2. Selected
  BY DEF TablesInit, Selected, kCodeSelector, kDataSelector
<1>3. Gated
  BY DEF TablesInit, Gated
<1> QED BY <1>1, <1>2, <1>3 DEF TablesInit, TablesInv, Taken, BeforeGates, BeforeSelectors

\* Setting entry i of the GDT.
LEMMA SegmentSet ==
  ASSUME Packed, NEW i \in 1 .. 5, NEW s \in SegmentArgs, SetSegment(i, s)
  PROVE  /\ asked' \in [1 .. 5 -> SegmentArgs]
         /\ gdt' = [j \in 1 .. 5 |-> GdtEntry(asked'[j])]
         /\ asked' = [asked EXCEPT ![i] = s]
  BY DEF Packed, SetSegment

\* Setting gate v of the IDT to one of the addresses it may hold.
LEMMA GateSet ==
  ASSUME Gated, NEW v \in Vectors, NEW w \in Targets(v), SetGate(v, w),
         UNCHANGED link, pc \in BeforeGates => v < DisabledFrom,
         pc' \in BeforeGates => pc \in BeforeGates
  PROVE  /\ idt' = [u \in Vectors |-> idt'[u]]
         /\ \A u \in Vectors : idt'[u] # ZeroEntry =>
              /\ u \in enabled'
              /\ pc' \in BeforeGates => u < DisabledFrom
              /\ \E x \in Targets(u)' : idt'[u] = IdtEntry(x)
<1>1. idt' = [idt EXCEPT ![v] = IdtEntry(w)] /\ enabled' = enabled \cup {v}
  BY DEF SetGate
<1>2. \A u : Targets(u)' = Targets(u)
  BY DEF Targets
<1>3. idt' = [u \in Vectors |-> idt'[u]]
  BY <1>1 DEF Gated
<1>4. ASSUME NEW u \in Vectors, idt'[u] # ZeroEntry
      PROVE  /\ u \in enabled'
             /\ pc' \in BeforeGates => u < DisabledFrom
             /\ \E x \in Targets(u)' : idt'[u] = IdtEntry(x)
  <2>1. CASE u = v
    BY <2>1, <1>1, <1>2 DEF Gated
  <2>2. CASE u # v
    <3>1. idt'[u] = idt[u]
      BY <2>2, <1>1 DEF Gated
    <3> QED BY <3>1, <1>1, <1>2, <1>4 DEF Gated
  <2> QED BY <2>1, <2>2
<1> QED BY <1>3, <1>4

LEMMA Tables_Next == TablesInv /\ [TablesNext]_tablesVars => TablesInv'
<1> SUFFICES ASSUME TablesInv, [TablesNext]_tablesVars PROVE TablesInv'
  OBVIOUS
<1> USE DEF BeforeGates, BeforeSelectors
<1>1. CASE InitGdt
  <2>1. /\ pc = "gdt" /\ next \in 0 .. 4
        /\ SetSegment(next + 1, InitGdtSegments[next + 1])
        /\ next' = IF next = 4 THEN 0 ELSE next + 1
        /\ pc' = IF next = 4 THEN "flush data" ELSE "gdt"
        /\ UNCHANGED <<segs, idtVars, taken>>
    BY <1>1 DEF InitGdt, TablesInv, Packed
  <2>2. Packed'
    <3>a. next \in 0 .. 4
      BY <2>1
    <3>b. /\ next' = IF next = 4 THEN 0 ELSE next + 1
          /\ pc' = IF next = 4 THEN "flush data" ELSE "gdt"
      BY <2>1
    <3>0. next + 1 \in 1 .. 5
      BY <3>a
    <3>c. /\ asked \in [1 .. 5 -> SegmentArgs]
          /\ \A i \in 1 .. 4 : i <= next => asked[i] = InitGdtSegments[i]
      BY DEF TablesInv, Packed
    <3>1. InitGdtSegments[next + 1] \in SegmentArgs
      BY <3>0, InitGdtSegmentsType
    <3>2. /\ asked' \in [1 .. 5 -> SegmentArgs]
          /\ gdt' = [j \in 1 .. 5 |-> GdtEntry(asked'[j])]
          /\ asked' = [asked EXCEPT ![next + 1] = InitGdtSegments[next + 1]]
      BY <2>1, <3>0, <3>1, SegmentSet DEF TablesInv
    <3>3. ASSUME NEW i \in 1 .. 4, i <= next + 1 PROVE asked'[i] = InitGdtSegments[i]
      <4>1. CASE i = next + 1
        BY <4>1, <3>0, <3>2, <3>c
      <4>2. CASE i # next + 1
        <5>1. i <= next
          BY <4>2, <3>3, <3>a
        <5>2. asked[i] = InitGdtSegments[i]
          BY <5>1, <3>c
        <5> QED BY <5>2, <4>2, <3>0, <3>2, <3>c
      <4> QED BY <4>1, <4>2
    <3>4. pc' = "gdt" => next' = next + 1 /\ next' \in 0 .. 4
      BY <3>a, <3>b
    <3>5. pc' # "gdt" => next = 4 /\ next' = 0
      BY <3>a, <3>b
    <3>6. \A i \in 1 .. 4 : pc' # "gdt" \/ i <= next' => asked'[i] = InitGdtSegments[i]
      BY <3>a, <3>3, <3>4, <3>5
    <3> QED BY <3>2, <3>4, <3>5, <3>6 DEF Packed
  <2>3. Selected' /\ Gated' /\ Taken'
    BY <2>1 DEF TablesInv, Selected, Gated, Taken, Targets, idtVars
  <2> QED BY <2>1, <2>2, <2>3 DEF TablesInv
<1>2. CASE FlushGdt
  <2>1. /\ pc \in {"flush data", "flush code"} /\ pc' \in {"flush code", "idt"}
        /\ UNCHANGED <<gdt, asked, idtVars, taken>>
        /\ next' = next /\ (pc' = "flush code" \/ pc' = "idt")
    BY <1>2 DEF FlushGdt
  <2>2. Selected'
    <3>1. /\ pc' \notin BeforeSelectors
          /\ \/ segs' = [r \in DOMAIN segs |-> IF r = "cs" THEN segs["cs"] ELSE kDataSelector]
             \/ segs' = [segs EXCEPT !["cs"] = kCodeSelector]
      BY <1>2 DEF FlushGdt
    <3>2. kCodeSelector # kDataSelector
      BY DEF kCodeSelector, kDataSelector
    <3> QED BY <3>1, <3>2 DEF TablesInv, Selected
  <2>3. Packed'
    <3>1. /\ asked \in [1 .. 5 -> SegmentArgs]
          /\ gdt = [i \in 1 .. 5 |-> GdtEntry(asked[i])]
          /\ next = 0
      BY <2>1 DEF TablesInv, Packed
    <3>2. \A i \in 1 .. 4 : asked[i] = InitGdtSegments[i]
      BY <2>1 DEF TablesInv, Packed
    <3>3. asked' = asked /\ gdt' = gdt /\ next' = 0
      BY <2>1, <3>1
    <3>4. pc' # "gdt"
      BY <2>1
    <3> HIDE DEF BeforeGates, BeforeSelectors
    <3> QED BY <3>1, <3>2, <3>3, <3>4 DEF Packed
  <2>4. Gated'
    <3>1. next' = 0 /\ pc \in BeforeGates
      BY <2>1 DEF TablesInv, Packed
    <3>2. UNCHANGED <<link, added, idt, enabled>>
      BY <2>1 DEF idtVars
    <3> HIDE DEF BeforeGates, BeforeSelectors
    <3> QED BY <3>1, <3>2 DEF TablesInv, Gated, Targets
  <2>5. Taken'
    BY <2>1 DEF TablesInv, Taken
  <2> QED BY <2>1, <2>2, <2>3, <2>4, <2>5 DEF TablesInv
<1>3. CASE RegisterStub
  <2>1. /\ pc = "idt" /\ pc' \in {"idt", "disable"}
        /\ next \in 0 .. 47 /\ next' = next + 1
        /\ pc' = IF next = 47 THEN "disable" ELSE "idt"
        /\ SetGate(next, link[next])
        /\ UNCHANGED <<gdtVars, link, added, taken>>
    BY <1>3 DEF RegisterStub, TablesInv, Gated
  <2>2. next \in Stubs /\ next \in Vectors /\ next < DisabledFrom
    BY <2>1, TablesAssumption DEF Stubs, kIsrs, kIrqs, DisabledFrom
  <2>3. link[next] \in Targets(next)
    BY <2>2 DEF Targets
  <2>4. Gated'
    <3>1. /\ idt' = [u \in Vectors |-> idt'[u]]
          /\ \A u \in Vectors : idt'[u] # ZeroEntry =>
               /\ u \in enabled'
               /\ pc' \in BeforeGates => u < DisabledFrom
               /\ \E x \in Targets(u)' : idt'[u] = IdtEntry(x)
      BY <2>1, <2>2, <2>3, GateSet DEF TablesInv
    <3> QED BY <2>1, <3>1 DEF TablesInv, Gated
  <2>5. Packed' /\ Selected' /\ Taken'
    BY <2>1 DEF TablesInv, Packed, Selected, Taken, gdtVars
  <2> QED BY <2>1, <2>4, <2>5 DEF TablesInv
<1>4. CASE DisableOthers
  <2>1. /\ pc = "disable" /\ pc' = "add"
        /\ enabled' = enabled \ {v \in Vectors : v >= DisabledFrom}
        /\ UNCHANGED <<next, gdtVars, link, added, idt, taken>>
    BY <1>4 DEF DisableOthers
  <2>2. Gated'
    <3>1. \A v \in Vectors : v \in Int
      BY TablesAssumption DEF Vectors
    <3> QED BY <2>1, <3>1 DEF TablesInv, Gated, Targets, DisabledFrom
  <2>3. Packed' /\ Selected' /\ Taken'
    BY <2>1 DEF TablesInv, Packed, Selected, Taken, gdtVars
  <2> QED BY <2>1, <2>2, <2>3 DEF TablesInv
<1>5. CASE InitIdt
  <2>1. pc = "add" /\ UNCHANGED <<next, gdtVars, link, taken>>
    BY <1>5 DEF InitIdt
  <2>2. CASE added = {} /\ pc' = "up" /\ UNCHANGED <<added, idt, enabled>>
    BY <2>1, <2>2 DEF TablesInv, Packed, Selected, Gated, Taken, Targets, gdtVars
  <2>3. ASSUME NEW g \in added, SetGate(g[1], g[2]), added' = added \ {g}, UNCHANGED pc
        PROVE  TablesInv'
    <3>1. g \in ExtraGates
      BY DEF TablesInv, Gated
    <3>2. g[1] \in Vectors \ Stubs /\ g[2] \in Targets(g[1])
      BY <3>1, TablesAssumption DEF Targets
    <3>3. /\ idt' = [u \in Vectors |-> idt'[u]]
          /\ \A u \in Vectors : idt'[u] # ZeroEntry =>
               /\ u \in enabled'
               /\ pc' \in BeforeGates => u < DisabledFrom
               /\ \E x \in Targets(u)' : idt'[u] = IdtEntry(x)
      BY <2>1, <2>3, <3>2, GateSet DEF TablesInv
    <3>4. Gated'
      BY <2>1, <2>3, <3>3 DEF TablesInv, Gated
    <3>5. Packed' /\ Selected' /\ Taken'
      BY <2>1, <2>3 DEF TablesInv, Packed, Selected, Taken, gdtVars
    <3> QED BY <2>1, <2>3, <3>4, <3>5 DEF TablesInv
  <2> QED BY <1>5, <2>1, <2>2, <2>3 DEF InitIdt
<1>6. CASE SetOtherSegment
  <2>1. PICK s \in OtherSegments : SetSegment(5, s)
    BY <1>6 DEF SetOtherSegment
  <2>2. pc = "up" /\ UNCHANGED <<pc, next, segs, idtVars, taken>>
    BY <1>6 DEF SetOtherSegment
  <2>3. Packed'
    BY <2>1, <2>2, SegmentSet, TablesAssumption DEF TablesInv, Packed
  <2>4. Selected' /\ Gated' /\ Taken'
    BY <2>2 DEF TablesInv, Selected, Gated, Taken, Targets, idtVars
  <2> QED BY <2>2, <2>3, <2>4 DEF TablesInv
<1>7. CASE TakeInterrupt
  <2>1. pc = "up" /\ UNCHANGED <<pc, next, gdtVars, idtVars>>
    BY <1>7 DEF TakeInterrupt
  <2>2. PICK v \in Vectors :
          /\ Present(idt[v].attributes)
          /\ taken' = [vector |-> v, cs |-> idt[v].cs, eip |-> GateAddress(idt[v])]
    BY <1>7 DEF TakeInterrupt
  <2>3. idt[v] # ZeroEntry
    BY <2>2 DEF Present, ZeroEntry
  <2>4. PICK w \in Targets(v) : idt[v] = IdtEntry(w)
    BY <2>3 DEF TablesInv, Gated
  <2>5. w \in Word
    <3>1. link \in [Stubs -> Word]
      BY TablesAssumption DEF TablesInv, Gated
    <3>2. \A g \in ExtraGates : g[2] \in Word
      BY TablesAssumption
    <3> QED BY <3>1, <3>2 DEF Targets
  <2>6. GateAddress(idt[v]) = w /\ idt[v].cs = kCodeSelector
    BY <2>4, <2>5, GateRoundTrip DEF IdtEntry
  <2>7. Taken'
    <3>1. v \in enabled /\ Targets(v)' = Targets(v)
      BY <2>1, <2>3 DEF TablesInv, Gated, idtVars, Targets
    <3> QED BY <2>1, <2>2, <2>6, <3>1 DEF Taken, idtVars, TablesInv
  <2>8. Packed' /\ Selected' /\ Gated'
    BY <2>1 DEF TablesInv, Packed, Selected, Gated, Targets, gdtVars, idtVars
  <2> QED BY <2>1, <2>7, <2>8 DEF TablesInv
<1>8. CASE UNCHANGED tablesVars
  BY <1>8 DEF tablesVars, gdtVars, idtVars, TablesInv, Packed, Selected, Gated, Taken, Targets
<1> QED
  BY <1>1, <1>2, <1>3, <1>4, <1>5, <1>6, <1>7, <1>8 DEF TablesNext

\* Selectors 8 and 16 name the flat segments InitGdt asked for.
LEMMA FlatSegments ==
  ASSUME TablesInv, pc \notin {"gdt"}
  PROVE  /\ Usable(kCodeSelector) /\ IsCode(kCodeSelector)
         /\ Usable(kDataSelector) /\ IsWritable(kDataSelector)
<1>1. \A i \in 1 .. 5 : gdt[i] = GdtEntry(asked[i]) /\ asked[i] \in SegmentArgs
  BY DEF TablesInv, Packed
<1>2. Len(gdt) = 5
  <2>1. gdt = [i \in 1 .. 5 |-> GdtEntry(asked[i])]
    BY DEF TablesInv, Packed
  <2> QED BY <2>1
<1>3. asked[2] = InitGdtSegments[2] /\ asked[3] = InitGdtSegments[3]
  <2>1. \A i \in 1 .. 4 : asked[i] = InitGdtSegments[i]
    BY DEF TablesInv, Packed
  <2> QED BY <2>1
<1>4. kCodeSelector \div 8 = 1 /\ kDataSelector \div 8 = 2
  BY DEF kCodeSelector, kDataSelector
<1>5. /\ Descriptor(kCodeSelector) =
           [base |-> asked[2].base, limit |-> asked[2].limit \cap 0 .. 19,
            flags |-> asked[2].granularity \cap 4 .. 7, access |-> asked[2].access]
      /\ Descriptor(kDataSelector) =
           [base |-> asked[3].base, limit |-> asked[3].limit \cap 0 .. 19,
            flags |-> asked[3].granularity \cap 4 .. 7, access |-> asked[3].access]
  <2>1. \A i \in 1 .. 5 : DecodedSegment(gdt[i]) =
          [base |-> asked[i].base, limit |-> asked[i].limit \cap 0 .. 19,
           flags |-> asked[i].granularity \cap 4 .. 7, access |-> asked[i].access]
    BY <1>1, SegmentRoundTrip
  <2>2. /\ Descriptor(kCodeSelector) = DecodedSegment(gdt[2])
        /\ Descriptor(kDataSelector) = DecodedSegment(gdt[3])
    BY <1>4 DEF Descriptor
  <2> QED BY <2>1, <2>2
<1>6. /\ asked[2] = Segment({}, Flat, {1, 3, 4, 7}, {0, 1, 2, 3, 6, 7})
      /\ asked[3] = Segment({}, Flat, {1, 4, 7}, {0, 1, 2, 3, 6, 7})
  BY <1>3 DEF InitGdtSegments
<1>7. Flat \cap 0 .. 19 = 0 .. 19
  BY DEF Flat
<1>8. /\ Descriptor(kCodeSelector).base = {} /\ Descriptor(kDataSelector).base = {}
      /\ Descriptor(kCodeSelector).limit = 0 .. 19
      /\ Descriptor(kDataSelector).limit = 0 .. 19
      /\ Descriptor(kCodeSelector).flags = {0, 1, 2, 3, 6, 7} \cap 4 .. 7
      /\ Descriptor(kDataSelector).flags = {0, 1, 2, 3, 6, 7} \cap 4 .. 7
      /\ Descriptor(kCodeSelector).access = {1, 3, 4, 7}
      /\ Descriptor(kDataSelector).access = {1, 4, 7}
  BY <1>5, <1>6, <1>7 DEF Segment
<1> QED BY <1>2, <1>4, <1>8 DEF Usable, IsCode, IsWritable, Present

LEMMA Segments == TablesInv => SegmentsAsAsked
<1> SUFFICES ASSUME TablesInv PROVE SegmentsAsAsked
  OBVIOUS
<1>1. \A i \in 1 .. 5 : gdt[i] = GdtEntry(asked[i]) /\ asked[i] \in SegmentArgs
  BY DEF TablesInv, Packed
<1> QED BY <1>1, SegmentRoundTrip DEF SegmentsAsAsked

LEMMA Selectors == TablesInv => SelectorsUsable
<1> SUFFICES ASSUME TablesInv, NEW r \in DOMAIN segs, segs[r] # 0
             PROVE  /\ Usable(segs[r])
                    /\ IF r = "cs" THEN IsCode(segs[r]) ELSE IsWritable(segs[r])
  BY DEF SelectorsUsable
<1>1. pc \notin BeforeSelectors
  BY DEF TablesInv, Selected
<1>2. segs[r] = IF r = "cs" THEN kCodeSelector ELSE kDataSelector
  BY DEF TablesInv, Selected
<1>3. pc # "gdt"
  BY <1>1 DEF BeforeSelectors
<1> QED BY <1>2, <1>3, FlatSegments

LEMMA Interrupts == TablesInv => InterruptRunsItsStub
<1> SUFFICES ASSUME TablesInv, taken # NotTaken
             PROVE  /\ taken.vector \in enabled
                    /\ Usable(taken.cs) /\ IsCode(taken.cs)
                    /\ IF taken.vector \in Stubs THEN taken.eip = link[taken.vector]
                       ELSE <<taken.vector, taken.eip>> \in ExtraGates
  BY DEF InterruptRunsItsStub
<1>1. /\ pc # "gdt" /\ taken.cs = kCodeSelector /\ taken.vector \in enabled
      /\ taken.eip \in Targets(taken.vector)
  BY DEF TablesInv, Taken
<1>2. Usable(taken.cs) /\ IsCode(taken.cs)
  BY <1>1, FlatSegments
<1>3. CASE taken.vector \in Stubs
  BY <1>1, <1>2, <1>3 DEF Targets
<1>4. CASE taken.vector \notin Stubs
  <2>1. PICK g \in ExtraGates : g[1] = taken.vector /\ g[2] = taken.eip
    BY <1>1, <1>4 DEF Targets
  <2>2. g = <<g[1], g[2]>>
    BY TablesAssumption
  <2> QED BY <1>1, <1>2, <1>4, <2>1, <2>2
<1> QED BY <1>3, <1>4

-----------------------------------------------------------------------------
(***************************************************************************)
(* The boot sequence: the loader, then kernel_main.                        *)
(***************************************************************************)
BootInv == LoaderInv /\ TablesInv

LEMMA Boot_Inv == Spec => []BootInv
<1>1. Init => BootInv
  BY LoaderInit_Inv, Tables_Init DEF Init, BootInv
<1>2. BootInv /\ [Next]_vars => BootInv'
  <2> SUFFICES ASSUME BootInv, [Next]_vars PROVE BootInv'
    OBVIOUS
  <2>1. [LoaderNext]_loaderVars /\ [TablesNext]_tablesVars
    BY DEF Next, KernelMain, vars
  <2> QED BY <2>1, LoaderNext_Inv, Tables_Next DEF BootInv
<1> QED BY <1>1, <1>2, PTL DEF Spec

\* Enabling paging and removing the identity map never pull the loader's code from
\* under it: whatever translations the processor keeps, the next instruction is
\* fetched from where the loader was linked (loader.nasm).
THEOREM EveryInstructionFetched == Spec => []InstructionsFetched
<1>1. BootInv => InstructionsFetched
  BY Fetched DEF BootInv
<1> QED BY <1>1, Boot_Inv, PTL

\* kernel_main is called with the seven words its declaration names, in order,
\* whatever the image's size and the multiboot information's address.
THEOREM KernelMainParameters == Spec => []ParametersInOrder
<1>1. BootInv => ParametersInOrder
  BY Parameters DEF BootInv
<1> QED BY <1>1, Boot_Inv, PTL

\* In kernel_main the image and the screen are mapped, and no address of the low half
\* is, although the processor may have kept the identity map up to the invlpg.
THEOREM NullFaults == Spec => []LowHalfUnmapped
<1>1. BootInv => LowHalfUnmapped
  BY LowHalf DEF BootInv
<1> QED BY <1>1, Boot_Inv, PTL

\* SetGate of the GDT loses none of the bits it is given, whatever it is given.
THEOREM DescriptorsDecode == Spec => []SegmentsAsAsked
<1>1. BootInv => SegmentsAsAsked
  BY Segments DEF BootInv
<1> QED BY <1>1, Boot_Inv, PTL

\* From the far jump of flush_gdt on the segment registers hold selectors of usable
\* segments of the right kind, also when later callers set up the fifth entry.
THEOREM SegmentRegistersUsable == Spec => []SelectorsUsable
<1>1. BootInv => SelectorsUsable
  BY Selectors DEF BootInv
<1> QED BY <1>1, Boot_Inv, PTL

\* Wherever the stubs are linked and whatever gates are added in InitIdt, an interrupt
\* enters the kernel's code segment at the address set for its vector, enabled.
THEOREM InterruptsReachTheirStub == Spec => []InterruptRunsItsStub
<1>1. BootInv => InterruptRunsItsStub
  BY Interrupts DEF BootInv
<1> QED BY <1>1, Boot_Inv, PTL
=============================================================================
