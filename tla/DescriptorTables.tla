-------------------------- MODULE DescriptorTables --------------------------
(***************************************************************************)
(* The GDT and the IDT: how SetGate packs a descriptor, what InitGdt and   *)
(* InitIdt of kernel_main put into the tables, and what the processor gets *)
(* out of them when it loads a selector or takes an interrupt:             *)
(*   include/GlobalDescriptorTable/GlobalDescriptorTable.h, FlushGDT.nasm  *)
(*   InterruptDescriptorTable.{h,cc}, FlushIDT.nasm, kernel/kmain.cc       *)
(* A word is the set of its bits that are 1.                               *)
(***************************************************************************)
EXTENDS Integers, Sequences

CONSTANTS
  kMaxIdtEntries,   \* 256
  Links,            \* the addresses the stubs may be linked at: vector -> word
  ExtraGates,       \* <<vector, address>> a developer may add in InitIdt
  OtherSegments     \* segments a later caller may set up in entry 4

kIsrs == 0 .. 31
kIrqs == 32 .. 47
Stubs == kIsrs \cup kIrqs
Word == SUBSET (0 .. 31)
Vectors == 0 .. (kMaxIdtEntries - 1)

\* The arguments of the GDT's SetGate: two uint32_t and two uint8_t.
SegmentArgs == [base : Word, limit : Word, access : SUBSET (0 .. 7),
                granularity : SUBSET (0 .. 7)]

ASSUME TablesAssumption ==
  /\ kMaxIdtEntries \in Nat
  /\ Stubs \subseteq Vectors
  /\ \A l \in Links : l \in [Stubs -> Word]
  /\ ExtraGates \subseteq (Vectors \ Stubs) \X Word
  /\ OtherSegments \subseteq SegmentArgs

VARIABLES
  pc,         \* where kernel_main is
  next,       \* the next entry of the table it fills
  gdt,        \* gdt_entries_
  asked,      \* what SetGate was last given for each entry of the GDT
  segs,       \* the selectors in the segment registers; those of the loader are 0
  link,       \* the addresses of the stubs
  added,      \* the gates added in InitIdt
  idt,        \* idt_entries_
  enabled,    \* enabled_vectors_
  taken       \* the last interrupt taken: its vector, code segment and address

gdtVars == <<gdt, asked, segs>>
idtVars == <<link, added, idt, enabled>>
tablesVars == <<pc, next, gdtVars, idtVars, taken>>

-----------------------------------------------------------------------------
(***************************************************************************)
(* Descriptors.                                                            *)
(***************************************************************************)

\* (w >> lo) & mask
Field(w, lo, hi) == {b - lo : b \in {c \in w : c \in lo .. hi}}

\* Mutant: the flags overwrite the high bits of the limit.
GdtEntryFlagsOnly(s) ==
  [base_low |-> Field(s.base, 0, 15), base_middle |-> Field(s.base, 16, 23),
   base_high |-> Field(s.base, 24, 31), limit_low |-> Field(s.limit, 0, 15),
   granularity |-> s.granularity \cap 4 .. 7, access |-> s.access]
\* GlobalDescriptorTable::SetGate
GdtEntry(s) ==
  [base_low |-> Field(s.base, 0, 15), base_middle |-> Field(s.base, 16, 23),
   base_high |-> Field(s.base, 24, 31), limit_low |-> Field(s.limit, 0, 15),
   granularity |-> Field(s.limit, 16, 19) \cup (s.granularity \cap 4 .. 7),
   access |-> s.access]

Segment(base, limit, access, granularity) ==
  [base |-> base, limit |-> limit, access |-> access, granularity |-> granularity]

\* The calls of InitGdt.
Flat == 0 .. 31
InitGdtSegments ==
  << Segment({}, {}, {}, {}),
     Segment({}, Flat, {1, 3, 4, 7}, {0, 1, 2, 3, 6, 7}),
     Segment({}, Flat, {1, 4, 7}, {0, 1, 2, 3, 6, 7}),
     Segment({}, Flat, {1, 3, 4, 5, 6, 7}, {0, 1, 2, 3, 6, 7}),
     Segment({}, Flat, {1, 4, 5, 6, 7}, {0, 1, 2, 3, 6, 7}) >>

kCodeSelector == 8
\* Mutant: the data selector names the code segment.
kDataSelectorCode == 8
kDataSelector == 16

\* Mutant: the halves of the address are swapped.
IdtEntrySwapped(isr) ==
  [isr_low |-> Field(isr, 16, 31), cs |-> kCodeSelector, reserved |-> {},
   attributes |-> {1, 2, 3, 7}, isr_high |-> Field(isr, 0, 15)]
\* InterruptDescriptorTable::SetGate, with its default selector and flags (0x8E).
IdtEntry(isr) ==
  [isr_low |-> Field(isr, 0, 15), cs |-> kCodeSelector, reserved |-> {},
   attributes |-> {1, 2, 3, 7}, isr_high |-> Field(isr, 16, 31)]

ZeroEntry ==
  [isr_low |-> {}, cs |-> 0, reserved |-> {}, attributes |-> {}, isr_high |-> {}]

-----------------------------------------------------------------------------
(***************************************************************************)
(* What the processor reads.                                               *)
(***************************************************************************)
Shift(w, n) == {b + n : b \in w}

DecodedSegment(e) ==
  [base |-> e.base_low \cup Shift(e.base_middle, 16) \cup Shift(e.base_high, 24),
   limit |-> e.limit_low \cup Shift(e.granularity \cap 0 .. 3, 16),
   flags |-> e.granularity \cap 4 .. 7,
   access |-> e.access]

GateAddress(g) == g.isr_low \cup Shift(g.isr_high, 16)
Present(bits) == 7 \in bits

\* A selector names a present segment of ring 0 that covers all of memory.
Descriptor(selector) == DecodedSegment(gdt[(selector \div 8) + 1])
Usable(selector) ==
  /\ selector \div 8 \in 1 .. (Len(gdt) - 1)
  /\ LET d == Descriptor(selector)
     IN  /\ Present(d.access) /\ 4 \in d.access /\ d.access \cap {5, 6} = {}
         /\ d.base = {} /\ d.limit = 0 .. 19 /\ 7 \in d.flags
IsCode(selector) == 3 \in Descriptor(selector).access
IsWritable(selector) == ~IsCode(selector) /\ 1 \in Descriptor(selector).access

-----------------------------------------------------------------------------
(***************************************************************************)
(* kernel_main.                                                            *)
(***************************************************************************)
NotTaken == [vector |-> -1, cs |-> 0, eip |-> {}]

\* The tables are static: zero before anything is stored in them.
TablesInit ==
  /\ pc = "gdt"
  /\ next = 0
  /\ gdt = [i \in 1 .. 5 |-> GdtEntry(Segment({}, {}, {}, {}))]
  /\ asked = [i \in 1 .. 5 |-> Segment({}, {}, {}, {})]
  /\ segs = [cs |-> 0, ds |-> 0, es |-> 0, fs |-> 0, gs |-> 0, ss |-> 0]
  /\ link \in Links
  /\ added \in SUBSET ExtraGates
  /\ idt = [v \in Vectors |-> ZeroEntry]
  /\ enabled = {}
  /\ taken = NotTaken

SetSegment(i, s) ==
  /\ gdt' = [gdt EXCEPT ![i] = GdtEntry(s)]
  /\ asked' = [asked EXCEPT ![i] = s]

\* One SetGate of InitGdt.
InitGdt ==
  /\ pc = "gdt"
  /\ SetSegment(next + 1, InitGdtSegments[next + 1])
  /\ next' = IF next = 4 THEN 0 ELSE next + 1
  /\ pc' = IF next = 4 THEN "flush data" ELSE "gdt"
  /\ UNCHANGED <<segs, idtVars, taken>>

\* flush_gdt: lgdt and the data segments, then the far jump.
FlushGdt ==
  \/ /\ pc = "flush data"
     /\ segs' = [r \in DOMAIN segs |-> IF r = "cs" THEN segs.cs ELSE kDataSelector]
     /\ pc' = "flush code"
     /\ UNCHANGED <<next, gdt, asked, idtVars, taken>>
  \/ /\ pc = "flush code"
     /\ segs' = [segs EXCEPT !.cs = kCodeSelector]
     /\ pc' = "idt"
     /\ UNCHANGED <<next, gdt, asked, idtVars, taken>>

SetGate(v, isr) ==
  /\ idt' = [idt EXCEPT ![v] = IdtEntry(isr)]
  /\ enabled' = enabled \cup {v}

\* One SetGate of the constructor.
RegisterStub ==
  /\ pc = "idt"
  /\ SetGate(next, link[next])
  /\ next' = next + 1
  /\ pc' = IF next = 47 THEN "disable" ELSE "idt"
  /\ UNCHANGED <<gdtVars, link, added, taken>>

\* The loop of the constructor starts behind the IRQs.
DisabledFrom == 48

DisableOthers ==
  /\ pc = "disable"
  /\ enabled' = enabled \ {v \in Vectors : v >= DisabledFrom}
  /\ pc' = "add"
  /\ UNCHANGED <<next, gdtVars, link, added, idt, taken>>

\* The gates a developer adds in InitIdt, then FlushIdt and sti.
InitIdt ==
  /\ pc = "add"
  /\ IF added = {}
     THEN pc' = "up" /\ UNCHANGED <<added, idt, enabled>>
     ELSE \E g \in added :
            /\ SetGate(g[1], g[2])
            /\ added' = added \ {g}
            /\ UNCHANGED pc
  /\ UNCHANGED <<next, gdtVars, link, taken>>

\* A later caller of the GDT's SetGate.
SetOtherSegment ==
  /\ pc = "up"
  /\ \E s \in OtherSegments : SetSegment(5, s)
  /\ UNCHANGED <<pc, next, segs, idtVars, taken>>

\* The processor takes an interrupt or an exception; after an exception the kernel
\* halts.
TakeInterrupt ==
  /\ pc = "up"
  /\ taken.vector \notin kIsrs
  /\ \E v \in Vectors :
       /\ Present(idt[v].attributes)
       /\ taken' = [vector |-> v, cs |-> idt[v].cs, eip |-> GateAddress(idt[v])]
  /\ UNCHANGED <<pc, next, gdtVars, idtVars>>

TablesNext ==
  \/ InitGdt \/ FlushGdt \/ RegisterStub \/ DisableOthers \/ InitIdt
  \/ SetOtherSegment \/ TakeInterrupt

-----------------------------------------------------------------------------
(***************************************************************************)
(* Properties.                                                             *)
(***************************************************************************)

\* The processor finds in each descriptor the base, the 20-bit limit, the flags and
\* the access byte SetGate was given, none of them lost in the packing.
SegmentsAsAsked ==
  \A i \in 1 .. 5 :
    DecodedSegment(gdt[i]) =
      [base |-> asked[i].base, limit |-> asked[i].limit \cap 0 .. 19,
       flags |-> asked[i].granularity \cap 4 .. 7, access |-> asked[i].access]

\* A selector in a segment register names a usable segment of the right kind, for as
\* long as the kernel runs, whatever is set up in the other entries.
SelectorsUsable ==
  \A r \in DOMAIN segs :
    segs[r] # 0 => /\ Usable(segs[r])
                   /\ IF r = "cs" THEN IsCode(segs[r]) ELSE IsWritable(segs[r])

\* An interrupt runs its own stub, in the kernel's code segment, and comes through
\* a gate of which IsEnabled is true.
InterruptRunsItsStub ==
  taken # NotTaken =>
    /\ taken.vector \in enabled
    /\ Usable(taken.cs) /\ IsCode(taken.cs)
    /\ IF taken.vector \in Stubs THEN taken.eip = link[taken.vector]
       ELSE <<taken.vector, taken.eip>> \in ExtraGates
=============================================================================
