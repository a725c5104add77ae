------------------------------- MODULE Loader -------------------------------
(***************************************************************************)
(* The loader: from the multiboot loader's jump with paging off to the     *)
(* call of kernel_main in the higher half:                                 *)
(*   kernel/loader.nasm, kernel/link.ld, kernel/kmain.cc                   *)
(* An address is a number; a page of PageSize addresses is one 4MB page.   *)
(* The processor may keep the translation of a page in its TLB whenever    *)
(* the page is mapped, and uses it until it is invalidated.                *)
(***************************************************************************)
EXTENDS Integers, Sequences, SequencesExt

CONSTANTS
  PageSize,           \* addresses of a 4MB page
  NumPages,           \* pages of the address space: 1024
  KERNEL_PAGE_NUMBER, \* 768
  loader,             \* the physical address of the loader's code
  Ends,               \* where the image may end, physically
  Infos,              \* where the multiboot information may be, physically
  VGA,                \* the physical address of the screen
  magic               \* eax as the multiboot loader leaves it

ASSUME LoaderAssumption ==
  /\ PageSize \in Nat \ {0}
  /\ NumPages \in Nat
  /\ KERNEL_PAGE_NUMBER \in 1 .. (NumPages - 1)
  /\ Ends \subseteq (loader + 1) .. (PageSize - 1)
  /\ Infos \subseteq 0 .. (PageSize - 1)
  /\ {loader, VGA} \subseteq 0 .. (PageSize - 1)

VARIABLES
  end,        \* _kernel_physical_end
  info,       \* ebx as the multiboot loader leaves it
  instr,      \* the next instruction
  eip,        \* its address is that of the loader's code, or the code's virtual one
  cr3,        \* CR3 holds the page directory
  pse,        \* PSE of CR4
  pg,         \* PG of CR0
  directory,  \* BootPageDirectory: page -> the frame it is mapped to, or none
  tlb,        \* the pages whose translation the processor keeps, with the frame
  stack       \* the words pushed, the last one on top

loaderVars == <<end, info, instr, eip, cr3, pse, pg, directory, tlb, stack>>

-----------------------------------------------------------------------------
Pages == 0 .. (NumPages - 1)
none == -1
KERNEL_VIRTUAL_BASE == KERNEL_PAGE_NUMBER * PageSize

\* 32-bit addition.
Virtual(a) == (a + KERNEL_VIRTUAL_BASE) % (NumPages * PageSize)

\* Mutant: the identity map is left out.
BootPageDirectoryHigh == [p \in Pages |-> IF p = KERNEL_PAGE_NUMBER THEN 0 ELSE none]
\* Entries 0 and KERNEL_PAGE_NUMBER map the first 4MB, PS set.
BootPageDirectory == [p \in Pages |-> IF p \in {0, KERNEL_PAGE_NUMBER} THEN 0 ELSE none]

\* The frame of page p: without PSE a 4MB entry maps nothing that was meant.
Walk(p) == IF cr3 /\ pse THEN directory[p] ELSE none
Frame(p) == IF p \in DOMAIN tlb THEN tlb[p] ELSE Walk(p)

\* Where the access of address a goes, none if it faults.
Translate(a) ==
  IF ~pg THEN a
  ELSE IF Frame(a \div PageSize) = none THEN none
  ELSE Frame(a \div PageSize) * PageSize + (a % PageSize)

\* Mutant: the two ends of the image are swapped.
ArgumentsSwapped ==
  <<Virtual(info), magic, KERNEL_VIRTUAL_BASE, Virtual(loader), Virtual(end), end, loader>>
\* What the loader pushes, in its order.  The image starts with the loader.
Arguments ==
  <<Virtual(info), magic, KERNEL_VIRTUAL_BASE, Virtual(end), Virtual(loader), end, loader>>

LoaderInit ==
  /\ end \in Ends
  /\ info \in Infos
  /\ instr = "cr3"
  /\ eip = loader
  /\ cr3 = FALSE
  /\ pse = FALSE
  /\ pg = FALSE
  /\ directory = BootPageDirectory
  /\ tlb = <<>>
  /\ stack = <<>>

\* Mutant: no invlpg.
AfterNoInvlpg == [cr3 |-> "pse", pse |-> "pg", pg |-> "jump", jump |-> "unmap",
                  unmap |-> "esp", esp |-> "push"]
\* The order of the instructions.
After == [cr3 |-> "pse", pse |-> "pg", pg |-> "jump", jump |-> "unmap",
          unmap |-> "invlpg", invlpg |-> "esp", esp |-> "push"]

\* The instruction at instr is fetched and executed.
Execute(i) ==
  /\ instr = i
  /\ Translate(eip) = loader
  /\ instr' = After[i]
  /\ UNCHANGED <<end, info>>

LoadDirectory ==
  /\ Execute("cr3")
  /\ cr3' = TRUE
  /\ UNCHANGED <<eip, pse, pg, directory, tlb, stack>>

EnablePse ==
  /\ Execute("pse")
  /\ pse' = TRUE
  /\ UNCHANGED <<eip, cr3, pg, directory, tlb, stack>>

EnablePaging ==
  /\ Execute("pg")
  /\ pg' = TRUE
  /\ UNCHANGED <<eip, cr3, pse, directory, tlb, stack>>

\* StartInHigherHalf is linked to its virtual address.
JumpHigh ==
  /\ Execute("jump")
  /\ eip' = Virtual(loader)
  /\ UNCHANGED <<cr3, pse, pg, directory, tlb, stack>>

\* The directory is in the image, reached by its virtual address.
UnmapIdentity ==
  /\ Execute("unmap")
  /\ Translate(Virtual(loader)) # none
  /\ directory' = [directory EXCEPT ![0] = none]
  /\ UNCHANGED <<eip, cr3, pse, pg, tlb, stack>>

Invlpg ==
  /\ Execute("invlpg")
  /\ tlb' = [p \in DOMAIN tlb \ {0} |-> tlb[p]]
  /\ UNCHANGED <<eip, cr3, pse, pg, directory, stack>>

\* The stack is the last thing in the image.
SetStack ==
  /\ Execute("esp")
  /\ stack' = <<>>
  /\ UNCHANGED <<eip, cr3, pse, pg, directory, tlb>>

\* The pushes, and the call behind the last of them.
PushArgument ==
  /\ instr = "push"
  /\ Translate(eip) = loader
  /\ Translate(Virtual(end - 1)) # none
  /\ stack' = Append(stack, Arguments[Len(stack) + 1])
  /\ instr' = IF Len(stack') = Len(Arguments) THEN "kernel_main" ELSE "push"
  /\ UNCHANGED <<end, info, eip, cr3, pse, pg, directory, tlb>>

\* The processor keeps a translation.
CacheTranslation ==
  /\ pg
  /\ \E p \in Pages \ DOMAIN tlb :
       /\ Walk(p) # none
       /\ tlb' = [q \in DOMAIN tlb \cup {p} |-> Frame(q)]
  /\ UNCHANGED <<end, info, instr, eip, cr3, pse, pg, directory, stack>>

LoaderNext ==
  \/ LoadDirectory \/ EnablePse \/ EnablePaging \/ JumpHigh \/ UnmapIdentity
  \/ Invlpg \/ SetStack \/ PushArgument \/ CacheTranslation

-----------------------------------------------------------------------------
(***************************************************************************)
(* Properties.                                                             *)
(***************************************************************************)

\* Every instruction is fetched from the loader's code, whatever the TLB keeps: in
\* particular the one behind the enabling of paging and the one behind the unmapping.
InstructionsFetched == Translate(eip) = loader

\* Parameter k of kernel_main, cdecl.
Parameter(k) == stack[Len(stack) + 1 - k]

\* kernel_main's parameters are those its declaration names, in that order, and the
\* multiboot information is where mboot_header points.
ParametersInOrder ==
  instr = "kernel_main" =>
    /\ Parameter(1) = loader                  \* kernel_physical_start
    /\ Parameter(2) = end                      \* kernel_physical_end
    /\ Translate(Parameter(3)) = Parameter(1)  \* kernel_virtual_start
    /\ Translate(Parameter(4)) = Parameter(2)  \* kernel_virtual_end
    /\ Parameter(3) - Parameter(5) = Parameter(1)
    /\ Parameter(6) = magic
    /\ Translate(Parameter(7)) = info

\* In kernel_main the screen and the whole image are mapped, and no address below
\* the kernel is: a null pointer faults, also when the processor has kept the
\* identity map.
LowHalfUnmapped ==
  instr = "kernel_main" =>
    /\ \A a \in {VGA} \cup loader .. end : Translate(Virtual(a)) = a
    /\ \A a \in 0 .. (KERNEL_VIRTUAL_BASE - 1) : Translate(a) = none
=============================================================================
