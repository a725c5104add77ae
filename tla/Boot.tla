-------------------------------- MODULE Boot --------------------------------
(***************************************************************************)
(* From the multiboot loader's jump to a kernel that takes interrupts: the *)
(* loader, then the tables kernel_main sets up once the loader calls it.   *)
(* The processor goes on keeping translations meanwhile.                   *)
(***************************************************************************)
EXTENDS Loader, DescriptorTables

vars == <<loaderVars, tablesVars>>

Init == LoaderInit /\ TablesInit

\* The loader has called kernel_main.
KernelMain ==
  /\ instr = "kernel_main"
  /\ TablesNext
  /\ UNCHANGED loaderVars

Next == (LoaderNext /\ UNCHANGED tablesVars) \/ KernelMain

Spec == Init /\ [][Next]_vars
=============================================================================
