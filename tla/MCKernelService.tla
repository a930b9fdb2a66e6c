--------------------------- MODULE MCKernelService ---------------------------
(* KernelService on two clients and a few adapters: one merges, others match *)
(* no tensor, are refused, or make the tensor library panic.                *)
EXTENDS KernelService, TLC
==============================================================================
