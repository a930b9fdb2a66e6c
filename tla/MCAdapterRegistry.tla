-------------------------- MODULE MCAdapterRegistry --------------------------
(* An adapter of two layers, the first of which stands for two tensors; the   *)
(* files of different adapters do not meet.                                   *)
EXTENDS AdapterRegistry, TLC

MCLayers == [a \in Adapter |-> {"q_proj", "layers.1.wv"}]
MCPaths == [l \in {"q_proj", "layers.1.wv"} |-> IF l = "q_proj" THEN {1, 3} ELSE {2}]
Procs == Permutations(Proc)
=============================================================================
