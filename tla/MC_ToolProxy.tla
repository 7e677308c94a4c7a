---------------------------- MODULE MC_ToolProxy ----------------------------
(* Small instances of ToolProxy for TLC.  Processes are interchangeable;   *)
(* the store carries no state values, which the proxy never reads.         *)
EXTENDS ToolProxy, TLC

ProcSymmetry == Permutations(Procs)
=============================================================================
