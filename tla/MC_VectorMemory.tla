-------------------------- MODULE MC_VectorMemory --------------------------
(* A small instance of VectorMemory for TLC: the store has no values and   *)
(* no effects, which memory never reads.                                   *)
EXTENDS VectorMemory
=============================================================================
