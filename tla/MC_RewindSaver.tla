-------------------------- MODULE MC_RewindSaver --------------------------
(* Small instances of RewindSaver for TLC.                                 *)
EXTENDS RewindSaver, TLC

AgentSymmetry == Permutations(Agents)
=============================================================================
