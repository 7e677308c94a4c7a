-------------------------- MODULE MC_RewindStore --------------------------
(* Small instances of RewindStore for TLC.  The bounds on rows are set in  *)
(* each configuration; contents are interchangeable.                       *)
EXTENDS RewindStore, TLC

ContentSymmetry == Permutations(Contents)
=============================================================================
