---------------------------- MODULE MC_Database ----------------------------
(* Small instances of Database for TLC.                                    *)
EXTENDS Database, TLC

ThreadSymmetry == Permutations(Threads)
=============================================================================
