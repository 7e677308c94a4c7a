--------------------------- MODULE MC_Dashboard ---------------------------
(* Small instances of Dashboard for TLC: one run, without cells.           *)
EXTENDS Dashboard
=============================================================================
