--------------------------- MODULE MC_Storyboard ---------------------------
(* Small instances of Storyboard for TLC.  The script has two steps on     *)
(* each side, and like the script of demo.py it stages a message on the    *)
(* poisoned branch and one on the recovery before its last step.           *)
EXTENDS Storyboard

ShortScript ==
    [poisoned |-> << [memory |-> TRUE,  message |-> FALSE],
                     [memory |-> FALSE, message |-> TRUE] >>,
     recovery |-> << [memory |-> FALSE, message |-> TRUE],
                     [memory |-> FALSE, message |-> FALSE] >>]
=============================================================================
