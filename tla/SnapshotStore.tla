--------------------------- MODULE SnapshotStore ---------------------------
(***************************************************************************)
(* What the versioned core promises its callers, without lineages: a store *)
(* of whole snapshots.  A snapshot never changes once it is taken; a       *)
(* branch is a pointer to one snapshot of its run; a commit on a live      *)
(* branch takes the snapshot the branch points at, overlays what the       *)
(* commit writes and moves the pointer; a fork retires one branch and      *)
(* starts another at any snapshot of the same run.                         *)
(*                                                                         *)
(* RewindStore keeps the deltas only, replays them along a lineage on      *)
(* every read, and implements this specification.                          *)
(***************************************************************************)
EXTENDS Naturals, Sequences

CONSTANTS
    Cells,      \* the names a snapshot gives a value to
    Contents,   \* the values a cell may hold
    Unwritten,  \* a commit leaves this cell as it was
    Tombstone,  \* a commit removes this cell
    Absent      \* the value of a cell that does not exist

VARIABLES
    snaps,      \* Seq of [run, delta, cells]; snaps[i] is the i-th snapshot
    heads,      \* Seq of [run, snap]; heads[b].snap is where branch b points
    live,       \* the branches that accept commits
    owners      \* the number of runs

vars == <<snaps, heads, live, owners>>

Snapshots == [Cells -> Contents \cup {Absent}]
Deltas == [Cells -> Contents \cup {Unwritten, Tombstone}]

Overlay(old, delta) ==
    [x \in Cells |-> CASE delta[x] = Unwritten -> old[x]
                       [] delta[x] = Tombstone -> Absent
                       [] OTHER -> delta[x]]

Init ==
    /\ snaps = <<>>
    /\ heads = <<>>
    /\ live = {}
    /\ owners = 0

(* A new run starts with an empty snapshot and one branch pointing at it.  *)
NewRun ==
    /\ owners' = owners + 1
    /\ snaps' = Append(snaps, [run |-> owners + 1,
                               delta |-> [x \in Cells |-> Unwritten],
                               cells |-> [x \in Cells |-> Absent]])
    /\ heads' = Append(heads, [run |-> owners + 1, snap |-> Len(snaps) + 1])
    /\ live' = live \cup {Len(heads) + 1}

(* Only a live branch takes a commit, and only its pointer moves.          *)
Commit(b, delta) ==
    /\ b \in live
    /\ snaps' = Append(snaps, [run |-> heads[b].run,
                               delta |-> delta,
                               cells |-> Overlay(snaps[heads[b].snap].cells, delta)])
    /\ heads' = [heads EXCEPT ![b].snap = Len(snaps) + 1]
    /\ UNCHANGED <<live, owners>>

(* Branch b stops accepting commits; a new branch starts at snapshot c.    *)
Fork(b, c) ==
    /\ snaps[c].run = heads[b].run
    /\ heads' = Append(heads, [run |-> heads[b].run, snap |-> c])
    /\ live' = (live \ {b}) \cup {Len(heads) + 1}
    /\ UNCHANGED <<snaps, owners>>

Next ==
    \/ NewRun
    \/ \E b \in 1 .. Len(heads), delta \in Deltas : Commit(b, delta)
    \/ \E b \in 1 .. Len(heads), c \in 1 .. Len(snaps) : Fork(b, c)

Spec == Init /\ [][Next]_vars
=============================================================================
