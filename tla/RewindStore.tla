---------------------------- MODULE RewindStore ----------------------------
(***************************************************************************)
(* The versioned core of Rewind (src/src/rewind/store.py): runs, branches, *)
(* checkpoints, the append-only deltas of the key/value state and of the   *)
(* virtual files, and the rows of staged side effects.                     *)
(*                                                                         *)
(* A table is a sequence of rows in insertion order and a row's index is   *)
(* its id, so "ORDER BY created_at" is the order of the ids; NULL is 0,    *)
(* an id no row has.  Names, labels and payloads are left out: no guard    *)
(* reads them.  Every transaction of the source is one action; a method    *)
(* that raises changes nothing and is the absence of a step.               *)
(*                                                                         *)
(* branches[b].of is history, for the properties: the branch whose rewind  *)
(* made b.  rewind returns it as abandoned_branch, but no row keeps it.    *)
(***************************************************************************)
EXTENDS Naturals, Sequences

CONSTANTS
    Keys,           \* keys of the agent's state
    Paths,          \* paths of the virtual file system
    Contents,       \* values of keys and contents of files
    EffectKeys,     \* idempotency keys
    NoKey,          \* idempotency_key = NULL
    Unwritten,      \* no row for this cell at this checkpoint
    Tombstone,      \* a row with tombstone = 1
    Absent,         \* the resolved value of a cell that does not exist
    MaxRuns,        \* bounds on the number of rows of each table
    MaxBranches,
    MaxCheckpoints,
    MaxEffects

ASSUME DistinctMarkers ==
    /\ Unwritten \notin Contents \cup {Tombstone}
    /\ Tombstone \notin Contents
    /\ Absent \notin Contents
    /\ NoKey \notin EffectKeys

ASSUME DisjointCells == Keys \cap Paths = {}

ASSUME BoundsAreNumbers == {MaxRuns, MaxBranches, MaxCheckpoints, MaxEffects} \subseteq Nat

VARIABLES
    runs,           \* the number of runs
    branches,       \* Seq of [run, status, head, fork, of]
    checkpoints,    \* Seq of [run, branch, parent, step]
    state_kv,       \* state_kv[c][k]: what checkpoint c wrote at key k
    vfs_objects,    \* vfs_objects[c][p]: what checkpoint c wrote at path p
    staged_effects  \* Seq of [branch, checkpoint, mode, key, status]

history == <<runs, branches, checkpoints, state_kv, vfs_objects>>
storeVars == <<runs, branches, checkpoints, state_kv, vfs_objects, staged_effects>>

NULL == 0
CheckpointIds == 1 .. Len(checkpoints)
BranchIds == 1 .. Len(branches)
EffectIds == 1 .. Len(staged_effects)

Rows(X) == [X -> Contents \cup {Unwritten, Tombstone}]

Effects ==
    [branch : BranchIds, checkpoint : CheckpointIds,
     mode : {"staged", "idempotent", "dry_run"},
     key : EffectKeys \cup {NoKey},
     status : {"staged", "committed", "discarded"}]

TypeOK ==
    /\ runs \in Nat
    /\ branches \in Seq([run : 1 .. runs, status : {"active", "abandoned"},
                         head : CheckpointIds, fork : CheckpointIds \cup {NULL},
                         of : Nat])
    /\ checkpoints \in Seq([run : 1 .. runs, branch : BranchIds,
                            parent : CheckpointIds \cup {NULL}, step : Nat])
    /\ state_kv \in Seq(Rows(Keys)) /\ Len(state_kv) = Len(checkpoints)
    /\ vfs_objects \in Seq(Rows(Paths)) /\ Len(vfs_objects) = Len(checkpoints)
    /\ staged_effects \in Seq(Effects)

-----------------------------------------------------------------------------
(* Reads.                                                                  *)

(* lineage(c), as the set of ids on the ancestor chain from genesis to c.  *)
(* The chain's order is the order of step_index, so a set is enough.       *)
lineage[c \in CheckpointIds] ==
    {c} \cup (IF checkpoints[c].parent = NULL THEN {}
              ELSE lineage[checkpoints[c].parent])

(* The rows a table holds for cell x along the lineage of c.               *)
Writers(table, c, x) == {d \in lineage[c] : table[d][x] # Unwritten}

(* The replay of the rows in chain order: the last one decides.            *)
Replay(table, c, x) ==
    LET last == CHOOSE d \in Writers(table, c, x) :
                  \A e \in Writers(table, c, x) : checkpoints[e].step <= checkpoints[d].step
    IN  IF Writers(table, c, x) = {} \/ table[last][x] = Tombstone
        THEN Absent ELSE table[last][x]

get_state(c) == [k \in Keys |-> Replay(state_kv, c, k)]
resolve_files(c) == [p \in Paths |-> Replay(vfs_objects, c, p)]

Active(b) == branches[b].status = "active"
RunOf(c) == checkpoints[c].run
RunOfEffect(e) == branches[staged_effects[e].branch].run

(* Every head the branch has ever had: its fork point and its own          *)
(* checkpoints.  A caller that read the head some time ago holds one.      *)
PastHeads(b) ==
    {c \in CheckpointIds : c = branches[b].fork \/ checkpoints[c].branch = b}

(* Mutant: whatever is not committed is still to be flushed.               *)
StagedOn_NotCommitted(head) ==
    {e \in EffectIds : /\ staged_effects[e].status # "committed"
                       /\ staged_effects[e].checkpoint \in lineage[head]}

(* ToolProxy.pending: staged effects on the lineage of a head.             *)
StagedOn(head) ==
    {e \in EffectIds : /\ staged_effects[e].status = "staged"
                       /\ staged_effects[e].checkpoint \in lineage[head]}
pending(b) == StagedOn(branches[b].head)

-----------------------------------------------------------------------------
(* Transactions.                                                           *)

InsertCheckpoint(run, branch, parent, step, kv, files) ==
    /\ Len(checkpoints) < MaxCheckpoints
    /\ checkpoints' = Append(checkpoints,
           [run |-> run, branch |-> branch, parent |-> parent, step |-> step])
    /\ state_kv' = Append(state_kv, kv)
    /\ vfs_objects' = Append(vfs_objects, files)

InsertBranch(row, old) ==
    /\ Len(branches) < MaxBranches
    /\ branches' = Append(old, row)

NoRows(X) == [x \in X |-> Unwritten]

(* Mutant: the last UPDATE of create_run is forgotten.                     *)
create_run_HeadUnset ==
    /\ runs < MaxRuns
    /\ runs' = runs + 1
    /\ InsertBranch([run |-> runs + 1, status |-> "active",
                     head |-> NULL, fork |-> NULL, of |-> NULL], branches)
    /\ InsertCheckpoint(runs + 1, Len(branches) + 1, NULL, 0, NoRows(Keys), NoRows(Paths))
    /\ UNCHANGED staged_effects

create_run ==
    /\ runs < MaxRuns
    /\ runs' = runs + 1
    /\ InsertBranch([run |-> runs + 1, status |-> "active",
                     head |-> Len(checkpoints) + 1, fork |-> NULL, of |-> NULL], branches)
    /\ InsertCheckpoint(runs + 1, Len(branches) + 1, NULL, 0, NoRows(Keys), NoRows(Paths))
    /\ UNCHANGED staged_effects

(* The rows of one checkpoint as a reader replays them.  updates[k] is the *)
(* new value or Unwritten.  A key both updated and deleted has two rows,   *)
(* and the reader's query has no ORDER BY among the rows of a checkpoint:  *)
(* SQLite returns them in insertion order, CockroachDB by random id, so    *)
(* either may be the last.                                                 *)
KvRows(updates, deletes) ==
    {rows \in Rows(Keys) : \A k \in Keys :
        IF k \in deletes
        THEN rows[k] = Tombstone \/ (rows[k] = updates[k] /\ updates[k] # Unwritten)
        ELSE rows[k] = updates[k]}

(* Mutants: the step index counts from the fork point; the parent is the   *)
(* fork point; an abandoned branch still takes commits.                    *)
create_checkpoint_StepFromFork(b, kv, files, expected) ==
    LET parent == branches[b].head
        base == IF branches[b].fork = NULL THEN parent ELSE branches[b].fork
    IN  /\ Active(b)
        /\ expected = NULL \/ parent = expected
        /\ InsertCheckpoint(branches[b].run, b, parent, checkpoints[base].step + 1, kv, files)
        /\ branches' = [branches EXCEPT ![b].head = Len(checkpoints) + 1]
        /\ UNCHANGED <<runs, staged_effects>>

create_checkpoint_ParentIsFork(b, kv, files, expected) ==
    LET parent == IF branches[b].fork = NULL THEN branches[b].head ELSE branches[b].fork
    IN  /\ Active(b)
        /\ expected = NULL \/ parent = expected
        /\ InsertCheckpoint(branches[b].run, b, parent, checkpoints[parent].step + 1, kv, files)
        /\ branches' = [branches EXCEPT ![b].head = Len(checkpoints) + 1]
        /\ UNCHANGED <<runs, staged_effects>>

create_checkpoint_AnyStatus(b, kv, files, expected) ==
    LET parent == branches[b].head
    IN  /\ expected = NULL \/ parent = expected
        /\ InsertCheckpoint(branches[b].run, b, parent, checkpoints[parent].step + 1, kv, files)
        /\ branches' = [branches EXCEPT ![b].head = Len(checkpoints) + 1]
        /\ UNCHANGED <<runs, staged_effects>>

(* One step of the agent.  expected is the head the caller decided from,   *)
(* or NULL for a caller that does not ask.                                 *)
create_checkpoint(b, kv, files, expected) ==
    LET parent == branches[b].head
    IN  /\ Active(b)
        /\ expected = NULL \/ parent = expected
        /\ InsertCheckpoint(branches[b].run, b, parent, checkpoints[parent].step + 1,
                            kv, files)
        /\ branches' = [branches EXCEPT ![b].head = Len(checkpoints) + 1]
        /\ UNCHANGED <<runs, staged_effects>>

(* Mutants: the rewind point itself is not kept; the branch is not tested. *)
Discarded_TargetToo(b, target) ==
    {e \in EffectIds : /\ RunOfEffect(e) = branches[b].run
                       /\ staged_effects[e].status = "staged"
                       /\ staged_effects[e].branch = b
                       /\ staged_effects[e].checkpoint \notin lineage[target] \ {target}}

Discarded_AnyBranch(b, target) ==
    {e \in EffectIds : /\ RunOfEffect(e) = branches[b].run
                       /\ staged_effects[e].status = "staged"
                       /\ staged_effects[e].checkpoint \notin lineage[target]}

(* The staged effects of branch b that its rewind to target discards.      *)
Discarded(b, target) ==
    {e \in EffectIds : /\ RunOfEffect(e) = branches[b].run
                       /\ staged_effects[e].status = "staged"
                       /\ staged_effects[e].branch = b
                       /\ staged_effects[e].checkpoint \notin lineage[target]}

(* Mutant: the UPDATE that abandons runs last and matches the whole run.   *)
rewind_AbandonsRun(b, target) ==
    /\ RunOf(target) = branches[b].run
    /\ InsertBranch([run |-> branches[b].run, status |-> "abandoned",
                     head |-> target, fork |-> target, of |-> b],
                    [c \in BranchIds |->
                        IF branches[c].run = branches[b].run
                        THEN [branches[c] EXCEPT !.status = "abandoned"] ELSE branches[c]])
    /\ UNCHANGED <<runs, checkpoints, state_kv, vfs_objects, staged_effects>>

rewind(b, target) ==
    /\ RunOf(target) = branches[b].run
    /\ staged_effects' = [e \in EffectIds |->
           IF e \in Discarded(b, target)
           THEN [staged_effects[e] EXCEPT !.status = "discarded"]
           ELSE staged_effects[e]]
    /\ InsertBranch([run |-> branches[b].run, status |-> "active",
                     head |-> target, fork |-> target, of |-> b],
                    [branches EXCEPT ![b].status = "abandoned"])
    /\ UNCHANGED <<runs, checkpoints, state_kv, vfs_objects>>

(* get_branch and INSERT are two statements outside any transaction: the   *)
(* row names the head c the caller read, however old, and the branch may   *)
(* have been abandoned in between.                                         *)
record_effect(b, c, mode, key, status) ==
    /\ c \in PastHeads(b)
    /\ Len(staged_effects) < MaxEffects
    /\ staged_effects' = Append(staged_effects,
           [branch |-> b, checkpoint |-> c, mode |-> mode, key |-> key, status |-> status])
    /\ UNCHANGED history

(* An unconditional UPDATE, whatever the status is by now.                 *)
set_effect_status(e, status) ==
    /\ staged_effects' = [staged_effects EXCEPT ![e].status = status]
    /\ UNCHANGED history

-----------------------------------------------------------------------------
Init ==
    /\ runs = 0
    /\ branches = <<>>
    /\ checkpoints = <<>>
    /\ state_kv = <<>>
    /\ vfs_objects = <<>>
    /\ staged_effects = <<>>

Checkpoint(b) ==
    \E updates \in [Keys -> Contents \cup {Unwritten}], deletes \in SUBSET Keys :
    \E kv \in KvRows(updates, deletes), files \in Rows(Paths) :
    \E expected \in CheckpointIds \cup {NULL} :
        create_checkpoint(b, kv, files, expected)

(* The three ways ToolProxy.call records an effect.                        *)
Record(b, c) ==
    \/ record_effect(b, c, "staged", NoKey, "staged")
    \/ \E key \in EffectKeys : record_effect(b, c, "idempotent", key, "committed")
    \/ record_effect(b, c, "dry_run", NoKey, "committed")

(* Only a flush sets a status, of an effect it found staged some time ago. *)
Flushed(e) ==
    /\ staged_effects[e].mode = "staged"
    /\ set_effect_status(e, "committed")

Next ==
    \/ create_run
    \/ \E b \in BranchIds : Checkpoint(b)
    \/ \E b \in BranchIds, target \in CheckpointIds : rewind(b, target)
    \/ \E b \in BranchIds, c \in CheckpointIds : Record(b, c)
    \/ \E e \in EffectIds : Flushed(e)

Spec == Init /\ [][Next]_storeVars

-----------------------------------------------------------------------------
(* Properties.                                                             *)

(* lineage() returns a chain: one checkpoint of the run for every step     *)
(* from genesis to c.  get_state, VFS._resolve and memories_at replay rows *)
(* in this order, across every fork.                                       *)
LineageIsChain ==
    \A c \in CheckpointIds :
        /\ \A d \in lineage[c] : RunOf(d) = RunOf(c)
        /\ \A i \in 0 .. checkpoints[c].step :
               \E d \in lineage[c] : checkpoints[d].step = i
        /\ \A d \in lineage[c] :
               /\ checkpoints[d].step <= checkpoints[c].step
               /\ \A e \in lineage[c] : checkpoints[d].step = checkpoints[e].step => d = e

(* No commit is lost: whatever writers and rewinds did, every checkpoint a *)
(* branch accepted is on the lineage of that branch's head, abandoned or   *)
(* not, so the audit trail shows it.                                       *)
NoLostCommit ==
    \A c \in CheckpointIds : c \in lineage[branches[checkpoints[c].branch].head]

(* active_branch(run) never raises LookupError: a rewind that abandons the *)
(* last active branch of a run leaves another one active.                  *)
RunHasActiveBranch ==
    \A r \in 1 .. runs : \E b \in BranchIds : branches[b].run = r /\ Active(b)

(* A rewind carries the staged effects of the clean prefix over: whatever  *)
(* branch was rewound, the new branch has pending exactly what was staged  *)
(* on the lineage of the rewind point.                                     *)
RewindKeepsPending ==
    [][\A b \in DOMAIN branches' \ DOMAIN branches :
          branches'[b].fork # NULL => pending(b)' = StagedOn(branches'[b].fork)]_storeVars

(* Every discarded effect is accounted for: the branch that staged it was  *)
(* rewound to a checkpoint the effect lies beyond.  However often branches *)
(* are rewound, again after they were abandoned too, a rewind never takes  *)
(* along what another branch staged, nor what its own rewind point keeps.  *)
DiscardsOnlyTheAbandoned ==
    \A e \in EffectIds : staged_effects[e].status = "discarded" =>
        \E b \in BranchIds :
            /\ branches[b].of = staged_effects[e].branch
            /\ staged_effects[e].checkpoint \notin lineage[branches[b].fork]

(* The snapshot a checkpoint stands for: the replay of its lineage.        *)
Cells == Keys \cup Paths
DeltaOf(c) ==
    [x \in Cells |-> IF x \in Keys THEN state_kv[c][x] ELSE vfs_objects[c][x]]
SnapshotOf(c) ==
    [x \in Cells |-> IF x \in Keys THEN get_state(c)[x] ELSE resolve_files(c)[x]]

Snapshots == INSTANCE SnapshotStore WITH
    snaps  <- [c \in CheckpointIds |->
                  [run |-> RunOf(c), delta |-> DeltaOf(c), cells |-> SnapshotOf(c)]],
    heads  <- [b \in BranchIds |-> [run |-> branches[b].run, snap |-> branches[b].head]],
    live   <- {b \in BranchIds : Active(b)},
    owners <- runs

(* Replaying deltas along lineages is indistinguishable from keeping whole *)
(* snapshots: history is immutable, a commit shows its writes over its     *)
(* parent's state and nothing else, and only active branches take commits. *)
ImplementsSnapshots == Snapshots!Spec
=============================================================================
