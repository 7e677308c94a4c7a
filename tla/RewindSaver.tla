---------------------------- MODULE RewindSaver ----------------------------
(***************************************************************************)
(* The LangGraph saver (src/src/rewind/checkpointer.py) over the store:    *)
(* several invocations of one thread that share a saver, operators who     *)
(* rewind, and tools or operators who commit checkpoints of their own.     *)
(*                                                                         *)
(* A LangGraph checkpoint is a number, in the order of the commits; it is  *)
(* the value written at STATE_KEY, and payloads holds what else a reader   *)
(* needs of it.  A put is two transactions, a fork and a commit, after     *)
(* reads of its own; agents[p] is what an invocation carries between them. *)
(* All runs of the store are runs of the thread: others are not looked at. *)
(* checkpoint_ns is part of a key nobody selects by, and is left out.      *)
(***************************************************************************)
EXTENDS RewindStore

CONSTANTS
    STATE_KEY,      \* the key of the state that holds LangGraph's payload
    Agents,         \* invocations of the thread that may run side by side
    Watched         \* the LangGraph ids whose task writes are tracked: the
                    \* lists under different keys never meet

ASSUME SaverKeys == STATE_KEY \in Keys /\ 1 .. MaxCheckpoints \subseteq Contents
                  /\ NULL \notin Watched
ASSUME AgentsAreNotNull == NULL \notin Agents

VARIABLES
    labels,     \* labels[c]: the LangGraph id in the label of c, or NULL
    payloads,   \* payloads[id]: the parent of id, and how its put went
    writes,     \* _writes: pending task writes, in the process
    agents      \* agents[p]: the invocation p and the put it is in; head is
                \* what the put extends, and before it what the agent resumed from

saverVars == <<storeVars, labels, payloads, writes, agents>>

Resting == [pc |-> "rest", parent |-> NULL, fresh |-> TRUE, branch |-> NULL, head |-> NULL]

LangGraphIds == 1 .. Len(payloads)

SaverTypeOK ==
    /\ TypeOK
    /\ labels \in Seq(LangGraphIds \cup {NULL}) /\ Len(labels) = Len(checkpoints)
    /\ payloads \in Seq([parent : LangGraphIds \cup {NULL},
                         put : {"alone", "raced", "overtaken"}])
    /\ writes \subseteq [id : LangGraphIds, past : BOOLEAN]
    /\ agents \in [Agents -> [pc : {"rest", "run", "create", "read", "fork", "commit"},
                              parent : LangGraphIds \cup {NULL}, fresh : BOOLEAN,
                              branch : BranchIds \cup {NULL},
                              head : CheckpointIds \cup {NULL}]]

At(p, pc) == agents[p].pc = pc

-----------------------------------------------------------------------------
(* Reads.                                                                  *)

(* _run_id: the oldest run with the thread's name.                         *)
ThreadRun == IF runs = 0 THEN NULL ELSE 1

(* active_branch(run): the newest of the active branches.                  *)
IsActiveBranch(r, b) ==
    /\ Active(b) /\ branches[b].run = r
    /\ \A a \in BranchIds : Active(a) /\ branches[a].run = r => a <= b

(* _find_by_lg_id, as a set of at most one checkpoint.                     *)
FindByLgId(r, id) == {c \in CheckpointIds : RunOf(c) = r /\ labels[c] = id}

payload_at(c) == Replay(state_kv, c, STATE_KEY)

(* list: the checkpoints from genesis to head that are LangGraph's own.    *)
(* before asks for an older head, and limit cuts the result short.         *)
list(head) == {c \in lineage[head] : labels[c] # NULL /\ payload_at(c) = labels[c]}

(* A fresh fork parked exactly at c: "the operator rewound here".          *)
Parked(b, c) == branches[b].head = c /\ branches[b].fork = c

Begin(p, parent, head, fresh) ==
    agents' = [agents EXCEPT ![p] = [Resting EXCEPT !.pc = "run", !.parent = parent,
                                                    !.head = head, !.fresh = fresh]]

(* Mutant: the writes of the past are left where they are.                *)
DropWrites_Nothing(b, c, id) == UNCHANGED writes

(* get_tuple forgets the writes under a checkpoint somebody rewound to.    *)
DropWrites(b, c, id) ==
    writes' = IF Parked(b, c) THEN {w \in writes : w.id # id} ELSE writes

(* get_tuple without a checkpoint id, at the start of an invocation.       *)
ResumeLatest(p) ==
    /\ At(p, "rest")
    /\ \/ /\ ThreadRun = NULL
          /\ Begin(p, NULL, NULL, TRUE)
          /\ UNCHANGED writes
       \/ \E b \in BranchIds :
             LET h == branches[b].head
             IN  /\ IsActiveBranch(ThreadRun, b)
                 /\ IF payload_at(h) = Absent
                    THEN Begin(p, NULL, h, TRUE) /\ UNCHANGED writes
                    ELSE Begin(p, payload_at(h), h, TRUE) /\ DropWrites(b, h, payload_at(h))
    /\ UNCHANGED <<storeVars, labels, payloads>>

(* get_tuple with a checkpoint id: LangGraph's time travel, to a           *)
(* checkpoint that list shows or to one the caller remembers.              *)
ResumeAt(p, id) ==
    /\ At(p, "rest")
    /\ \E b \in BranchIds, c \in FindByLgId(ThreadRun, id) :
          /\ IsActiveBranch(ThreadRun, b)
          /\ Begin(p, id, NULL, c \in list(branches[b].head))
          /\ DropWrites(b, c, id)
    /\ UNCHANGED <<storeVars, labels, payloads>>

(* get_state by anyone: the same read, and no invocation follows.          *)
Inspect ==
    /\ \E b \in BranchIds :
          LET h == branches[b].head
          IN  /\ IsActiveBranch(ThreadRun, b)
              /\ payload_at(h) # Absent
              /\ DropWrites(b, h, payload_at(h))
    /\ UNCHANGED <<storeVars, labels, payloads, agents>>

-----------------------------------------------------------------------------
(* Writes.                                                                 *)

(* put_writes.  past is for the properties: a rewind to the checkpoint of  *)
(* a write makes the write one of the past.                                *)
put_writes(p) ==
    /\ At(p, "run") /\ agents[p].parent \in Watched
    /\ writes' = writes \cup {[id |-> agents[p].parent, past |-> FALSE]}
    /\ UNCHANGED <<storeVars, labels, payloads, agents>>

(* put begins: no run has the thread's name yet ...                        *)
PutFindsNoRun(p) ==
    /\ At(p, "run") /\ ThreadRun = NULL
    /\ agents' = [agents EXCEPT ![p].pc = "create"]
    /\ UNCHANGED <<storeVars, labels, payloads, writes>>

(* ... so it creates one, and another put may have done so meanwhile.      *)
PutCreatesRun(p) ==
    /\ At(p, "create")
    /\ create_run
    /\ labels' = Append(labels, NULL)
    /\ agents' = [agents EXCEPT ![p].pc = "read", ![p].branch = Len(branches) + 1,
                                ![p].fresh = @ /\ runs = 0]
    /\ UNCHANGED <<payloads, writes>>

(* Mutant: the fork that mirrors a time travel is forgotten.               *)
ForkPoints_None(p, r, head) == {}

(* The parent, if it is below the head: "the caller rewound".              *)
ForkPoints(p, r, head) ==
    {c \in FindByLgId(r, agents[p].parent) :
        agents[p].parent # NULL /\ c # head /\ c \in lineage[head]}

(* put reads the active branch and decides from the head it had.           *)
PutReadsBranch(p) ==
    LET r == IF At(p, "read") THEN branches[agents[p].branch].run ELSE ThreadRun
    IN  /\ At(p, "read") \/ (At(p, "run") /\ ThreadRun # NULL)
        /\ \E b \in BranchIds :
              /\ IsActiveBranch(r, b)
              /\ \/ /\ ForkPoints(p, r, branches[b].head) = {}
                    /\ agents' = [agents EXCEPT ![p].pc = "commit", ![p].branch = b,
                                                ![p].head = branches[b].head]
                 \/ \E c \in ForkPoints(p, r, branches[b].head) :
                       agents' = [agents EXCEPT ![p].pc = "fork", ![p].branch = b,
                                                ![p].head = c]
        /\ UNCHANGED <<storeVars, labels, payloads, writes>>

(* A rewind overtakes whoever is in an invocation.                         *)
Overtaken(by) ==
    [p \in Agents |-> IF p = by \/ At(p, "rest") THEN agents[p]
                      ELSE [agents[p] EXCEPT !.fresh = FALSE]]
AgeWrites(c) ==
    writes' = {[w EXCEPT !.past = @ \/ w.id = labels[c]] : w \in writes}

(* The branch that was read is rewound to the parent, whatever its status  *)
(* and its head are by now.                                                *)
PutForks(p) ==
    /\ At(p, "fork")
    /\ rewind(agents[p].branch, agents[p].head)
    /\ agents' = [Overtaken(p) EXCEPT ![p].pc = "commit", ![p].branch = Len(branches) + 1]
    /\ AgeWrites(agents[p].head)
    /\ UNCHANGED <<labels, payloads>>

PayloadRows(id) == [NoRows(Keys) EXCEPT ![STATE_KEY] = id]

PutWas(a) ==
    CASE ~a.fresh -> "overtaken"
      [] a.fresh /\ branches[a.branch].head # a.head -> "raced"
      [] OTHER -> "alone"

(* The commit does not ask for the head the put decided from.              *)
PutCommits(p) ==
    LET a == agents[p]
        id == Len(payloads) + 1
    IN  /\ At(p, "commit")
        /\ create_checkpoint(a.branch, PayloadRows(id), NoRows(Paths), NULL)
        /\ labels' = Append(labels, id)
        /\ payloads' = Append(payloads, [parent |-> a.parent, put |-> PutWas(a)])
        /\ agents' = [agents EXCEPT ![p] =
               [Resting EXCEPT !.pc = "run", !.parent = id, !.head = Len(checkpoints) + 1,
                               !.fresh = IsActiveBranch(ThreadRun, a.branch)]]
        /\ UNCHANGED writes

(* ValueError: the branch was abandoned; the invocation ends.              *)
PutFails(p) ==
    /\ At(p, "commit") /\ ~Active(agents[p].branch)
    /\ agents' = [agents EXCEPT ![p] = Resting]
    /\ UNCHANGED <<storeVars, labels, payloads, writes>>

(* An invocation ends or is interrupted between two calls of the saver.    *)
Stop(p) ==
    /\ At(p, "run")
    /\ agents' = [agents EXCEPT ![p] = Resting]
    /\ UNCHANGED <<storeVars, labels, payloads, writes>>

-----------------------------------------------------------------------------
(* The others.                                                             *)

(* The process ends with whatever it was doing, and takes _writes along.   *)
Restart ==
    /\ writes' = {}
    /\ agents' = [p \in Agents |-> Resting]
    /\ UNCHANGED <<storeVars, labels, payloads>>

OperatorRewinds ==
    /\ \E b \in BranchIds, target \in CheckpointIds : rewind(b, target) /\ AgeWrites(target)
    /\ agents' = Overtaken(NULL)
    /\ UNCHANGED <<labels, payloads>>

(* A tool writes a file or an operator injects a fix: a checkpoint with a  *)
(* label of its own, which leaves STATE_KEY alone.                         *)
Edit ==
    /\ \E b \in BranchIds : create_checkpoint(b, NoRows(Keys), NoRows(Paths), NULL)
    /\ labels' = Append(labels, NULL)
    /\ UNCHANGED <<payloads, writes, agents>>

SaverInit ==
    /\ Init
    /\ labels = <<>>
    /\ payloads = <<>>
    /\ writes = {}
    /\ agents = [p \in Agents |-> Resting]

SaverNext ==
    \/ \E p \in Agents :
          \/ ResumeLatest(p)
          \/ \E id \in LangGraphIds : ResumeAt(p, id)
          \/ put_writes(p)
          \/ PutFindsNoRun(p)
          \/ PutCreatesRun(p)
          \/ PutReadsBranch(p)
          \/ PutForks(p)
          \/ PutCommits(p)
          \/ PutFails(p)
          \/ Stop(p)
    \/ Inspect
    \/ Restart
    \/ OperatorRewinds
    \/ Edit

SaverSpec == SaverInit /\ [][SaverNext]_saverVars

-----------------------------------------------------------------------------
(* Properties.                                                             *)

(* LangGraph's tree and the store's agree: going back from a checkpoint,   *)
(* the first LangGraph checkpoint on its lineage is its LangGraph parent.  *)
(* When another commit came between the reads of the put and its own       *)
(* commit, the parent is further back; only a put that a rewind overtook,  *)
(* or that resumed where list does not reach, may be on another lineage.   *)
Before(c) == {d \in lineage[c] \ {c} : labels[d] # NULL}
Nearest(c, d) == \A e \in Before(c) : checkpoints[e].step <= checkpoints[d].step
ParentIsAncestor ==
    \A c \in CheckpointIds : labels[c] # NULL =>
        LET pay == payloads[labels[c]]
            parents == {d \in Before(c) : labels[d] = pay.parent}
        IN  pay.parent # NULL /\ pay.put # "overtaken" =>
                \E d \in parents : pay.put = "alone" => Nearest(c, d)

(* checkpointer.py:23, "completed checkpoints are always durable": as long *)
(* as the thread has one run, each is found by its id, holds its own       *)
(* payload and is listed from the head of the branch that took it.         *)
CompletedPutsAreFound ==
    runs = 1 =>
        \A id \in LangGraphIds : \E c \in CheckpointIds :
            /\ FindByLgId(ThreadRun, id) = {c}
            /\ payload_at(c) = id
            /\ c \in list(branches[checkpoints[c].branch].head)

(* An invocation that resumes at the head, a LangGraph checkpoint, by its  *)
(* id or without one, gets no task writes that were made before a rewind   *)
(* to that checkpoint.  The code does no more: when an edit has moved the  *)
(* head past the rewind point, or an id below the head is resumed,         *)
(* get_tuple hands over the writes of the abandoned future.                *)
ResumeIsClean ==
    [][\A p \in Agents, b \in BranchIds :
          At(p, "rest") /\ At(p, "run")' /\ agents'[p].parent # NULL
          /\ IsActiveBranch(ThreadRun, b) /\ labels[branches[b].head] = agents'[p].parent =>
              \A w \in writes' : w.id = agents'[p].parent => ~w.past]_saverVars

(* README.md:17, "fork agent state, inject a fix, and replay": unless a    *)
(* rewind overtakes it, an invocation extends all that was on the lineage  *)
(* of the head it resumed from.                                            *)
FixSurvivesReplay ==
    [][\A p \in Agents :
          At(p, "run") /\ ~At(p, "run")' /\ ~At(p, "rest")'
          /\ agents[p].fresh /\ agents[p].head # NULL =>
              lineage[agents[p].head] \subseteq lineage[agents'[p].head]]_saverVars
=============================================================================
