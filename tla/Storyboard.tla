----------------------------- MODULE Storyboard -----------------------------
(***************************************************************************)
(* The scripted demo (src/src/rewind/demo.py): every poll of every browser *)
(* calls tick(), which reads from the tree how far the story has come and  *)
(* applies its next step, from any number of processes and with no state   *)
(* of its own.                                                             *)
(*                                                                         *)
(* A step of the story is a commit guarded by the head it was decided      *)
(* from, then a memory, then a staged message, then, after the last step,  *)
(* a flush of the branch's own messages.  A ticker may die between any two *)
(* of them.  The pause between steps only delays a tick: it is left out.   *)
(***************************************************************************)
EXTENDS VectorMemory

CONSTANTS
    Script,         \* for each story the sequence of its steps: which of
                    \* them have a memory and which a message
    Tickers,        \* processes that poll
    MaxCrashes      \* bound on ticks that die half-way

Stories == {"poisoned", "recovery"}

ASSUME ScriptType ==
    /\ DOMAIN Script = Stories
    /\ \A story \in Stories :
          /\ Script[story] \in Seq([memory : BOOLEAN, message : BOOLEAN])
          /\ Script[story] # <<>>

VARIABLES
    labels,     \* labels[c]: the step of the story that checkpoint c applied
    ticks,      \* ticks[p]: the tick process p is in the middle of
    announced,  \* announced[e]: how often the message of effect e was posted
    crashes

storyVars == <<memoryVars, labels, ticks, announced, crashes>>

Waiting == [pc |-> "waiting"]
At(p, pc) == ticks[p].pc = pc

IsOriginal(b) == branches[b].fork = NULL
Story(b) == IF IsOriginal(b) THEN "poisoned" ELSE "recovery"
StepsOf(b) == Len(Script[Story(b)])

(* active_branch(run): the newest of the active branches.                  *)
IsActiveBranch(r, b) ==
    /\ Active(b) /\ branches[b].run = r
    /\ \A a \in BranchIds : Active(a) /\ branches[a].run = r => a <= b

(* Mutant: progress on a fork is counted from genesis.                     *)
StepsApplied_FromGenesis(b) == checkpoints[branches[b].head].step

StepsApplied(b) ==
    checkpoints[branches[b].head].step
        - (IF IsOriginal(b) THEN 0 ELSE checkpoints[branches[b].fork].step)

StoryTypeOK ==
    /\ MemoryTypeOK
    /\ labels \in Seq([story : Stories \cup {"genesis"}, step : Nat])
    /\ Len(labels) = Len(checkpoints)
    /\ DOMAIN ticks = Tickers
    /\ \A p \in Tickers :
          \/ ticks[p] = Waiting
          \/ /\ ticks[p].branch \in BranchIds
             /\ ticks[p].step \in 1 .. StepsOf(ticks[p].branch)
             /\ ticks[p].head \in CheckpointIds
             /\ At(p, "post") \/ At(p, "mark") => ticks[p].todo \in (SUBSET EffectIds) \ {{}}
    /\ announced \in [1 .. MaxEffects -> Nat]

-----------------------------------------------------------------------------
(* tick reads the active branch, its head and its fork point.  A branch    *)
(* whose story is over has nothing to do.                                  *)
Decide(p, r, b) ==
    /\ ticks[p] = Waiting
    /\ IsActiveBranch(r, b)
    /\ StepsApplied(b) < StepsOf(b)
    /\ ticks' = [ticks EXCEPT ![p] =
           [pc |-> "apply", branch |-> b, head |-> branches[b].head,
            step |-> StepsApplied(b) + 1]]
    /\ UNCHANGED <<memoryVars, labels, announced, crashes>>

GoOn(p, pc) == ticks' = [ticks EXCEPT ![p].pc = pc]
GoIdle(p) == ticks' = [ticks EXCEPT ![p] = Waiting]

Commit(p, expected) ==
    LET t == ticks[p]
    IN  /\ At(p, "apply")
        /\ create_checkpoint(t.branch, NoRows(Keys), NoRows(Paths), expected)
        /\ labels' = Append(labels, [story |-> Story(t.branch), step |-> t.step])
        /\ ticks' = [ticks EXCEPT ![p].pc = "remember", ![p].head = Len(checkpoints) + 1]
        /\ UNCHANGED <<agent_memory, announced, crashes>>

(* Mutant: the step is committed whatever the head is by now.              *)
ApplyStep_Unguarded(p) == Commit(p, NULL)

(* The commit of a step, if the head has not moved since it was read.      *)
ApplyStep(p) == Commit(p, ticks[p].head)

(* StaleHeadError: another ticker was first.  ValueError: a rewind was.    *)
LoseRace(p) ==
    LET t == ticks[p]
    IN  /\ At(p, "apply")
        /\ ~Active(t.branch) \/ branches[t.branch].head # t.head
        /\ GoIdle(p)
        /\ UNCHANGED <<memoryVars, labels, announced, crashes>>

(* Both read the head again: it may be any head the branch had since the   *)
(* commit of this step.                                                    *)
RememberStep(p) ==
    LET t == ticks[p]
    IN  /\ At(p, "remember")
        /\ IF Script[Story(t.branch)][t.step].memory
           THEN \E c \in CheckpointIds, fact \in Facts :
                   c >= t.head /\ remember(t.branch, c, fact)
           ELSE UNCHANGED memoryVars
        /\ GoOn(p, "stage")
        /\ UNCHANGED <<labels, announced, crashes>>

StageMessage(p) ==
    LET t == ticks[p]
    IN  /\ At(p, "stage")
        /\ IF Script[Story(t.branch)][t.step].message
           THEN \E c \in CheckpointIds :
                   c >= t.head /\ record_effect(t.branch, c, "staged", NoKey, "staged")
           ELSE UNCHANGED storeVars
        /\ IF ~IsOriginal(t.branch) /\ t.step >= StepsOf(t.branch)
           THEN GoOn(p, "flush") ELSE GoIdle(p)
        /\ UNCHANGED <<agent_memory, labels, announced, crashes>>

(* Mutant: everything pending is flushed.                                  *)
OwnMessages_All(b, c) == StagedOn(c)

(* What pending finds from head c of what the branch itself authored.      *)
OwnMessages(b, c) ==
    {e \in StagedOn(c) : checkpoints[staged_effects[e].checkpoint].branch = b}

ListMessages(p) ==
    LET t == ticks[p]
    IN  /\ At(p, "flush")
        /\ \E c \in PastHeads(t.branch) :
              /\ c >= t.head
              /\ IF OwnMessages(t.branch, c) = {} THEN GoIdle(p)
                 ELSE ticks' = [ticks EXCEPT ![p] =
                         [pc |-> "post", branch |-> t.branch, head |-> t.head, step |-> t.step,
                          todo |-> OwnMessages(t.branch, c)]]
        /\ UNCHANGED <<memoryVars, labels, announced, crashes>>

FirstListed(p) == CHOOSE e \in ticks[p].todo : \A d \in ticks[p].todo : e <= d

PostMessage(p) ==
    /\ At(p, "post")
    /\ announced' = [announced EXCEPT ![FirstListed(p)] = @ + 1]
    /\ GoOn(p, "mark")
    /\ UNCHANGED <<memoryVars, labels, crashes>>

MarkMessage(p) ==
    LET rest == ticks[p].todo \ {FirstListed(p)}
    IN  /\ At(p, "mark")
        /\ set_effect_status(FirstListed(p), "committed")
        /\ IF rest = {} THEN GoIdle(p)
           ELSE ticks' = [ticks EXCEPT ![p].pc = "post", ![p].todo = rest]
        /\ UNCHANGED <<agent_memory, labels, announced, crashes>>

Crash(p) ==
    /\ ticks[p] # Waiting
    /\ crashes < MaxCrashes
    /\ crashes' = crashes + 1
    /\ GoIdle(p)
    /\ UNCHANGED <<memoryVars, labels, announced>>

-----------------------------------------------------------------------------
start ==
    /\ create_run
    /\ labels' = Append(labels, [story |-> "genesis", step |-> 0])
    /\ UNCHANGED <<agent_memory, ticks, announced, crashes>>

(* An operator rewinds the branch their dashboard shows as active, which   *)
(* may no longer be.                                                       *)
OperatorRewinds ==
    /\ \E b \in BranchIds, target \in CheckpointIds : rewind(b, target)
    /\ UNCHANGED <<agent_memory, labels, ticks, announced, crashes>>

StoryInit ==
    /\ MemoryInit
    /\ labels = <<>>
    /\ ticks = [p \in Tickers |-> Waiting]
    /\ announced = [e \in 1 .. MaxEffects |-> 0]
    /\ crashes = 0

Tick(p) ==
    \/ \E r \in 1 .. runs, b \in BranchIds : Decide(p, r, b)
    \/ ApplyStep(p)
    \/ LoseRace(p)
    \/ RememberStep(p)
    \/ StageMessage(p)
    \/ ListMessages(p)
    \/ PostMessage(p)
    \/ MarkMessage(p)

StoryNext ==
    \/ start
    \/ OperatorRewinds
    \/ \E p \in Tickers : Tick(p) \/ Crash(p)

StorySpec == StoryInit /\ [][StoryNext]_storyVars

(* As long as a dashboard is open somewhere it polls, and polls tick.      *)
PollingSpec == StorySpec /\ WF_storyVars(\E p \in Tickers : Tick(p))

-----------------------------------------------------------------------------
(* Properties.                                                             *)

(* However many tickers race and die, a branch tells its story in order,   *)
(* no step twice and none left out: the first of its checkpoints is step 1 *)
(* and each of the others follows the step before it.                      *)
StoryInOrder ==
    \A c \in CheckpointIds :
        LET b == checkpoints[c].branch
            d == checkpoints[c].parent
        IN  d # NULL =>
              /\ labels[c].story = Story(b)
              /\ labels[c].step = IF checkpoints[d].branch = b THEN labels[d].step + 1 ELSE 1

(* The last step of the story of branch b is on b.                         *)
Told(b) ==
    LET c == branches[b].head
    IN  checkpoints[c].branch = b /\ labels[c].step = StepsOf(b)

(* Only messages of a recovery leave the sandbox, each once, and only once *)
(* the branch that wrote them has told its story to the end: what was      *)
(* staged before the rewind point is held, "an operator call".             *)
OnlyRecoveryIsAnnounced ==
    \A e \in EffectIds : announced[e] > 0 =>
        LET b == staged_effects[e].branch
        IN  /\ announced[e] = 1
            /\ ~IsOriginal(b)
            /\ checkpoints[staged_effects[e].checkpoint].branch = b
            /\ Told(b)

(* If the tickers keep polling and operators stop rewinding, the story of  *)
(* the active branch is told to its end, whichever tickers lose or die.    *)
StoryIsTold ==
    <>[](\A r \in 1 .. runs, b \in BranchIds : IsActiveBranch(r, b) => Told(b))
=============================================================================
