----------------------------- MODULE ToolProxy -----------------------------
(***************************************************************************)
(* The tool proxy (src/src/rewind/proxy.py) over the store, with several   *)
(* processes (request threads, pollers, agents) at work on one database.   *)
(*                                                                         *)
(* A proxy call is not a transaction: it reads, runs an executor in the    *)
(* outside world, and writes.  calls[p] holds what process p carries from  *)
(* one of these steps to the next; sent and charged are what the world has *)
(* seen, and no rewind takes them back.                                    *)
(***************************************************************************)
EXTENDS RewindStore, FiniteSets

CONSTANTS
    Procs,          \* processes that share the database
    MaxFailures     \* bound on executors that raise and processes that die

ASSUME ProcsAreFinite == IsFiniteSet(Procs)

VARIABLES
    calls,          \* calls[p]: the proxy call p is in the middle of
    sent,           \* sent[e]: executions of staged effect e
    charged,        \* charged[r][k]: executions under key k in run r
    failures        \* interrupted calls so far

proxyVars == <<storeVars, calls, sent, charged, failures>>

Idle == [pc |-> "idle"]
Busy(p) == calls[p].pc # "idle"
InFlush(p) == calls[p].pc \in {"flush", "mark"}

(* flush executes its list in created_at order, the order of the ids.      *)
First(todo) == CHOOSE e \in todo : \A d \in todo : e <= d

ProxyTypeOK ==
    /\ TypeOK
    /\ DOMAIN calls = Procs
    /\ \A p \in Procs :
          \/ calls[p] = Idle
          \/ calls[p] \in [pc : {"execute", "record"}, branch : BranchIds, key : EffectKeys]
          \/ calls[p] \in [pc : {"flush", "mark"}, branch : BranchIds,
                           todo : (SUBSET EffectIds) \ {{}}]
    /\ sent \in [1 .. MaxEffects -> Nat]
    /\ charged \in [1 .. MaxRuns -> [EffectKeys -> Nat]]
    /\ failures \in Nat

-----------------------------------------------------------------------------
(* idempotent                                                              *)

(* The oldest effect of the run with this key that is not discarded.       *)
WithKey(run, key) ==
    {e \in EffectIds : /\ RunOfEffect(e) = run
                       /\ staged_effects[e].key = key
                       /\ staged_effects[e].status # "discarded"}

(* Mutant: keys are scoped to the branch instead of the run.               *)
find_effect_by_key_OnBranch(branch, key) ==
    {e \in WithKey(branches[branch].run, key) : staged_effects[e].branch = branch}

find_effect_by_key(branch, key) == WithKey(branches[branch].run, key)

(* The key is looked up first; a call whose key has a committed effect     *)
(* returns the recorded result and changes nothing.                        *)
LookUp(p, b, key) ==
    LET found == find_effect_by_key(b, key)
    IN  /\ ~Busy(p)
        /\ found # {} => staged_effects[First(found)].status # "committed"
        /\ calls' = [calls EXCEPT ![p] = [pc |-> "execute", branch |-> b, key |-> key]]
        /\ UNCHANGED <<storeVars, sent, charged, failures>>

(* Then the executor fires, outside any transaction ...                    *)
Execute(p) ==
    /\ calls[p].pc = "execute"
    /\ charged' = [charged EXCEPT ![branches[calls[p].branch].run][calls[p].key] = @ + 1]
    /\ calls' = [calls EXCEPT ![p].pc = "record"]
    /\ UNCHANGED <<storeVars, sent, failures>>

(* ... and only then is the effect recorded, at the head read by then.     *)
RecordResult(p) ==
    /\ calls[p].pc = "record"
    /\ \E c \in PastHeads(calls[p].branch) :
          record_effect(calls[p].branch, c, "idempotent", calls[p].key, "committed")
    /\ calls' = [calls EXCEPT ![p] = Idle]
    /\ UNCHANGED <<sent, charged, failures>>

-----------------------------------------------------------------------------
(* flush                                                                   *)

(* Mutant: every staged effect of the run is listed.                       *)
StartFlush_AllStaged(p, b) ==
    LET todo == {e \in EffectIds : /\ staged_effects[e].status = "staged"
                                   /\ RunOfEffect(e) = branches[b].run}
    IN  /\ ~Busy(p)
        /\ todo # {}
        /\ calls' = [calls EXCEPT ![p] = [pc |-> "flush", branch |-> b, todo |-> todo]]
        /\ UNCHANGED <<storeVars, sent, charged, failures>>

(* pending() reads the head, then its lineage, then the staged effects;    *)
(* the head it used may be old by the time it lists the effects.           *)
StartFlush(p, b) ==
    /\ ~Busy(p)
    /\ \E c \in PastHeads(b) :
          LET todo == {e \in StagedOn(c) : RunOfEffect(e) = branches[b].run}
          IN  /\ todo # {}
              /\ calls' = [calls EXCEPT ![p] = [pc |-> "flush", branch |-> b, todo |-> todo]]
    /\ UNCHANGED <<storeVars, sent, charged, failures>>

(* Execute the next listed effect, without looking at its row again ...    *)
FlushExecute(p) ==
    /\ calls[p].pc = "flush"
    /\ sent' = [sent EXCEPT ![First(calls[p].todo)] = @ + 1]
    /\ calls' = [calls EXCEPT ![p].pc = "mark"]
    /\ UNCHANGED <<storeVars, charged, failures>>

(* Mutant: the end of the list is not noticed.                             *)
Continue_PastTheEnd(p) ==
    calls' = [calls EXCEPT ![p] =
        [pc |-> "flush", branch |-> calls[p].branch,
         todo |-> calls[p].todo \ {First(calls[p].todo)}]]

(* What is left of the list once its first effect is done.                 *)
Continue(p) ==
    LET rest == calls[p].todo \ {First(calls[p].todo)}
    IN  calls' = [calls EXCEPT ![p] =
            IF rest = {} THEN Idle
            ELSE [pc |-> "flush", branch |-> calls[p].branch, todo |-> rest]]

(* Mutant: the effect is executed and never marked.                        *)
FlushMark_Forgets(p) ==
    /\ calls[p].pc = "mark"
    /\ Continue(p)
    /\ UNCHANGED <<storeVars, sent, charged, failures>>

(* ... and mark it committed, whatever its status is by now.               *)
FlushMark(p) ==
    /\ calls[p].pc = "mark"
    /\ set_effect_status(First(calls[p].todo), "committed")
    /\ Continue(p)
    /\ UNCHANGED <<sent, charged, failures>>

-----------------------------------------------------------------------------
(* An executor raises, or a process dies: before the executor has fired    *)
(* (execute, flush) nothing happened, after it (record, mark) the world    *)
(* has seen an effect that no row tells of.                                *)
Interrupt(p) ==
    /\ Busy(p)
    /\ failures < MaxFailures
    /\ failures' = failures + 1
    /\ calls' = [calls EXCEPT ![p] = Idle]
    /\ UNCHANGED <<storeVars, sent, charged>>

(* Between two proxy calls a process uses the store, and stages effects or *)
(* dry-runs them: two statements and no executor.                          *)
UseStore(p) ==
    /\ ~Busy(p)
    /\ \/ create_run
       \/ \E b \in BranchIds : Checkpoint(b)
       \/ \E b \in BranchIds, target \in CheckpointIds : rewind(b, target)
       \/ \E b \in BranchIds, c \in CheckpointIds :
             \/ record_effect(b, c, "staged", NoKey, "staged")
             \/ record_effect(b, c, "dry_run", NoKey, "committed")
    /\ UNCHANGED <<calls, sent, charged, failures>>

ProxyInit ==
    /\ Init
    /\ calls = [p \in Procs |-> Idle]
    /\ sent = [e \in 1 .. MaxEffects |-> 0]
    /\ charged = [r \in 1 .. MaxRuns |-> [k \in EffectKeys |-> 0]]
    /\ failures = 0

ProxyNext ==
    \E p \in Procs :
        \/ UseStore(p)
        \/ \E b \in BranchIds, key \in EffectKeys : LookUp(p, b, key)
        \/ Execute(p)
        \/ RecordResult(p)
        \/ \E b \in BranchIds : StartFlush(p, b)
        \/ FlushExecute(p)
        \/ FlushMark(p)
        \/ Interrupt(p)

ProxySpec == ProxyInit /\ [][ProxyNext]_proxyVars

-----------------------------------------------------------------------------
(* Properties that hold for any number of processes.                       *)

Recorded(r, k) ==
    \E e \in WithKey(r, k) : staged_effects[e].status = "committed"

Executors(r, k) ==
    {p \in Procs : /\ calls[p].pc = "execute"
                   /\ branches[calls[p].branch].run = r
                   /\ calls[p].key = k}

(* Once an effect is recorded under a key it stays recorded and no call    *)
(* executes that key again in its run, on no branch and after no rewind:   *)
(* only the calls that looked the key up before that may still fire.       *)
ReplayNeverFires ==
    [][\A r \in 1 .. runs, k \in EffectKeys : Recorded(r, k) =>
          /\ Recorded(r, k)'
          /\ Executors(r, k)' \subseteq Executors(r, k)
          /\ Executors(r, k) = {} => charged'[r][k] = charged[r][k]]_proxyVars

Listed(e) == \E p \in Procs : InFlush(p) /\ e \in calls[p].todo

(* A rewind silences the effects it discards for good, except those a      *)
(* flush had already listed: no later flush of any branch lists them,      *)
(* fires them or brings them back.                                         *)
DiscardIsFinal ==
    [][\A e \in EffectIds :
          staged_effects[e].status = "discarded" /\ ~Listed(e) =>
              /\ staged_effects'[e].status = "discarded"
              /\ sent'[e] = sent[e]
              /\ ~Listed(e)']_proxyVars

(* The list a flush works through stays on the lineage of its branch's     *)
(* head, and in its run, however the head moved since the list was read.   *)
FlushStaysOnLineage ==
    \A p \in Procs : InFlush(p) =>
        \A e \in calls[p].todo :
            /\ RunOfEffect(e) = branches[calls[p].branch].run
            /\ staged_effects[e].checkpoint \in lineage[branches[calls[p].branch].head]

(* An effect is executed, and a key is charged, once per process at most,  *)
(* and once more for every call that was interrupted: exactly once is what *)
(* one process has that is never interrupted, after any rewinds.           *)
FiresAreBounded ==
    LET most == Cardinality(Procs) + failures
    IN  /\ \A e \in EffectIds : sent[e] <= most
        /\ \A r \in 1 .. runs, k \in EffectKeys : charged[r][k] <= most

(* The rows agree with the world: a staged effect has been sent only by a  *)
(* flush about to mark it or interrupted before it could, and a committed  *)
(* one has been sent.                                                      *)
RowsMatchWorld ==
    \A e \in EffectIds : staged_effects[e].mode = "staged" =>
        CASE staged_effects[e].status = "committed" -> sent[e] > 0
          [] staged_effects[e].status = "staged" ->
                sent[e] <= failures + Cardinality({p \in Procs :
                    calls[p].pc = "mark" /\ First(calls[p].todo) = e})
          [] OTHER -> TRUE

-----------------------------------------------------------------------------
(* proxy.py:9-11, "fires immediately but under a stable idempotency key; a *)
(* replay after rewind returns the recorded result instead of executing    *)
(* twice": FiresAreBounded says it of one process, and two break it.       *)
KeyFiresOnce == \A r \in 1 .. MaxRuns, k \in EffectKeys : charged[r][k] <= 1
=============================================================================
