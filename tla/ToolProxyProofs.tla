-------------------------- MODULE ToolProxyProofs --------------------------
(***************************************************************************)
(* Proofs about ToolProxy, for every finite set of processes, every number *)
(* of failures and every store: what a flush lists stays on its branch,    *)
(* the rows agree with the world, executions are bounded by the processes  *)
(* and the failures, a recorded key is not executed again, and a discarded *)
(* effect stays discarded.                                                 *)
(***************************************************************************)
EXTENDS ToolProxy, RewindStoreProofs, FiniteSetTheorems

(* A call about to mark effect e; one that may still execute it.           *)
IsMarking(call, e) == call.pc = "mark" /\ First(call.todo) = e
IsFiring(call, e) ==
    \/ call.pc = "flush" /\ e \in call.todo
    \/ call.pc = "mark" /\ e \in call.todo /\ First(call.todo) # e

(* A call about to execute key k in run r, or to record that it did.       *)
IsAt(pc, call, r, k) == call.pc = pc /\ branches[call.branch].run = r /\ call.key = k

Marking(e) == {p \in Procs : IsMarking(calls[p], e)}
Firing(e) == {p \in Procs : IsFiring(calls[p], e)}
Recorders(r, k) == {p \in Procs : IsAt("record", calls[p], r, k)}

KeyCalls == [pc : {"execute", "record"}, branch : BranchIds, key : EffectKeys]
FlushCalls == [pc : {"flush", "mark"}, branch : BranchIds, todo : (SUBSET EffectIds) \ {{}}]

(* What p carries between two steps is still true of the store, however    *)
(* long ago it was read.                                                   *)
FlushOK(call) ==
    /\ call \in FlushCalls
    /\ \A e \in call.todo :
          /\ staged_effects[e].mode = "staged"
          /\ RunOfEffect(e) = branches[call.branch].run
          /\ staged_effects[e].checkpoint \in lineage[branches[call.branch].head]
    /\ call.pc = "mark" => sent[First(call.todo)] > 0

CallOK(call) == call = Idle \/ call \in KeyCalls \/ FlushOK(call)

(* Only a staged call waits for a flush; only an idempotent one has a key. *)
ModesOK ==
    \A e \in EffectIds :
        /\ staged_effects[e].status # "committed" => staged_effects[e].mode = "staged"
        /\ staged_effects[e].key # NoKey => staged_effects[e].status = "committed"

(* The executions of an effect so far, and those that may still come.      *)
EffectMatches(e) ==
    /\ e \notin EffectIds => sent[e] = 0
    /\ e \in EffectIds /\ staged_effects[e].status = "staged" =>
          sent[e] <= failures + Cardinality(Marking(e))
    /\ e \in EffectIds /\ staged_effects[e].status = "committed"
       /\ staged_effects[e].mode = "staged" => sent[e] > 0
    /\ sent[e] + Cardinality(Firing(e)) <= failures + Cardinality(Procs)

(* The executions under a key so far, and those that may still come.       *)
KeyMatches(r, k) ==
    /\ ~Recorded(r, k) => charged[r][k] <= failures + Cardinality(Recorders(r, k))
    /\ charged[r][k] + Cardinality(Executors(r, k)) <= failures + Cardinality(Procs)

WorldOK ==
    /\ sent \in [1 .. MaxEffects -> Nat]
    /\ charged \in [1 .. MaxRuns -> [EffectKeys -> Nat]]
    /\ failures \in Nat
    /\ runs <= MaxRuns /\ Len(staged_effects) <= MaxEffects

ProxyInv ==
    /\ StoreInv
    /\ WorldOK
    /\ ModesOK
    /\ DOMAIN calls = Procs
    /\ \A p \in Procs : CallOK(calls[p])
    /\ \A e \in 1 .. MaxEffects : EffectMatches(e)
    /\ \A r \in 1 .. MaxRuns, k \in EffectKeys : KeyMatches(r, k)

-----------------------------------------------------------------------------
(* Counting processes: one moves, the others stay where they are.          *)

One(b) == IF b THEN 1 ELSE 0

LEMMA OneMoves ==
  ASSUME NEW p \in Procs, NEW S \in SUBSET Procs, NEW T \in SUBSET Procs,
         \A q \in Procs : q # p => (q \in S <=> q \in T)
  PROVE  /\ Cardinality(S) \in Nat /\ Cardinality(T) \in Nat
         /\ Cardinality(T) + One(p \in S) = Cardinality(S) + One(p \in T)
<1>1. IsFiniteSet(S) /\ IsFiniteSet(T)
  BY ProcsAreFinite, FS_Subset
<1>2. Cardinality(S) \in Nat /\ Cardinality(T) \in Nat
  BY <1>1, FS_CardinalityType
<1>3. S \ {p} = T \ {p}
  OBVIOUS
<1>4. /\ Cardinality(S \ {p}) = IF p \in S THEN Cardinality(S) - 1 ELSE Cardinality(S)
      /\ Cardinality(T \ {p}) = IF p \in T THEN Cardinality(T) - 1 ELSE Cardinality(T)
  BY <1>1, FS_RemoveElement
<1> QED
  BY <1>2, <1>3, <1>4 DEF One

LEMMA TwoDisjoint ==
  ASSUME NEW p \in Procs, NEW S \in SUBSET Procs, NEW T \in SUBSET Procs,
         S \cap T = {}, p \notin S, p \notin T
  PROVE  Cardinality(S) + Cardinality(T) + 1 <= Cardinality(Procs)
<1>1. IsFiniteSet(S) /\ IsFiniteSet(T) /\ IsFiniteSet(S \cup T) /\ IsFiniteSet((S \cup T) \cup {p})
  BY ProcsAreFinite, FS_Subset
<1>2. Cardinality(S \cup T) = Cardinality(S) + Cardinality(T)
  <2>1. /\ Cardinality(S \cup T) = Cardinality(S) + Cardinality(T) - Cardinality(S \cap T)
    BY <1>1, FS_Union
  <2>2. Cardinality(S \cap T) = 0
    BY FS_EmptySet
  <2> QED
    BY <2>1, <2>2, <1>1, FS_CardinalityType
<1>3. Cardinality((S \cup T) \cup {p}) = Cardinality(S \cup T) + 1
  BY <1>1, FS_AddElement
<1>4. Cardinality((S \cup T) \cup {p}) <= Cardinality(Procs)
  BY ProcsAreFinite, FS_Subset
<1> QED
  BY <1>2, <1>3, <1>4

LEMMA ProcsCount == Cardinality(Procs) \in Nat
  BY ProcsAreFinite, FS_CardinalityType

LEMMA FirstIsListed ==
  ASSUME NEW todo \in SUBSET Nat, todo # {}
  PROVE  First(todo) \in todo
  BY LeastExists DEF First

-----------------------------------------------------------------------------
(* One process moves, and the store grows under the others.                *)

Moves(p, call) ==
    /\ DOMAIN calls' = Procs /\ calls'[p] = call
    /\ \A q \in Procs : q # p => calls'[q] = calls[q]

SentGrows == \A e \in 1 .. MaxEffects : sent[e] > 0 => sent'[e] > 0

LEMMA CallsMove ==
  ASSUME DOMAIN calls = Procs, NEW p \in Procs, NEW call,
         calls' = [calls EXCEPT ![p] = call]
  PROVE  Moves(p, call)
  BY DEF Moves

LEMMA EffectFacts ==
  ASSUME ProxyInv
  PROVE  /\ TreeInv /\ runs \in Nat /\ runs <= MaxRuns
         /\ EffectIds \subseteq 1 .. MaxEffects /\ EffectIds \subseteq Nat
         /\ \A e \in 1 .. MaxEffects : sent[e] \in Nat
         /\ \A r \in 1 .. MaxRuns, k \in EffectKeys : charged[r][k] \in Nat
         /\ failures \in Nat
         /\ \A e \in EffectIds : staged_effects[e].branch \in BranchIds
         /\ \A b \in BranchIds : branches[b].run \in 1 .. MaxRuns
<1>1. TreeInv /\ WorldOK
  BY DEF ProxyInv, StoreInv
<1>2. /\ Len(staged_effects) \in Nat /\ runs \in Nat /\ MaxEffects \in Nat /\ MaxRuns \in Nat
  BY <1>1, StoreFacts, BoundsAreNumbers
<1>3. /\ \A e \in EffectIds : staged_effects[e].branch \in BranchIds
      /\ \A b \in BranchIds : branches[b].run \in 1 .. runs
  BY <1>1, StoreFacts
<1>4. EffectIds \subseteq 1 .. MaxEffects /\ EffectIds \subseteq Nat /\ 1 .. runs \subseteq 1 .. MaxRuns
  BY <1>1, <1>2 DEF WorldOK, EffectIds
<1> QED
  BY <1>1, <1>2, <1>3, <1>4 DEF WorldOK

LEMMA RunsStay ==
  ASSUME ProxyInv, StoreGrows
  PROVE  \A e \in EffectIds : RunOfEffect(e)' = RunOfEffect(e)
  BY EffectFacts DEF StoreGrows, RunOfEffect

LEMMA FlushCallShape ==
  ASSUME NEW call \in FlushCalls
  PROVE  /\ call.branch \in BranchIds /\ call.todo \subseteq EffectIds /\ call.todo # {}
         /\ call.pc \in {"flush", "mark"} /\ First(call.todo) \in call.todo
         /\ First(call.todo) \in EffectIds
<1>1. /\ call.branch \in BranchIds /\ call.todo \subseteq EffectIds /\ call.todo # {}
      /\ call.pc \in {"flush", "mark"}
  <2>1. call.todo \in (SUBSET EffectIds) \ {{}}
    BY DEF FlushCalls
  <2>2. call.branch \in BranchIds /\ call.pc \in {"flush", "mark"}
    BY DEF FlushCalls
  <2>3. \A S \in (SUBSET EffectIds) \ {{}} : S \subseteq EffectIds /\ S # {}
    OBVIOUS
  <2> QED
    BY <2>1, <2>2, <2>3
<1>2. First(call.todo) \in call.todo
  BY <1>1, FirstIsListed DEF EffectIds
<1> QED
  BY <1>1, <1>2

LEMMA CallsStayOK ==
  ASSUME ProxyInv, StoreGrows, SentGrows, NEW call, CallOK(call)
  PROVE  CallOK(call)'
<1>1. BranchIds \subseteq BranchIds' /\ EffectIds \subseteq EffectIds'
  BY DEF StoreGrows
<1>2. CASE call = Idle
  BY <1>2 DEF CallOK
<1>3. CASE call \in KeyCalls
  BY <1>1, <1>3 DEF CallOK, KeyCalls
<1>4. CASE FlushOK(call)
  <2>1. call \in FlushCalls /\ call \in FlushCalls'
    BY <1>1, <1>4 DEF FlushOK, FlushCalls
  <2>2. /\ call.branch \in BranchIds /\ call.todo \subseteq EffectIds
        /\ First(call.todo) \in EffectIds
    BY <2>1, FlushCallShape
  <2>3. \A e \in call.todo :
          /\ staged_effects'[e].mode = "staged"
          /\ RunOfEffect(e)' = branches'[call.branch].run
          /\ staged_effects'[e].checkpoint \in lineage'[branches'[call.branch].head]
    BY <2>2, <1>4, RunsStay DEF StoreGrows, FlushOK
  <2>4. call.pc = "mark" => sent'[First(call.todo)] > 0
    BY <2>2, <1>4, EffectFacts DEF SentGrows, FlushOK
  <2> QED
    BY <2>1, <2>3, <2>4 DEF FlushOK, CallOK
<1> QED
  BY <1>2, <1>3, <1>4 DEF CallOK

LEMMA MovesKeepCalls ==
  ASSUME ProxyInv, StoreGrows, SentGrows, NEW p \in Procs, NEW call, Moves(p, call), CallOK(call)'
  PROVE  DOMAIN calls' = Procs /\ \A q \in Procs : CallOK(calls[q])'
<1>1. ASSUME NEW q \in Procs, q # p  PROVE CallOK(calls[q])'
  <2>1. PICK c : c = calls[q] /\ c = calls'[q]
    BY <1>1 DEF Moves
  <2>2. CallOK(c)
    BY <2>1 DEF ProxyInv
  <2>3. CallOK(c)'
    BY <2>2, CallsStayOK
  <2> QED
    BY <2>1, <2>3 DEF CallOK, FlushOK, KeyCalls, FlushCalls
<1>2. CallOK(calls[p])'
  BY DEF Moves, CallOK, FlushOK, KeyCalls, FlushCalls
<1> QED
  BY <1>1, <1>2 DEF Moves

(* The counts of an effect and of a key change with the moving process.    *)
LEMMA EffectCounts ==
  ASSUME ProxyInv, NEW p \in Procs, NEW call, Moves(p, call), NEW e
  PROVE  /\ Cardinality(Marking(e)) \in Nat /\ Cardinality(Marking(e)') \in Nat
         /\ Cardinality(Firing(e)) \in Nat /\ Cardinality(Firing(e)') \in Nat
         /\ Cardinality(Marking(e)') + One(IsMarking(calls[p], e))
                = Cardinality(Marking(e)) + One(IsMarking(call, e))
         /\ Cardinality(Firing(e)') + One(IsFiring(calls[p], e))
                = Cardinality(Firing(e)) + One(IsFiring(call, e))
<1>1. PICK M \in SUBSET Procs : M = Marking(e)'
  BY DEF Marking
<1>2. PICK F \in SUBSET Procs : F = Firing(e)'
  BY DEF Firing
<1>3. /\ \A q \in Procs : q \in M <=> IsMarking(calls'[q], e)
      /\ \A q \in Procs : q \in F <=> IsFiring(calls'[q], e)
      /\ \A q \in Procs : q \in Marking(e) <=> IsMarking(calls[q], e)
      /\ \A q \in Procs : q \in Firing(e) <=> IsFiring(calls[q], e)
      /\ Marking(e) \subseteq Procs /\ Firing(e) \subseteq Procs
  BY <1>1, <1>2 DEF Marking, Firing, IsMarking, IsFiring
<1>4. /\ \A q \in Procs : q # p => (q \in M <=> q \in Marking(e))
      /\ \A q \in Procs : q # p => (q \in F <=> q \in Firing(e))
      /\ p \in M <=> IsMarking(call, e)
      /\ p \in F <=> IsFiring(call, e)
  BY <1>3 DEF Moves
<1>5. /\ Cardinality(Marking(e)) \in Nat /\ Cardinality(M) \in Nat
      /\ Cardinality(M) + One(p \in Marking(e)) = Cardinality(Marking(e)) + One(p \in M)
  BY <1>3, <1>4, OneMoves
<1>6. /\ Cardinality(Firing(e)) \in Nat /\ Cardinality(F) \in Nat
      /\ Cardinality(F) + One(p \in Firing(e)) = Cardinality(Firing(e)) + One(p \in F)
  BY <1>3, <1>4, OneMoves
<1> QED
  BY <1>1, <1>2, <1>3, <1>4, <1>5, <1>6 DEF One

(* The call of every process is about a run that stays what it is.         *)
LEMMA SameKeyCalls ==
  ASSUME ProxyInv, StoreGrows, NEW q \in Procs, NEW r, NEW k,
         NEW pc \in {"execute", "record"}
  PROVE  /\ calls[q].pc = pc => calls[q] \in KeyCalls
         /\ IsAt(pc, calls[q], r, k) =>
               calls[q].pc = pc /\ branches'[calls[q].branch].run = r /\ calls[q].key = k
         /\ calls[q].pc = pc /\ branches'[calls[q].branch].run = r /\ calls[q].key = k =>
               IsAt(pc, calls[q], r, k)
<1>1. calls[q].pc = pc => calls[q] \in KeyCalls
  <2>1. CallOK(calls[q])
    BY DEF ProxyInv
  <2>2. FlushOK(calls[q]) => calls[q].pc \in {"flush", "mark"}
    BY DEF FlushOK, FlushCalls
  <2> QED
    BY <2>1, <2>2 DEF CallOK, Idle
<1>2. calls[q] \in KeyCalls => branches'[calls[q].branch].run = branches[calls[q].branch].run
  BY DEF KeyCalls, StoreGrows
<1> QED
  BY <1>1, <1>2 DEF IsAt

LEMMA KeyCounts ==
  ASSUME ProxyInv, StoreGrows, NEW p \in Procs, NEW call, Moves(p, call),
         CallOK(call)', NEW r, NEW k
  PROVE  /\ Cardinality(Recorders(r, k)) \in Nat /\ Cardinality(Recorders(r, k)') \in Nat
         /\ Cardinality(Executors(r, k)) \in Nat /\ Cardinality(Executors(r, k)') \in Nat
         /\ Cardinality(Recorders(r, k)') + One(IsAt("record", calls[p], r, k))
                = Cardinality(Recorders(r, k)) + One(IsAt("record", call, r, k)')
         /\ Cardinality(Executors(r, k)') + One(IsAt("execute", calls[p], r, k))
                = Cardinality(Executors(r, k)) + One(IsAt("execute", call, r, k)')
         /\ \A q \in Procs : q # p => (q \in Executors(r, k)' <=> q \in Executors(r, k))
<1>1. PICK R \in SUBSET Procs : R = Recorders(r, k)'
  BY DEF Recorders
<1>2. PICK X \in SUBSET Procs : X = Executors(r, k)'
  BY DEF Executors
<1>3. /\ \A q \in Procs : q \in R <=> IsAt("record", calls[q], r, k)'
      /\ \A q \in Procs : q \in X <=> IsAt("execute", calls[q], r, k)'
      /\ \A q \in Procs : q \in Recorders(r, k) <=> IsAt("record", calls[q], r, k)
      /\ \A q \in Procs : q \in Executors(r, k) <=> IsAt("execute", calls[q], r, k)
      /\ Recorders(r, k) \subseteq Procs /\ Executors(r, k) \subseteq Procs
  BY <1>1, <1>2 DEF Recorders, Executors, IsAt
<1>4. /\ \A q \in Procs : q # p => (q \in R <=> q \in Recorders(r, k))
      /\ \A q \in Procs : q # p => (q \in X <=> q \in Executors(r, k))
  <2>1. ASSUME NEW q \in Procs, q # p
        PROVE  /\ IsAt("record", calls[q], r, k)' <=> IsAt("record", calls[q], r, k)
               /\ IsAt("execute", calls[q], r, k)' <=> IsAt("execute", calls[q], r, k)
    BY <2>1, SameKeyCalls DEF Moves, IsAt
  <2> QED
    BY <2>1, <1>3
<1>5. /\ p \in R <=> IsAt("record", call, r, k)'
      /\ p \in X <=> IsAt("execute", call, r, k)'
  BY <1>3 DEF Moves, IsAt
<1>6. /\ Cardinality(Recorders(r, k)) \in Nat /\ Cardinality(R) \in Nat
      /\ Cardinality(R) + One(p \in Recorders(r, k)) = Cardinality(Recorders(r, k)) + One(p \in R)
  BY <1>3, <1>4, OneMoves
<1>7. /\ Cardinality(Executors(r, k)) \in Nat /\ Cardinality(X) \in Nat
      /\ Cardinality(X) + One(p \in Executors(r, k)) = Cardinality(Executors(r, k)) + One(p \in X)
  BY <1>3, <1>4, OneMoves
<1> QED
  BY <1>1, <1>2, <1>3, <1>4, <1>5, <1>6, <1>7 DEF One

-----------------------------------------------------------------------------
(* Steps of the store that leave the committed and the discarded effects   *)
(* alone.                                                                  *)

QuietEffects ==
    /\ runs' <= MaxRuns /\ Len(staged_effects') <= MaxEffects
    /\ \A e \in EffectIds :
          \/ staged_effects'[e].status = staged_effects[e].status
          \/ staged_effects[e].status = "staged" /\ staged_effects'[e].status = "discarded"
    /\ \A e \in EffectIds' : e \notin EffectIds =>
          /\ staged_effects'[e].mode = "staged" <=> staged_effects'[e].status = "staged"
          /\ staged_effects'[e].status \in {"staged", "committed"}
          /\ staged_effects'[e].key # NoKey => staged_effects'[e].status = "committed"

LEMMA SameEffectsQuiet ==
  ASSUME ProxyInv, runs' <= MaxRuns, staged_effects' = staged_effects
  PROVE  QuietEffects
  BY SameEffectsGrow DEF QuietEffects, ProxyInv, WorldOK

LEMMA CreateRunQuiet ==
  ASSUME ProxyInv, create_run
  PROVE  QuietEffects
<1>1. runs' = runs + 1 /\ runs < MaxRuns /\ staged_effects' = staged_effects
  BY DEF create_run
<1>2. runs' <= MaxRuns
  BY <1>1, EffectFacts, BoundsAreNumbers
<1> QED
  BY <1>1, <1>2, SameEffectsQuiet

LEMMA CheckpointQuiet ==
  ASSUME ProxyInv, NEW b \in BranchIds, Checkpoint(b)
  PROVE  QuietEffects
<1>1. runs' = runs /\ staged_effects' = staged_effects
  BY DEF Checkpoint, create_checkpoint
<1> QED
  BY <1>1, EffectFacts, SameEffectsQuiet

LEMMA RewindQuiet ==
  ASSUME ProxyInv, NEW b \in BranchIds, NEW target \in CheckpointIds, rewind(b, target)
  PROVE  QuietEffects
<1>1. /\ EffectIds' = EffectIds /\ runs' = runs
      /\ \A e \in EffectIds :
            staged_effects'[e] = IF e \in Discarded(b, target)
                                 THEN [staged_effects[e] EXCEPT !.status = "discarded"]
                                 ELSE staged_effects[e]
  BY EffectFacts, RewindIsRewindStep DEF RewindStep, rewind
<1>2. Len(staged_effects') <= MaxEffects
  <2>1. staged_effects' \in Seq(EffectRows(Len(branches'), Len(checkpoints')))
    <3>1. [Next]_storeVars
      BY DEF Next
    <3>2. TypeOK'
      BY <3>1, StoreStep DEF ProxyInv, StoreInv, TreeInv
    <3> QED
      BY <3>2 DEF TypeOK, Effects, EffectRows, BranchIds, CheckpointIds
  <2>2. Len(staged_effects') \in Nat /\ Len(staged_effects) \in Nat
    BY <2>1, EffectFacts, StoreFacts
  <2>3. 1 .. Len(staged_effects') = 1 .. Len(staged_effects)
    BY <1>1 DEF EffectIds
  <2>4. Len(staged_effects') = Len(staged_effects)
    BY <2>2, <2>3
  <2> QED
    BY <2>4 DEF ProxyInv, WorldOK
<1>3. \A e \in EffectIds : staged_effects[e] \in EffectRows(Len(branches), Len(checkpoints))
  BY EffectFacts, RowTypes DEF TreeInv
<1>4. \A e \in EffectIds :
         \/ staged_effects'[e].status = staged_effects[e].status
         \/ staged_effects[e].status = "staged" /\ staged_effects'[e].status = "discarded"
  BY <1>1, <1>3 DEF EffectRows, Discarded
<1> QED
  BY <1>1, <1>2, <1>4 DEF QuietEffects, ProxyInv, WorldOK

LEMMA RecordQuiet ==
  ASSUME ProxyInv, NEW b, NEW c, NEW mode, NEW key, NEW status,
         record_effect(b, c, mode, key, status),
         \/ mode = "staged" /\ status = "staged" /\ key = NoKey
         \/ mode # "staged" /\ status = "committed"
  PROVE  QuietEffects
<1>1. PICK n : n = Len(staged_effects) + 1
  OBVIOUS
<1>2. /\ EffectIds' = EffectIds \cup {n}
      /\ staged_effects'[n] = [branch |-> b, checkpoint |-> c, mode |-> mode, key |-> key,
                               status |-> status]
      /\ \A e \in EffectIds : staged_effects'[e] = staged_effects[e]
      /\ n \in 1 .. MaxEffects /\ UNCHANGED history
  BY <1>1, EffectFacts, RecordShape
<1>3. Len(staged_effects') <= MaxEffects /\ runs' = runs
  BY <1>1, <1>2 DEF record_effect, history, ProxyInv, WorldOK
<1> QED
  BY <1>2, <1>3 DEF QuietEffects, ProxyInv, WorldOK

LEMMA UseStoreIsQuiet ==
  ASSUME ProxyInv, NEW p \in Procs, UseStore(p)
  PROVE  [Next]_storeVars /\ QuietEffects
<1>1. ASSUME NEW b \in BranchIds, NEW c \in CheckpointIds,
             \/ record_effect(b, c, "staged", NoKey, "staged")
             \/ record_effect(b, c, "dry_run", NoKey, "committed")
      PROVE  [Next]_storeVars /\ QuietEffects
  BY <1>1, RecordQuiet DEF Next, Record
<1> QED
  BY <1>1, CreateRunQuiet, CheckpointQuiet, RewindQuiet DEF UseStore, Next

LEMMA QuietModes ==
  ASSUME ProxyInv, StoreGrows, QuietEffects
  PROVE  ModesOK'
<1>1. ASSUME NEW e \in EffectIds
      PROVE  /\ staged_effects'[e].status # "committed" => staged_effects'[e].mode = "staged"
             /\ staged_effects'[e].key # NoKey => staged_effects'[e].status = "committed"
  BY DEF QuietEffects, StoreGrows, ProxyInv, ModesOK
<1>2. ASSUME NEW e \in EffectIds', e \notin EffectIds
      PROVE  /\ staged_effects'[e].status # "committed" => staged_effects'[e].mode = "staged"
             /\ staged_effects'[e].key # NoKey => staged_effects'[e].status = "committed"
  BY <1>2 DEF QuietEffects
<1> QED
  BY <1>1, <1>2 DEF ModesOK

(* While nothing is executed, an effect keeps matching the world if the    *)
(* calls that may still execute it and the one that has do not change.     *)
LEMMA QuietEffectMatches ==
  ASSUME ProxyInv, StoreGrows, QuietEffects, sent' = sent, failures' = failures,
         NEW p \in Procs, NEW call, Moves(p, call), NEW e \in 1 .. MaxEffects,
         IsMarking(call, e) <=> IsMarking(calls[p], e),
         IsFiring(call, e) <=> IsFiring(calls[p], e)
  PROVE  EffectMatches(e)'
<1>1. /\ Cardinality(Marking(e)') = Cardinality(Marking(e))
      /\ Cardinality(Firing(e)') = Cardinality(Firing(e))
  BY EffectCounts DEF One
<1>2. EffectMatches(e)
  BY DEF ProxyInv
<1>3. e \in EffectIds /\ staged_effects'[e].status = "staged" => staged_effects[e].status = "staged"
  BY DEF StoreGrows
<1>4. e \in EffectIds /\ staged_effects'[e].status = "committed" => staged_effects[e].status = "committed"
  BY DEF QuietEffects
<1>5. e \in EffectIds => staged_effects'[e].mode = staged_effects[e].mode
  BY DEF StoreGrows
<1>6. e \notin EffectIds => sent[e] = 0
  BY <1>2 DEF EffectMatches
<1>7. e \in EffectIds' /\ e \notin EffectIds =>
         ~(staged_effects'[e].status = "committed" /\ staged_effects'[e].mode = "staged")
  BY DEF QuietEffects
<1>8. /\ 0 <= failures + Cardinality(Marking(e)')
      /\ EffectIds \subseteq EffectIds'
  BY EffectCounts, EffectFacts DEF StoreGrows
<1> QED
  BY <1>1, <1>2, <1>3, <1>4, <1>5, <1>6, <1>7, <1>8 DEF EffectMatches

(* What is recorded stays recorded.                                        *)
LEMMA RecordedStays ==
  ASSUME ProxyInv, StoreGrows, NEW r, NEW k, Recorded(r, k)
  PROVE  Recorded(r, k)'
<1>1. PICK e \in EffectIds : /\ RunOfEffect(e) = r /\ staged_effects[e].key = k
                             /\ staged_effects[e].status = "committed"
  BY DEF Recorded, WithKey
<1>2. /\ e \in EffectIds' /\ RunOfEffect(e)' = r /\ staged_effects'[e].key = k
      /\ staged_effects'[e].status = "committed"
  BY <1>1, RunsStay DEF StoreGrows
<1> QED
  BY <1>2 DEF Recorded, WithKey

(* A key keeps matching the world if the calls about it do not change.     *)
LEMMA QuietKeyMatches ==
  ASSUME ProxyInv, StoreGrows, charged' = charged, failures' = failures,
         NEW p \in Procs, NEW call, Moves(p, call), CallOK(call)',
         NEW r \in 1 .. MaxRuns, NEW k \in EffectKeys,
         \/ Recorded(r, k)'
         \/ IsAt("record", call, r, k)' <=> IsAt("record", calls[p], r, k),
         IsAt("execute", call, r, k)' <=> IsAt("execute", calls[p], r, k)
  PROVE  KeyMatches(r, k)'
<1>1. /\ Recorded(r, k)' \/ Cardinality(Recorders(r, k)') = Cardinality(Recorders(r, k))
      /\ Cardinality(Executors(r, k)') = Cardinality(Executors(r, k))
  BY KeyCounts DEF One
<1>2. KeyMatches(r, k) /\ (Recorded(r, k) => Recorded(r, k)')
  BY RecordedStays DEF ProxyInv
<1> QED
  BY <1>1, <1>2 DEF KeyMatches

-----------------------------------------------------------------------------
(* The steps of ProxyNext.                                                 *)

LEMMA SameStore ==
  ASSUME ProxyInv, UNCHANGED storeVars
  PROVE  /\ StoreInv' /\ StoreGrows /\ QuietEffects
         /\ Len(staged_effects') <= MaxEffects /\ runs' <= MaxRuns
         /\ BranchIds' = BranchIds /\ EffectIds' = EffectIds
         /\ staged_effects' = staged_effects /\ branches' = branches
<1>1. StoreInv' /\ StoreGrows
  BY StoreStep, StoreStepGrows DEF ProxyInv, StoreInv
<1>2. runs' = runs /\ staged_effects' = staged_effects /\ branches' = branches
  BY DEF storeVars
<1> QED
  BY <1>1, <1>2, SameEffectsQuiet, SameEffectsGrow DEF ProxyInv, WorldOK, BranchIds, EffectIds

LEMMA CallShapes ==
  ASSUME ProxyInv, NEW p \in Procs
  PROVE  /\ calls[p].pc \in {"execute", "record"} => calls[p] \in KeyCalls
         /\ calls[p].pc \in {"flush", "mark"} => FlushOK(calls[p])
         /\ calls[p].pc = "idle" => calls[p] = Idle
         /\ calls[p].pc \in {"idle", "execute", "record", "flush", "mark"}
<1>1. CallOK(calls[p])
  BY DEF ProxyInv
<1>2. calls[p] \in KeyCalls => calls[p].pc \in {"execute", "record"}
  BY DEF KeyCalls
<1>3. FlushOK(calls[p]) => calls[p].pc \in {"flush", "mark"}
  BY DEF FlushOK, FlushCalls
<1>4. calls[p] = Idle => calls[p].pc = "idle"
  BY DEF Idle
<1> QED
  BY <1>1, <1>2, <1>3, <1>4 DEF CallOK

(* The parts of ProxyInv' put together, for a step of p that goes on with  *)
(* call and keeps the order of executing and marking.                      *)
LEMMA ProxyInvNext ==
  ASSUME ProxyInv, StoreInv', StoreGrows, WorldOK', ModesOK', SentGrows,
         NEW p \in Procs, NEW call, Moves(p, call), CallOK(call)',
         \A e \in 1 .. MaxEffects : EffectMatches(e)',
         \A r \in 1 .. MaxRuns, k \in EffectKeys : KeyMatches(r, k)'
  PROVE  ProxyInv'
  BY MovesKeepCalls DEF ProxyInv

(* A step that executes nothing.                                           *)
LEMMA QuietNext ==
  ASSUME ProxyInv, StoreInv', StoreGrows, QuietEffects,
         sent' = sent, charged' = charged, failures' = failures,
         NEW p \in Procs, NEW call, Moves(p, call), CallOK(call)',
         \A e \in 1 .. MaxEffects : EffectMatches(e)',
         \A r \in 1 .. MaxRuns, k \in EffectKeys : KeyMatches(r, k)'
  PROVE  ProxyInv'
<1>1. SentGrows /\ WorldOK'
  BY DEF SentGrows, WorldOK, ProxyInv, QuietEffects
<1> QED
  BY <1>1, QuietModes, ProxyInvNext

LEMMA IdleIsOut ==
  ASSUME NEW call, call.pc = "idle"
  PROVE  /\ \A e : ~IsMarking(call, e) /\ ~IsFiring(call, e)
         /\ \A r, k, pc : pc \in {"execute", "record"} =>
               ~IsAt(pc, call, r, k) /\ ~IsAt(pc, call, r, k)'
  BY DEF IsMarking, IsFiring, IsAt

LEMMA UseStoreKeeps ==
  ASSUME ProxyInv, NEW p \in Procs, UseStore(p)
  PROVE  ProxyInv'
<1>1. /\ calls' = calls /\ sent' = sent /\ charged' = charged /\ failures' = failures
      /\ calls[p] = Idle
  BY CallShapes DEF UseStore, Busy
<1>2. StoreInv' /\ StoreGrows /\ QuietEffects
  BY UseStoreIsQuiet, StoreStep, StoreStepGrows DEF ProxyInv, StoreInv
<1>3. Moves(p, Idle) /\ CallOK(Idle)' /\ Idle.pc = "idle"
  BY <1>1 DEF Moves, ProxyInv, CallOK, Idle
<1>4. \A e \in 1 .. MaxEffects : EffectMatches(e)'
  BY <1>1, <1>2, <1>3, QuietEffectMatches
<1>5. ASSUME NEW r \in 1 .. MaxRuns, NEW k \in EffectKeys
      PROVE  KeyMatches(r, k)'
  BY <1>1, <1>2, <1>3, IdleIsOut, QuietKeyMatches
<1> QED
  BY <1>1, <1>2, <1>3, <1>4, <1>5, QuietNext

LEMMA StutterKeeps ==
  ASSUME ProxyInv, UNCHANGED proxyVars
  PROVE  ProxyInv'
<1>1. /\ UNCHANGED storeVars /\ sent' = sent /\ charged' = charged /\ failures' = failures
      /\ calls' = calls
  BY DEF proxyVars
<1>2. /\ runs' = runs /\ branches' = branches /\ checkpoints' = checkpoints
      /\ staged_effects' = staged_effects
  BY <1>1 DEF storeVars
<1>3. StoreInv' /\ lineage' = lineage
  BY <1>1, <1>2, SameStore, SameCheckpoints DEF ProxyInv, StoreInv
<1>4. EffectIds' = EffectIds /\ BranchIds' = BranchIds
  BY <1>2 DEF EffectIds, BranchIds
<1>5. WorldOK' /\ ModesOK'
  BY <1>1, <1>2, <1>4 DEF ProxyInv, WorldOK, ModesOK
<1>6. ASSUME NEW p \in Procs  PROVE CallOK(calls[p])'
  <2>1. PICK c : c = calls[p]
    OBVIOUS
  <2>2. CallOK(c)'
    <3>1. SentGrows
      BY <1>1 DEF SentGrows
    <3> QED
      BY <2>1, <3>1, <1>1, SameStore, CallsStayOK DEF ProxyInv
  <2> QED
    BY <2>1, <2>2, <1>1 DEF CallOK, KeyCalls, FlushOK, FlushCalls
<1>7. ASSUME NEW e \in 1 .. MaxEffects  PROVE EffectMatches(e)'
  <2>1. Marking(e)' = Marking(e) /\ Firing(e)' = Firing(e)
    BY <1>1 DEF Marking, Firing, IsMarking, IsFiring
  <2> QED
    BY <2>1, <1>1, <1>2, <1>4 DEF ProxyInv, EffectMatches
<1>8. ASSUME NEW r \in 1 .. MaxRuns, NEW k \in EffectKeys  PROVE KeyMatches(r, k)'
  <2>1. Recorders(r, k)' = Recorders(r, k) /\ Executors(r, k)' = Executors(r, k)
    BY <1>1, <1>2 DEF Recorders, Executors, IsAt
  <2>2. Recorded(r, k)' <=> Recorded(r, k)
    BY <1>2, <1>4 DEF Recorded, WithKey, RunOfEffect
  <2> QED
    BY <2>1, <2>2, <1>1 DEF ProxyInv, KeyMatches
<1> QED
  BY <1>1, <1>3, <1>5, <1>6, <1>7, <1>8 DEF ProxyInv

LEMMA InterruptKeeps ==
  ASSUME ProxyInv, NEW p \in Procs, Interrupt(p)
  PROVE  ProxyInv'
<1>1. /\ UNCHANGED storeVars /\ sent' = sent /\ charged' = charged /\ failures' = failures + 1
      /\ calls' = [calls EXCEPT ![p] = Idle]
  BY DEF Interrupt
<1>2. /\ StoreInv' /\ StoreGrows /\ QuietEffects /\ EffectIds' = EffectIds
      /\ staged_effects' = staged_effects
  BY <1>1, SameStore
<1>3. Moves(p, Idle) /\ CallOK(Idle)' /\ Idle.pc = "idle"
  BY <1>1, CallsMove DEF ProxyInv, CallOK, Idle
<1>4. SentGrows /\ WorldOK' /\ ModesOK'
  BY <1>1, <1>2, QuietModes DEF SentGrows, WorldOK, ProxyInv, QuietEffects
<1>5. ASSUME NEW e \in 1 .. MaxEffects  PROVE EffectMatches(e)'
  <2>1. /\ Cardinality(Marking(e)') \in Nat /\ Cardinality(Marking(e)) \in Nat
        /\ Cardinality(Firing(e)') \in Nat /\ Cardinality(Firing(e)) \in Nat
        /\ Cardinality(Marking(e)') >= Cardinality(Marking(e)) - 1
        /\ Cardinality(Firing(e)') <= Cardinality(Firing(e))
    BY <1>3, EffectCounts, IdleIsOut DEF One
  <2> QED
    BY <2>1, <1>1, <1>2, EffectFacts, ProcsCount DEF ProxyInv, EffectMatches
<1>6. ASSUME NEW r \in 1 .. MaxRuns, NEW k \in EffectKeys  PROVE KeyMatches(r, k)'
  <2>1. /\ Cardinality(Recorders(r, k)') \in Nat /\ Cardinality(Recorders(r, k)) \in Nat
        /\ Cardinality(Executors(r, k)') \in Nat /\ Cardinality(Executors(r, k)) \in Nat
        /\ Cardinality(Recorders(r, k)') >= Cardinality(Recorders(r, k)) - 1
        /\ Cardinality(Executors(r, k)') <= Cardinality(Executors(r, k))
    BY <1>2, <1>3, KeyCounts, IdleIsOut DEF One
  <2> QED
    BY <2>1, <1>1, <1>2, EffectFacts, ProcsCount, RecordedStays DEF ProxyInv, KeyMatches
<1> QED
  BY <1>2, <1>3, <1>4, <1>5, <1>6, ProxyInvNext

LEMMA StartFlushKeeps ==
  ASSUME ProxyInv, NEW p \in Procs, NEW b \in BranchIds, StartFlush(p, b)
  PROVE  ProxyInv'
<1>0. PICK c \in PastHeads(b) :
         LET listed == {e \in StagedOn(c) : RunOfEffect(e) = branches[b].run}
         IN  /\ listed # {}
             /\ calls' = [calls EXCEPT ![p] = [pc |-> "flush", branch |-> b, todo |-> listed]]
  BY DEF StartFlush
<1>1. PICK todo :
         /\ todo = {e \in StagedOn(c) : RunOfEffect(e) = branches[b].run} /\ todo # {}
         /\ calls' = [calls EXCEPT ![p] = [pc |-> "flush", branch |-> b, todo |-> todo]]
  BY <1>0
<1>2. /\ UNCHANGED storeVars /\ sent' = sent /\ charged' = charged /\ failures' = failures
      /\ calls[p] = Idle /\ Idle.pc = "idle"
  BY CallShapes DEF StartFlush, Busy, Idle
<1>3. /\ StoreInv' /\ StoreGrows /\ QuietEffects /\ EffectIds' = EffectIds
      /\ staged_effects' = staged_effects /\ BranchIds' = BranchIds
  BY <1>2, SameStore
<1> DEFINE call == [pc |-> "flush", branch |-> b, todo |-> todo]
<1>4. call.pc = "flush" /\ call.branch = b /\ call.todo = todo
  OBVIOUS
<1>5. /\ todo \subseteq EffectIds
      /\ \A e \in todo : /\ staged_effects[e].status = "staged" /\ staged_effects[e].mode = "staged"
                         /\ RunOfEffect(e) = branches[b].run
                         /\ staged_effects[e].checkpoint \in lineage[branches[b].head]
  <2>1. lineage[c] \subseteq lineage[branches[b].head]
    BY PastHeadsAreAncestors DEF ProxyInv
  <2>2. ASSUME NEW e \in todo
        PROVE  /\ e \in EffectIds /\ staged_effects[e].status = "staged"
               /\ staged_effects[e].checkpoint \in lineage[c]
               /\ RunOfEffect(e) = branches[b].run
    BY <1>1 DEF StagedOn
  <2>3. \A e \in todo : staged_effects[e].mode = "staged"
    BY <2>2 DEF ProxyInv, ModesOK
  <2> QED
    BY <2>1, <2>2, <2>3
<1>6. CallOK(call)
  <2>1. call \in FlushCalls
    BY <1>1, <1>5 DEF FlushCalls
  <2> QED
    BY <2>1, <1>4, <1>5 DEF FlushOK, CallOK
<1> HIDE DEF call
<1>7. Moves(p, call) /\ CallOK(call)'
  <2>1. SentGrows
    BY <1>2 DEF SentGrows
  <2> QED
    BY <2>1, <1>1, <1>3, <1>6, CallsMove, CallsStayOK DEF ProxyInv, call
<1>8. ASSUME NEW e \in 1 .. MaxEffects  PROVE EffectMatches(e)'
  <2>1. /\ ~IsMarking(calls[p], e) /\ ~IsFiring(calls[p], e) /\ ~IsMarking(call, e)
        /\ IsFiring(call, e) <=> e \in todo
    BY <1>2, <1>4 DEF IsMarking, IsFiring
  <2>2. CASE e \notin todo
    BY <2>1, <2>2, <1>2, <1>3, <1>7, QuietEffectMatches
  <2>3. CASE e \in todo
    <3>1. /\ Cardinality(Marking(e)') = Cardinality(Marking(e))
          /\ Cardinality(Firing(e)') = Cardinality(Firing(e)) + 1
          /\ Cardinality(Marking(e)) \in Nat /\ Cardinality(Firing(e)) \in Nat
      BY <2>1, <2>3, <1>7, EffectCounts DEF One
    <3>2. Cardinality(Marking(e)) + Cardinality(Firing(e)) + 1 <= Cardinality(Procs)
      <4>1. /\ Marking(e) \in SUBSET Procs /\ Firing(e) \in SUBSET Procs
            /\ Marking(e) \cap Firing(e) = {} /\ p \notin Marking(e) /\ p \notin Firing(e)
        BY <2>1 DEF Marking, Firing, IsMarking, IsFiring
      <4> QED
        BY <4>1, TwoDisjoint
    <3>3. e \in EffectIds /\ staged_effects[e].status = "staged"
      BY <2>3, <1>5
    <3>4. sent[e] <= failures + Cardinality(Marking(e)) /\ sent[e] \in Nat /\ failures \in Nat
      BY <3>3, EffectFacts DEF ProxyInv, EffectMatches
    <3> QED
      BY <3>1, <3>2, <3>3, <3>4, <1>2, <1>3, ProcsCount DEF EffectMatches
  <2> QED
    BY <2>2, <2>3
<1>9. ASSUME NEW r \in 1 .. MaxRuns, NEW k \in EffectKeys  PROVE KeyMatches(r, k)'
  <2>1. \A pc \in {"execute", "record"} : ~IsAt(pc, calls[p], r, k) /\ ~IsAt(pc, call, r, k)'
    BY <1>2, <1>4 DEF IsAt
  <2> QED
    BY <2>1, <1>2, <1>3, <1>7, QuietKeyMatches
<1> QED
  BY <1>2, <1>3, <1>7, <1>8, <1>9, QuietNext

(* A call looks its key up and goes on only when the key is not recorded.  *)
LEMMA LookUpFindsNothing ==
  ASSUME ProxyInv, NEW p \in Procs, NEW b \in BranchIds, NEW key \in EffectKeys, LookUp(p, b, key)
  PROVE  ~Recorded(branches[b].run, key)
<1>1. PICK found : found = WithKey(branches[b].run, key)
  OBVIOUS
<1>2. found # {} => staged_effects[First(found)].status # "committed"
  BY <1>1 DEF LookUp, find_effect_by_key
<1>3. /\ \A e \in found : e \in EffectIds /\ staged_effects[e].key # NoKey
      /\ found \subseteq EffectIds
  BY <1>1, DistinctMarkers DEF WithKey
<1>4. \A e \in found : staged_effects[e].status = "committed"
  BY <1>3 DEF ProxyInv, ModesOK
<1>5. found # {} => First(found) \in found
  BY <1>3, FirstIsListed DEF EffectIds
<1>6. found = {}
  BY <1>2, <1>4, <1>5
<1> QED
  BY <1>1, <1>6 DEF Recorded

LEMMA LookUpKeeps ==
  ASSUME ProxyInv, NEW p \in Procs, NEW b \in BranchIds, NEW key \in EffectKeys, LookUp(p, b, key)
  PROVE  ProxyInv'
<1> DEFINE call == [pc |-> "execute", branch |-> b, key |-> key]
           run == branches[b].run
<1>1. /\ UNCHANGED storeVars /\ sent' = sent /\ charged' = charged /\ failures' = failures
      /\ calls[p] = Idle /\ Idle.pc = "idle" /\ calls' = [calls EXCEPT ![p] = call]
  BY CallShapes DEF LookUp, Busy, Idle
<1>2. /\ StoreInv' /\ StoreGrows /\ QuietEffects /\ staged_effects' = staged_effects
      /\ branches' = branches /\ EffectIds' = EffectIds
  BY <1>1, SameStore
<1>3. call.pc = "execute" /\ call.branch = b /\ call.key = key /\ CallOK(call)
  BY DEF CallOK, KeyCalls
<1> HIDE DEF call
<1>4. Moves(p, call) /\ CallOK(call)'
  <2>1. SentGrows
    BY <1>1 DEF SentGrows
  <2> QED
    BY <2>1, <1>1, <1>2, <1>3, CallsMove, CallsStayOK DEF ProxyInv
<1>5. ASSUME NEW e \in 1 .. MaxEffects  PROVE EffectMatches(e)'
  <2>1. /\ ~IsMarking(calls[p], e) /\ ~IsFiring(calls[p], e)
        /\ ~IsMarking(call, e) /\ ~IsFiring(call, e)
    BY <1>1, <1>3 DEF IsMarking, IsFiring
  <2> QED
    BY <2>1, <1>1, <1>2, <1>4, QuietEffectMatches
<1>6. ASSUME NEW r \in 1 .. MaxRuns, NEW k \in EffectKeys  PROVE KeyMatches(r, k)'
  <2>1. /\ ~IsAt("record", calls[p], r, k) /\ ~IsAt("execute", calls[p], r, k)
        /\ ~IsAt("record", call, r, k)'
        /\ IsAt("execute", call, r, k)' <=> r = run /\ k = key
    BY <1>1, <1>2, <1>3 DEF IsAt
  <2>2. CASE ~(r = run /\ k = key)
    BY <2>1, <2>2, <1>1, <1>2, <1>4, QuietKeyMatches
  <2>3. CASE r = run /\ k = key
    <3>1. /\ Cardinality(Recorders(r, k)') = Cardinality(Recorders(r, k))
          /\ Cardinality(Executors(r, k)') = Cardinality(Executors(r, k)) + 1
          /\ Cardinality(Recorders(r, k)) \in Nat /\ Cardinality(Executors(r, k)) \in Nat
      BY <2>1, <2>3, <1>2, <1>4, KeyCounts DEF One
    <3>2. Cardinality(Recorders(r, k)) + Cardinality(Executors(r, k)) + 1 <= Cardinality(Procs)
      <4>1. /\ Recorders(r, k) \in SUBSET Procs /\ Executors(r, k) \in SUBSET Procs
            /\ Recorders(r, k) \cap Executors(r, k) = {}
            /\ p \notin Recorders(r, k) /\ p \notin Executors(r, k)
        BY <2>1 DEF Recorders, Executors, IsAt
      <4> QED
        BY <4>1, TwoDisjoint
    <3>3. ~Recorded(r, k)
      BY <2>3, LookUpFindsNothing
    <3>4. charged[r][k] <= failures + Cardinality(Recorders(r, k))
      BY <3>3 DEF ProxyInv, KeyMatches
    <3> QED
      BY <3>1, <3>2, <3>4, <1>1, EffectFacts, ProcsCount DEF KeyMatches
  <2> QED
    BY <2>2, <2>3
<1> QED
  BY <1>1, <1>2, <1>4, <1>5, <1>6, QuietNext

(* The executor of a key fires.                                            *)
LEMMA ExecuteShape ==
  ASSUME ProxyInv, NEW p \in Procs, Execute(p), NEW run, run = branches[calls[p].branch].run
  PROVE  /\ run \in 1 .. MaxRuns /\ calls[p].key \in EffectKeys
         /\ charged' \in [1 .. MaxRuns -> [EffectKeys -> Nat]]
         /\ \A r \in 1 .. MaxRuns, k \in EffectKeys :
               charged'[r][k] = charged[r][k] + One(r = run /\ k = calls[p].key)
<1>1. calls[p] \in KeyCalls /\ calls[p].branch \in BranchIds /\ calls[p].key \in EffectKeys
  BY CallShapes DEF Execute, KeyCalls
<1>2. run \in 1 .. MaxRuns
  BY <1>1, EffectFacts
<1>3. PICK key \in EffectKeys : key = calls[p].key
  BY <1>1
<1> DEFINE row == [charged[run] EXCEPT ![key] = charged[run][key] + 1]
<1>4. charged' = [charged EXCEPT ![run] = row]
  BY <1>3 DEF Execute
<1>5. charged \in [1 .. MaxRuns -> [EffectKeys -> Nat]]
  BY DEF ProxyInv, WorldOK
<1>6. /\ row \in [EffectKeys -> Nat]
      /\ \A k \in EffectKeys : row[k] = charged[run][k] + One(k = key)
  <2>1. charged[run] \in [EffectKeys -> Nat]
    BY <1>2, <1>5
  <2> QED
    BY <2>1 DEF One
<1> HIDE DEF row
<1>7. /\ charged' \in [1 .. MaxRuns -> [EffectKeys -> Nat]] /\ charged'[run] = row
      /\ \A r \in 1 .. MaxRuns : r # run => charged'[r] = charged[r]
  BY <1>2, <1>4, <1>5, <1>6
<1>8. \A r \in 1 .. MaxRuns, k \in EffectKeys : charged[r][k] \in Nat
  BY <1>5
<1> QED
  BY <1>1, <1>2, <1>3, <1>6, <1>7, <1>8 DEF One

LEMMA ExecuteKeeps ==
  ASSUME ProxyInv, NEW p \in Procs, Execute(p)
  PROVE  ProxyInv'
<1>0. PICK call : call = [calls[p] EXCEPT !.pc = "record"]
  OBVIOUS
<1>1. PICK run : run = branches[calls[p].branch].run
  OBVIOUS
<1>2. /\ UNCHANGED storeVars /\ sent' = sent /\ failures' = failures
      /\ calls[p].pc = "execute" /\ calls[p] \in KeyCalls /\ calls' = [calls EXCEPT ![p] = call]
  BY <1>0, CallShapes DEF Execute
<1>3. /\ StoreInv' /\ StoreGrows /\ QuietEffects /\ staged_effects' = staged_effects
      /\ branches' = branches /\ EffectIds' = EffectIds
      /\ Len(staged_effects') <= MaxEffects /\ runs' <= MaxRuns
  BY <1>2, SameStore
<1>4. /\ call.pc = "record" /\ call.branch = calls[p].branch /\ call.key = calls[p].key
      /\ call \in KeyCalls
  BY <1>0, <1>2 DEF KeyCalls
<1>5. CallOK(call)
  BY <1>4 DEF CallOK
<1>6. SentGrows /\ Moves(p, call) /\ CallOK(call)'
  <2>1. SentGrows
    BY <1>2 DEF SentGrows
  <2> QED
    BY <2>1, <1>2, <1>3, <1>5, CallsMove, CallsStayOK DEF ProxyInv
<1>7. WorldOK' /\ ModesOK'
  BY <1>1, <1>2, <1>3, ExecuteShape, QuietModes DEF ProxyInv, WorldOK
<1>8. ASSUME NEW e \in 1 .. MaxEffects  PROVE EffectMatches(e)'
  <2>1. /\ ~IsMarking(calls[p], e) /\ ~IsFiring(calls[p], e)
        /\ ~IsMarking(call, e) /\ ~IsFiring(call, e)
    BY <1>2, <1>4 DEF IsMarking, IsFiring
  <2> QED
    BY <2>1, <1>2, <1>3, <1>6, QuietEffectMatches
<1>9. ASSUME NEW r \in 1 .. MaxRuns, NEW k \in EffectKeys  PROVE KeyMatches(r, k)'
  <2>1. /\ ~IsAt("record", calls[p], r, k) /\ ~IsAt("execute", call, r, k)'
        /\ IsAt("record", call, r, k)' <=> r = run /\ k = calls[p].key
        /\ IsAt("execute", calls[p], r, k) <=> r = run /\ k = calls[p].key
    BY <1>1, <1>2, <1>3, <1>4 DEF IsAt
  <2>2. /\ Cardinality(Recorders(r, k)) \in Nat /\ Cardinality(Recorders(r, k)') \in Nat
        /\ Cardinality(Executors(r, k)) \in Nat /\ Cardinality(Executors(r, k)') \in Nat
        /\ Cardinality(Recorders(r, k)')
              = Cardinality(Recorders(r, k)) + One(r = run /\ k = calls[p].key)
        /\ Cardinality(Executors(r, k)') + One(r = run /\ k = calls[p].key)
              = Cardinality(Executors(r, k))
    BY <2>1, <1>3, <1>6, KeyCounts DEF One
  <2>3. charged'[r][k] = charged[r][k] + One(r = run /\ k = calls[p].key)
    BY <1>1, ExecuteShape
  <2> QED
    BY <2>2, <2>3, <1>2, <1>3, EffectFacts, ProcsCount, RecordedStays DEF ProxyInv, KeyMatches, One
<1> QED
  BY <1>3, <1>6, <1>7, <1>8, <1>9, ProxyInvNext

LEMMA RecordResultKeeps ==
  ASSUME ProxyInv, NEW p \in Procs, RecordResult(p)
  PROVE  ProxyInv'
<1>1. PICK b, key, run : b = calls[p].branch /\ key = calls[p].key /\ run = branches[b].run
  OBVIOUS
<1>2. PICK c \in PastHeads(b) : record_effect(b, c, "idempotent", key, "committed")
  BY <1>1 DEF RecordResult
<1>3. /\ sent' = sent /\ charged' = charged /\ failures' = failures
      /\ calls[p].pc = "record" /\ calls[p] \in KeyCalls /\ calls' = [calls EXCEPT ![p] = Idle]
      /\ b \in BranchIds /\ key \in EffectKeys /\ c \in CheckpointIds
  <2>1. calls[p].pc = "record" /\ calls[p] \in KeyCalls
    BY CallShapes DEF RecordResult
  <2> QED
    BY <2>1, <1>1, <1>2 DEF RecordResult, KeyCalls, PastHeads
<1>4. [Next]_storeVars
  BY <1>2, <1>3 DEF Next, Record
<1>5. StoreInv' /\ StoreGrows /\ QuietEffects
  BY <1>2, <1>4, StoreStep, StoreStepGrows, RecordQuiet DEF ProxyInv, StoreInv
<1>6. Moves(p, Idle) /\ CallOK(Idle)' /\ Idle.pc = "idle"
  BY <1>3, CallsMove DEF ProxyInv, CallOK, Idle
<1>7. ASSUME NEW e \in 1 .. MaxEffects  PROVE EffectMatches(e)'
  <2>1. ~IsMarking(calls[p], e) /\ ~IsFiring(calls[p], e) /\ ~IsMarking(Idle, e) /\ ~IsFiring(Idle, e)
    BY <1>3, <1>6 DEF IsMarking, IsFiring
  <2> QED
    BY <2>1, <1>3, <1>5, <1>6, QuietEffectMatches
<1>8. Recorded(run, key)'
  <2>1. PICK n : n = Len(staged_effects) + 1
    OBVIOUS
  <2>2. /\ n \in EffectIds'
        /\ staged_effects'[n] = [branch |-> b, checkpoint |-> c, mode |-> "idempotent",
                                 key |-> key, status |-> "committed"]
    BY <2>1, <1>2, EffectFacts, RecordShape
  <2>3. RunOfEffect(n)' = run
    BY <2>2, <1>1, <1>3, <1>5 DEF RunOfEffect, StoreGrows
  <2> QED
    BY <2>2, <2>3 DEF Recorded, WithKey
<1>9. ASSUME NEW r \in 1 .. MaxRuns, NEW k \in EffectKeys  PROVE KeyMatches(r, k)'
  <2>1. /\ ~IsAt("execute", calls[p], r, k) /\ ~IsAt("execute", Idle, r, k)'
        /\ ~IsAt("record", Idle, r, k)'
        /\ IsAt("record", calls[p], r, k) => r = run /\ k = key
    BY <1>1, <1>3, <1>6 DEF IsAt
  <2> QED
    BY <2>1, <1>3, <1>5, <1>6, <1>8, QuietKeyMatches
<1> QED
  BY <1>3, <1>5, <1>6, <1>7, <1>9, QuietNext

(* What a flush is about to do.                                            *)
LEMMA FlushFacts ==
  ASSUME ProxyInv, NEW p \in Procs, InFlush(p)
  PROVE  /\ FlushOK(calls[p]) /\ calls[p].todo \subseteq EffectIds
         /\ calls[p].branch \in BranchIds
         /\ First(calls[p].todo) \in calls[p].todo /\ First(calls[p].todo) \in EffectIds
         /\ First(calls[p].todo) \in 1 .. MaxEffects
         /\ staged_effects[First(calls[p].todo)].mode = "staged"
         /\ calls[p].pc = "mark" => sent[First(calls[p].todo)] > 0
<1>1. FlushOK(calls[p])
  BY CallShapes DEF InFlush
<1>2. calls[p] \in FlushCalls
  BY <1>1 DEF FlushOK
<1>3. /\ calls[p].todo \subseteq EffectIds /\ calls[p].branch \in BranchIds
      /\ First(calls[p].todo) \in calls[p].todo /\ First(calls[p].todo) \in EffectIds
  BY <1>2, FlushCallShape
<1> QED
  BY <1>1, <1>3, EffectFacts DEF FlushOK

LEMMA FlushExecuteShape ==
  ASSUME ProxyInv, NEW p \in Procs, FlushExecute(p), NEW f, f = First(calls[p].todo)
  PROVE  /\ sent' \in [1 .. MaxEffects -> Nat]
         /\ \A e \in 1 .. MaxEffects : sent'[e] = sent[e] + One(e = f)
<1>1. f \in 1 .. MaxEffects
  BY FlushFacts DEF FlushExecute, InFlush
<1>2. sent' = [sent EXCEPT ![f] = sent[f] + 1] /\ sent \in [1 .. MaxEffects -> Nat]
  BY DEF FlushExecute, ProxyInv, WorldOK
<1> QED
  BY <1>1, <1>2 DEF One

LEMMA FlushExecuteKeeps ==
  ASSUME ProxyInv, NEW p \in Procs, FlushExecute(p)
  PROVE  ProxyInv'
<1>1. PICK f, call : f = First(calls[p].todo) /\ call = [calls[p] EXCEPT !.pc = "mark"]
  OBVIOUS
<1>2. /\ UNCHANGED storeVars /\ charged' = charged /\ failures' = failures
      /\ calls[p].pc = "flush" /\ calls' = [calls EXCEPT ![p] = call]
  BY <1>1 DEF FlushExecute
<1>3. /\ StoreInv' /\ StoreGrows /\ QuietEffects /\ staged_effects' = staged_effects
      /\ branches' = branches /\ EffectIds' = EffectIds
      /\ Len(staged_effects') <= MaxEffects /\ runs' <= MaxRuns
  BY <1>2, SameStore
<1>4. /\ FlushOK(calls[p]) /\ f \in calls[p].todo /\ f \in EffectIds /\ f \in 1 .. MaxEffects
      /\ calls[p] \in FlushCalls
  BY <1>1, <1>2, FlushFacts DEF InFlush, FlushOK
<1>5. /\ call.pc = "mark" /\ call.branch = calls[p].branch /\ call.todo = calls[p].todo
      /\ call \in FlushCalls
  BY <1>1, <1>4 DEF FlushCalls
<1>6. /\ sent' \in [1 .. MaxEffects -> Nat]
      /\ \A e \in 1 .. MaxEffects : sent'[e] = sent[e] + One(e = f)
  BY <1>1, FlushExecuteShape
<1>7. SentGrows /\ sent'[f] > 0
  BY <1>4, <1>6, EffectFacts DEF SentGrows, One
<1>8. Moves(p, call)
  BY <1>2, CallsMove DEF ProxyInv
<1>9. CallOK(call)'
  <2>1. PICK old : old = calls[p]
    OBVIOUS
  <2>2. FlushOK(old)'
    <3>1. CallOK(old)'
      BY <2>1, <1>3, <1>4, <1>7, CallsStayOK DEF CallOK
    <3>2. old.pc = "flush"
      BY <2>1, <1>2
    <3> QED
      BY <3>1, <3>2 DEF CallOK, Idle, KeyCalls
  <2>3. FlushOK(call)'
    <3>1. call \in FlushCalls'
      BY <1>3, <1>5 DEF FlushCalls, BranchIds
    <3> QED
      BY <3>1, <2>1, <2>2, <1>1, <1>5, <1>7 DEF FlushOK
  <2> QED
    BY <2>3 DEF CallOK
<1>10. WorldOK' /\ ModesOK'
  BY <1>2, <1>3, <1>6, QuietModes DEF ProxyInv, WorldOK
<1>11. ASSUME NEW e \in 1 .. MaxEffects  PROVE EffectMatches(e)'
  <2>1. /\ ~IsMarking(calls[p], e)
        /\ IsMarking(call, e) <=> e = f
        /\ IsFiring(calls[p], e) <=> e \in calls[p].todo
        /\ IsFiring(call, e) <=> e \in calls[p].todo /\ e # f
    BY <1>1, <1>2, <1>5 DEF IsMarking, IsFiring
  <2>2. /\ Cardinality(Marking(e)) \in Nat /\ Cardinality(Marking(e)') \in Nat
        /\ Cardinality(Firing(e)) \in Nat /\ Cardinality(Firing(e)') \in Nat
        /\ Cardinality(Marking(e)') = Cardinality(Marking(e)) + One(e = f)
        /\ Cardinality(Firing(e)') + One(e = f) = Cardinality(Firing(e))
    BY <2>1, <1>4, <1>8, EffectCounts DEF One
  <2> QED
    <3>1. sent'[e] = sent[e] + One(e = f) /\ sent[e] \in Nat
      BY <1>6, EffectFacts
    <3>2. EffectMatches(e) /\ failures \in Nat
      BY EffectFacts DEF ProxyInv
    <3> QED
      BY <2>2, <3>1, <3>2, <1>2, <1>3, <1>4, ProcsCount DEF EffectMatches, One
<1>12. ASSUME NEW r \in 1 .. MaxRuns, NEW k \in EffectKeys  PROVE KeyMatches(r, k)'
  <2>1. \A pc \in {"execute", "record"} : ~IsAt(pc, calls[p], r, k) /\ ~IsAt(pc, call, r, k)'
    BY <1>2, <1>5 DEF IsAt
  <2> QED
    BY <2>1, <1>2, <1>3, <1>8, <1>9, QuietKeyMatches
<1> QED
  BY <1>3, <1>7, <1>8, <1>9, <1>10, <1>11, <1>12, ProxyInvNext

(* How a flush goes on once its first effect is done.                      *)
LEMMA ContinueShape ==
  ASSUME ProxyInv, NEW p \in Procs, calls[p].pc = "mark", Continue(p)
  PROVE  \E call :
            /\ Moves(p, call) /\ CallOK(call)
            /\ \/ call = Idle
               \/ /\ call.pc = "flush" /\ FlushOK(call) /\ call.branch = calls[p].branch
                  /\ call.todo = calls[p].todo \ {First(calls[p].todo)}
            /\ \A e : (call = Idle \/ e \notin call.todo) =>
                  e = First(calls[p].todo) \/ e \notin calls[p].todo
<1>1. PICK f, b, todo : f = First(calls[p].todo) /\ b = calls[p].branch /\ todo = calls[p].todo
  OBVIOUS
<1>2. FlushOK(calls[p]) /\ todo \subseteq EffectIds /\ b \in BranchIds /\ f \in todo
  BY <1>1, FlushFacts DEF InFlush
<1> DEFINE rest == todo \ {f}
           more == [pc |-> "flush", branch |-> b, todo |-> rest]
<1>3. calls' = [calls EXCEPT ![p] = IF rest = {} THEN Idle ELSE more]
  BY <1>1 DEF Continue
<1>4. more.pc = "flush" /\ more.branch = b /\ more.todo = rest
  OBVIOUS
<1>5. CASE rest = {}
  <2>1. Moves(p, Idle) /\ CallOK(Idle)
    BY <1>3, <1>5, CallsMove DEF ProxyInv, CallOK
  <2>2. \A e : e = f \/ e \notin todo
    BY <1>5
  <2> QED
    BY <2>1, <2>2, <1>1
<1>6. CASE rest # {}
  <2>1. more \in FlushCalls
    BY <1>2, <1>6 DEF FlushCalls
  <2> HIDE DEF more
  <2>2. Moves(p, more)
    BY <1>3, <1>6, CallsMove DEF ProxyInv
  <2>3. FlushOK(more)
    BY <2>1, <1>1, <1>2, <1>4 DEF FlushOK
  <2>4. \A e : e \notin more.todo => e = f \/ e \notin todo
    BY <1>4
  <2>5. more # Idle
    BY <1>4 DEF Idle
  <2> QED
    BY <2>2, <2>3, <2>4, <2>5, <1>1, <1>4 DEF CallOK
<1> QED
  BY <1>5, <1>6

LEMMA FlushMarkKeeps ==
  ASSUME ProxyInv, NEW p \in Procs, FlushMark(p)
  PROVE  ProxyInv'
<1>1. PICK f : f = First(calls[p].todo)
  OBVIOUS
<1>2. /\ calls[p].pc = "mark" /\ set_effect_status(f, "committed") /\ Continue(p)
      /\ sent' = sent /\ charged' = charged /\ failures' = failures
  BY <1>1 DEF FlushMark
<1>3. /\ f \in EffectIds /\ f \in calls[p].todo /\ staged_effects[f].mode = "staged" /\ sent[f] > 0
  BY <1>1, <1>2, FlushFacts DEF InFlush
<1>4. [Next]_storeVars
  BY <1>2, <1>3 DEF Next, Flushed
<1>5. StoreInv' /\ StoreGrows
  BY <1>4, StoreStep, StoreStepGrows DEF ProxyInv, StoreInv
<1>6. /\ EffectIds' = EffectIds /\ runs' = runs
      /\ \A e \in EffectIds :
            /\ staged_effects'[e].mode = staged_effects[e].mode
            /\ staged_effects'[e].key = staged_effects[e].key
            /\ staged_effects'[e].status = IF e = f THEN "committed" ELSE staged_effects[e].status
  BY <1>2, <1>3, EffectFacts, SetStatusShape DEF history
<1>7. WorldOK' /\ ModesOK' /\ SentGrows
  <2>1. Len(staged_effects') = Len(staged_effects)
    BY <1>2, <1>3 DEF set_effect_status, EffectIds, ProxyInv, StoreInv, TreeInv, TypeOK
  <2>2. ModesOK'
    BY <1>6 DEF ProxyInv, ModesOK
  <2> QED
    BY <2>1, <2>2, <1>2, <1>6 DEF ProxyInv, WorldOK, SentGrows
<1>8. PICK call :
         /\ Moves(p, call) /\ CallOK(call)
         /\ \/ call = Idle
            \/ /\ call.pc = "flush" /\ FlushOK(call) /\ call.branch = calls[p].branch
               /\ call.todo = calls[p].todo \ {f}
         /\ \A e : (call = Idle \/ e \notin call.todo) => e = f \/ e \notin calls[p].todo
  BY <1>1, <1>2, ContinueShape
<1>9. CallOK(call)' /\ call.pc \in {"idle", "flush"} /\ Idle.pc = "idle"
  BY <1>5, <1>7, <1>8, CallsStayOK DEF Idle
<1>10. ASSUME NEW e \in 1 .. MaxEffects  PROVE EffectMatches(e)'
  <2>1. /\ IsMarking(calls[p], e) <=> e = f
        /\ ~IsMarking(call, e)
        /\ IsFiring(calls[p], e) <=> e \in calls[p].todo /\ e # f
        /\ IsFiring(call, e) <=> e \in calls[p].todo /\ e # f
    BY <1>1, <1>2, <1>8, <1>9 DEF IsMarking, IsFiring
  <2>2. /\ Cardinality(Marking(e)) \in Nat /\ Cardinality(Marking(e)') \in Nat
        /\ Cardinality(Marking(e)') + One(e = f) = Cardinality(Marking(e))
        /\ Cardinality(Firing(e)') = Cardinality(Firing(e))
    BY <2>1, <1>8, EffectCounts DEF One
  <2>3. EffectMatches(e)
    BY DEF ProxyInv
  <2> QED
    BY <2>2, <2>3, <1>2, <1>3, <1>6 DEF EffectMatches, One
<1>11. ASSUME NEW r \in 1 .. MaxRuns, NEW k \in EffectKeys  PROVE KeyMatches(r, k)'
  <2>1. \A pc \in {"execute", "record"} : ~IsAt(pc, calls[p], r, k) /\ ~IsAt(pc, call, r, k)'
    BY <1>2, <1>9 DEF IsAt
  <2> QED
    BY <2>1, <1>2, <1>5, <1>8, <1>9, QuietKeyMatches
<1> QED
  BY <1>5, <1>7, <1>8, <1>9, <1>10, <1>11, ProxyInvNext

LEMMA ProxyInitial == ProxyInit => ProxyInv
<1> SUFFICES ASSUME ProxyInit  PROVE ProxyInv
  OBVIOUS
<1>1. /\ StoreInv /\ staged_effects = <<>> /\ runs = 0 /\ failures = 0
      /\ calls = [p \in Procs |-> Idle]
      /\ sent = [e \in 1 .. MaxEffects |-> 0]
      /\ charged = [r \in 1 .. MaxRuns |-> [k \in EffectKeys |-> 0]]
  BY StoreInit DEF ProxyInit, Init
<1>2. EffectIds = {} /\ Len(staged_effects) = 0
  BY <1>1, EmptySeq DEF EffectIds
<1>3. WorldOK /\ ModesOK
  BY <1>1, <1>2, BoundsAreNumbers DEF WorldOK, ModesOK
<1>4. DOMAIN calls = Procs /\ \A p \in Procs : calls[p] = Idle /\ CallOK(calls[p])
  BY <1>1 DEF CallOK
<1>5. Cardinality({}) = 0 /\ Cardinality(Procs) \in Nat
  BY FS_EmptySet, ProcsCount
<1>6. ASSUME NEW e \in 1 .. MaxEffects  PROVE EffectMatches(e)
  <2>1. Firing(e) = {}
    BY <1>4 DEF Firing, IsFiring, Idle
  <2> QED
    BY <2>1, <1>1, <1>2, <1>5 DEF EffectMatches
<1>7. ASSUME NEW r \in 1 .. MaxRuns, NEW k \in EffectKeys  PROVE KeyMatches(r, k)
  <2>1. Executors(r, k) = {} /\ Recorders(r, k) = {}
    BY <1>4 DEF Executors, Recorders, IsAt, Idle
  <2> QED
    BY <2>1, <1>1, <1>5 DEF KeyMatches
<1> QED
  BY <1>1, <1>3, <1>4, <1>6, <1>7 DEF ProxyInv

LEMMA ProxyStep == ProxyInv /\ [ProxyNext]_proxyVars => ProxyInv'
  BY UseStoreKeeps, LookUpKeeps, ExecuteKeeps, RecordResultKeeps, StartFlushKeeps,
     FlushExecuteKeeps, FlushMarkKeeps, InterruptKeeps, StutterKeeps DEF ProxyNext

LEMMA ProxyInvariant == ProxySpec => []ProxyInv
  BY ProxyInitial, ProxyStep, PTL DEF ProxySpec

-----------------------------------------------------------------------------
(* The invariants of ToolProxy.                                            *)

(* The rows, the calls and the counts have their types: a flush in the     *)
(* middle of its list has something left on it, of effects that exist.     *)
THEOREM ProxyTypeCorrectness == ProxySpec => []ProxyTypeOK
<1>1. ProxyInv => ProxyTypeOK
  <2> SUFFICES ASSUME ProxyInv  PROVE ProxyTypeOK
    OBVIOUS
  <2>1. TypeOK
    BY DEF ProxyInv, StoreInv, TreeInv
  <2>2. \A p \in Procs : calls[p] = Idle \/ calls[p] \in KeyCalls \/ calls[p] \in FlushCalls
    BY DEF ProxyInv, CallOK, FlushOK
  <2> QED
    BY <2>1, <2>2 DEF ProxyTypeOK, ProxyInv, WorldOK, KeyCalls, FlushCalls
<1> QED
  BY <1>1, ProxyInvariant, PTL

(* A flush works through effects of its branch's run that lie on the       *)
(* lineage of the branch's head, though it read both some time ago.        *)
THEOREM FlushesStayOnLineage == ProxySpec => []FlushStaysOnLineage
<1>1. ProxyInv => FlushStaysOnLineage
  BY FlushFacts DEF FlushStaysOnLineage, FlushOK
<1> QED
  BY <1>1, ProxyInvariant, PTL

(* A staged effect was sent only by flushes that will mark it or were      *)
(* interrupted, and a committed one was sent.                              *)
THEOREM RowsAgreeWithWorld == ProxySpec => []RowsMatchWorld
<1>1. ProxyInv => RowsMatchWorld
  <2> SUFFICES ASSUME ProxyInv, NEW e \in EffectIds, staged_effects[e].mode = "staged"
               PROVE  /\ staged_effects[e].status = "committed" => sent[e] > 0
                      /\ staged_effects[e].status = "staged" =>
                            sent[e] <= failures + Cardinality({p \in Procs :
                                calls[p].pc = "mark" /\ First(calls[p].todo) = e})
    <3>1. ProxyInv => \A e \in EffectIds : staged_effects[e].status \in {"staged", "committed", "discarded"}
      BY EffectFacts, StoreFacts
    <3> QED
      BY <3>1 DEF RowsMatchWorld
  <2>1. EffectMatches(e)
    BY EffectFacts DEF ProxyInv
  <2> QED
    BY <2>1 DEF EffectMatches, Marking, IsMarking
<1> QED
  BY <1>1, ProxyInvariant, PTL

(* An effect is executed and a key charged once per process at most, and   *)
(* once more for every interrupted call.                                   *)
THEOREM FiringsAreBounded == ProxySpec => []FiresAreBounded
<1>1. ProxyInv => FiresAreBounded
  <2> SUFFICES ASSUME ProxyInv  PROVE FiresAreBounded
    OBVIOUS
  <2>1. ASSUME NEW S \in SUBSET Procs  PROVE Cardinality(S) \in Nat
    BY ProcsAreFinite, FS_Subset, FS_CardinalityType
  <2>2. ASSUME NEW e \in EffectIds  PROVE sent[e] <= Cardinality(Procs) + failures
    <3>1. e \in 1 .. MaxEffects /\ Firing(e) \in SUBSET Procs
      BY EffectFacts DEF Firing
    <3>2. sent[e] + Cardinality(Firing(e)) <= failures + Cardinality(Procs)
      BY <3>1 DEF ProxyInv, EffectMatches
    <3> QED
      BY <2>1, <3>1, <3>2, EffectFacts, ProcsCount
  <2>3. ASSUME NEW r \in 1 .. runs, NEW k \in EffectKeys
        PROVE  charged[r][k] <= Cardinality(Procs) + failures
    <3>1. r \in 1 .. MaxRuns /\ Executors(r, k) \in SUBSET Procs
      BY EffectFacts, BoundsAreNumbers DEF Executors
    <3>2. charged[r][k] + Cardinality(Executors(r, k)) <= failures + Cardinality(Procs)
      BY <3>1 DEF ProxyInv, KeyMatches
    <3> QED
      BY <2>1, <3>1, <3>2, EffectFacts, ProcsCount
  <2> QED
    BY <2>2, <2>3 DEF FiresAreBounded
<1> QED
  BY <1>1, ProxyInvariant, PTL

-----------------------------------------------------------------------------
(* What a step of the proxy may never do.                                  *)

LEMMA ProxyStoreStep ==
  ASSUME ProxyInv, [ProxyNext]_proxyVars
  PROVE  [Next]_storeVars
<1>1. ASSUME NEW p \in Procs, RecordResult(p)  PROVE [Next]_storeVars
  <2>1. calls[p] \in KeyCalls
    BY <1>1, CallShapes DEF RecordResult
  <2> QED
    BY <1>1, <2>1 DEF RecordResult, KeyCalls, PastHeads, Next, Record
<1>2. ASSUME NEW p \in Procs, FlushMark(p)  PROVE [Next]_storeVars
  BY <1>2, FlushFacts DEF FlushMark, InFlush, Next, Flushed
<1>3. UNCHANGED proxyVars => UNCHANGED storeVars
  BY DEF proxyVars
<1> QED
  BY <1>1, <1>2, <1>3, UseStoreIsQuiet
     DEF ProxyNext, LookUp, Execute, StartFlush, FlushExecute, Interrupt

LEMMA ProxyStepGrows ==
  ASSUME ProxyInv, [ProxyNext]_proxyVars
  PROVE  StoreGrows
  BY ProxyStoreStep, StoreStepGrows DEF ProxyInv, StoreInv

(* Only a look-up makes a process an executor.                             *)
LEMMA NewExecutors ==
  ASSUME ProxyInv, [ProxyNext]_proxyVars, NEW q \in Procs,
         calls'[q] # calls[q], calls'[q].pc = "execute"
  PROVE  \E b \in BranchIds, key \in EffectKeys : LookUp(q, b, key)
<1>1. ASSUME NEW p \in Procs, NEW call, Moves(p, call), call.pc # "execute"  PROVE FALSE
  BY <1>1 DEF Moves
<1>2. ASSUME NEW p \in Procs, NEW b \in BranchIds, NEW key \in EffectKeys, LookUp(p, b, key)
      PROVE  p = q
  BY <1>2 DEF LookUp, ProxyInv
<1>3. ASSUME NEW p \in Procs, Execute(p)  PROVE FALSE
  <2>1. PICK call : call = [calls[p] EXCEPT !.pc = "record"]
    OBVIOUS
  <2>2. call.pc = "record"
    BY <2>1, <1>3, CallShapes DEF Execute, KeyCalls
  <2>3. Moves(p, call)
    BY <2>1, <1>3, CallsMove DEF Execute, ProxyInv
  <2> QED
    BY <2>2, <2>3, <1>1
<1>4. ASSUME NEW p \in Procs, FlushExecute(p)  PROVE FALSE
  <2>1. PICK call : call = [calls[p] EXCEPT !.pc = "mark"]
    OBVIOUS
  <2>2. call.pc = "mark"
    BY <2>1, <1>4, FlushFacts DEF FlushExecute, InFlush, FlushOK, FlushCalls
  <2>3. Moves(p, call)
    BY <2>1, <1>4, CallsMove DEF FlushExecute, ProxyInv
  <2> QED
    BY <2>2, <2>3, <1>1
<1>5. ASSUME NEW p \in Procs, RecordResult(p) \/ Interrupt(p)  PROVE FALSE
  <2>1. Moves(p, Idle) /\ Idle.pc = "idle"
    BY <1>5, CallsMove DEF RecordResult, Interrupt, ProxyInv, Idle
  <2> QED
    BY <2>1, <1>1
<1>6. ASSUME NEW p \in Procs, NEW b \in BranchIds, StartFlush(p, b)  PROVE FALSE
  <2>1. PICK call : call.pc = "flush" /\ calls' = [calls EXCEPT ![p] = call]
    BY <1>6 DEF StartFlush
  <2> QED
    BY <2>1, <1>1, CallsMove DEF ProxyInv
<1>7. ASSUME NEW p \in Procs, FlushMark(p)  PROVE FALSE
  <2>1. PICK call : Moves(p, call) /\ (call = Idle \/ call.pc = "flush")
    BY <1>7, ContinueShape DEF FlushMark
  <2>2. call.pc # "execute"
    BY <2>1 DEF Idle
  <2> QED
    BY <2>1, <2>2, <1>1
<1> QED
  BY <1>2, <1>3, <1>4, <1>5, <1>6, <1>7 DEF ProxyNext, UseStore, proxyVars

LEMMA RecordedKeyIsQuiet ==
  ASSUME ProxyInv, [ProxyNext]_proxyVars, NEW r \in 1 .. runs, NEW k \in EffectKeys,
         Recorded(r, k)
  PROVE  /\ Recorded(r, k)'
         /\ Executors(r, k)' \subseteq Executors(r, k)
         /\ Executors(r, k) = {} => charged'[r][k] = charged[r][k]
<1>1. Recorded(r, k)' /\ StoreGrows
  BY ProxyStepGrows, RecordedStays
<1>2. ASSUME NEW q \in Procs, IsAt("execute", calls[q], r, k)'
      PROVE  IsAt("execute", calls[q], r, k)
  <2>1. CASE calls'[q] = calls[q]
    BY <2>1, <1>1, <1>2, SameKeyCalls DEF IsAt
  <2>2. CASE calls'[q] # calls[q]
    <3>1. PICK b \in BranchIds, key \in EffectKeys : LookUp(q, b, key)
      BY <2>2, <1>2, NewExecutors DEF IsAt
    <3>2. calls'[q] = [pc |-> "execute", branch |-> b, key |-> key] /\ branches' = branches
      BY <3>1 DEF LookUp, ProxyInv, storeVars
    <3>3. r = branches[b].run /\ k = key
      BY <3>2, <1>2 DEF IsAt
    <3> QED
      BY <3>1, <3>3, LookUpFindsNothing
  <2> QED
    BY <2>1, <2>2
<1>3. Executors(r, k)' \subseteq Executors(r, k)
  BY <1>2 DEF Executors, IsAt
<1>4. ASSUME Executors(r, k) = {}  PROVE charged'[r][k] = charged[r][k]
  <2>1. r \in 1 .. MaxRuns
    BY EffectFacts, BoundsAreNumbers
  <2>2. ASSUME NEW p \in Procs, Execute(p)  PROVE charged'[r][k] = charged[r][k]
    <3>1. PICK run : run = branches[calls[p].branch].run
      OBVIOUS
    <3>2. charged'[r][k] = charged[r][k] + One(r = run /\ k = calls[p].key)
      BY <2>1, <2>2, <3>1, ExecuteShape
    <3>3. ~(r = run /\ k = calls[p].key)
      BY <2>2, <3>1, <1>4 DEF Execute, Executors
    <3> QED
      BY <2>1, <3>2, <3>3, EffectFacts DEF One
  <2>3. ASSUME NEW p \in Procs, ~Execute(p),
               \/ UseStore(p) \/ RecordResult(p) \/ FlushExecute(p) \/ FlushMark(p) \/ Interrupt(p)
               \/ \E b \in BranchIds, key \in EffectKeys : LookUp(p, b, key)
               \/ \E b \in BranchIds : StartFlush(p, b)
        PROVE  charged' = charged
    BY <2>3 DEF UseStore, RecordResult, FlushExecute, FlushMark, Interrupt, LookUp, StartFlush
  <2> QED
    BY <2>2, <2>3 DEF ProxyNext, proxyVars
<1> QED
  BY <1>1, <1>3, <1>4

(* An effect recorded under a key stays recorded, and the key is executed  *)
(* only by calls that had looked it up before: a replay after any rewind   *)
(* returns the recorded result.                                            *)
THEOREM RecordedKeysStaySilent == ProxySpec => ReplayNeverFires
<1>1. ProxyInv /\ [ProxyNext]_proxyVars =>
        [\A r \in 1 .. runs, k \in EffectKeys : Recorded(r, k) =>
            /\ Recorded(r, k)'
            /\ Executors(r, k)' \subseteq Executors(r, k)
            /\ Executors(r, k) = {} => charged'[r][k] = charged[r][k]]_proxyVars
  BY RecordedKeyIsQuiet
<1> QED
  BY <1>1, ProxyInvariant, PTL DEF ProxySpec, ReplayNeverFires

DiscardedStays(e) ==
    /\ staged_effects'[e].status = "discarded"
    /\ sent'[e] = sent[e]
    /\ ~Listed(e)'

LEMMA NotListedAgain ==
  ASSUME NEW p \in Procs, NEW call, Moves(p, call), NEW e, ~Listed(e),
         ~(call.pc \in {"flush", "mark"} /\ e \in call.todo)
  PROVE  ~Listed(e)'
  BY DEF Moves, Listed, InFlush

LEMMA DiscardedIsSilent ==
  ASSUME ProxyInv, [ProxyNext]_proxyVars, NEW e \in EffectIds,
         staged_effects[e].status = "discarded", ~Listed(e)
  PROVE  DiscardedStays(e)
<1>1. ASSUME NEW p \in Procs, UseStore(p)  PROVE DiscardedStays(e)
  BY <1>1, UseStoreIsQuiet DEF UseStore, DiscardedStays, QuietEffects, Listed, InFlush
<1>2. ASSUME NEW p \in Procs, RecordResult(p)  PROVE DiscardedStays(e)
  <2>1. /\ QuietEffects /\ sent' = sent /\ calls' = [calls EXCEPT ![p] = Idle]
    BY <1>2, RecordQuiet DEF RecordResult
  <2>2. Moves(p, Idle) /\ Idle.pc = "idle"
    BY <2>1, CallsMove DEF ProxyInv, Idle
  <2> QED
    BY <2>1, <2>2, NotListedAgain DEF DiscardedStays, QuietEffects
<1>3. ASSUME NEW p \in Procs, NEW b \in BranchIds, StartFlush(p, b)  PROVE DiscardedStays(e)
  <2>0. PICK todo, call :
           /\ calls' = [calls EXCEPT ![p] = call] /\ call = [pc |-> "flush", branch |-> b, todo |-> todo]
           /\ \A d \in todo : staged_effects[d].status = "staged"
    <3>1. PICK c \in PastHeads(b) :
             LET todo == {d \in StagedOn(c) : RunOfEffect(d) = branches[b].run}
             IN  calls' = [calls EXCEPT ![p] = [pc |-> "flush", branch |-> b, todo |-> todo]]
      BY <1>3 DEF StartFlush
    <3>2. \A d \in StagedOn(c) : staged_effects[d].status = "staged"
      BY DEF StagedOn
    <3> QED
      BY <3>1, <3>2
  <2>1. call.pc = "flush" /\ call.todo = todo /\ e \notin todo
    BY <2>0
  <2>2. Moves(p, call) /\ e \notin call.todo
    BY <2>0, <2>1, CallsMove DEF ProxyInv
  <2>3. staged_effects' = staged_effects /\ sent' = sent
    BY <1>3 DEF StartFlush, storeVars
  <2> QED
    BY <2>2, <2>3, NotListedAgain DEF DiscardedStays
<1>4. ASSUME NEW p \in Procs, FlushExecute(p)  PROVE DiscardedStays(e)
  <2>1. PICK f, call : f = First(calls[p].todo) /\ call = [calls[p] EXCEPT !.pc = "mark"]
    OBVIOUS
  <2>2. /\ InFlush(p) /\ f \in calls[p].todo /\ calls[p] \in FlushCalls
        /\ staged_effects' = staged_effects /\ calls' = [calls EXCEPT ![p] = call]
    BY <2>1, <1>4, FlushFacts DEF FlushExecute, InFlush, FlushOK, storeVars
  <2>3. call.todo = calls[p].todo
    BY <2>1, <2>2 DEF FlushCalls
  <2>4. e \notin calls[p].todo
    BY <2>2 DEF Listed
  <2>5. Moves(p, call) /\ e \notin call.todo /\ e # f
    BY <2>2, <2>3, <2>4, CallsMove DEF ProxyInv
  <2>6. sent'[e] = sent[e]
    BY <2>1, <2>5, <1>4, FlushExecuteShape, EffectFacts DEF One
  <2> QED
    BY <2>2, <2>5, <2>6, NotListedAgain DEF DiscardedStays
<1>5. ASSUME NEW p \in Procs, FlushMark(p)  PROVE DiscardedStays(e)
  <2>1. PICK f : f = First(calls[p].todo)
    OBVIOUS
  <2>2. /\ InFlush(p) /\ f \in calls[p].todo /\ f \in EffectIds /\ sent' = sent
        /\ set_effect_status(f, "committed")
    BY <2>1, <1>5, FlushFacts DEF FlushMark, InFlush
  <2>3. e # f /\ e \notin calls[p].todo
    BY <2>2 DEF Listed
  <2>4. staged_effects'[e].status = "discarded"
    BY <2>2, <2>3, EffectFacts, SetStatusShape
  <2>5. PICK call : /\ Moves(p, call)
                    /\ call = Idle \/ call.todo = calls[p].todo \ {f}
    BY <2>1, <1>5, ContinueShape DEF FlushMark
  <2>6. ~(call.pc \in {"flush", "mark"} /\ e \in call.todo)
    BY <2>3, <2>5 DEF Idle
  <2> QED
    BY <2>2, <2>4, <2>5, <2>6, NotListedAgain DEF DiscardedStays
<1>6. ASSUME NEW p \in Procs, NEW call, calls' = [calls EXCEPT ![p] = call],
             staged_effects' = staged_effects, sent' = sent,
             call.pc \notin {"flush", "mark"}
      PROVE  DiscardedStays(e)
  BY <1>6, CallsMove, NotListedAgain DEF ProxyInv, DiscardedStays
<1>7. ASSUME NEW p \in Procs, Execute(p)  PROVE DiscardedStays(e)
  <2>1. PICK call : call = [calls[p] EXCEPT !.pc = "record"]
    OBVIOUS
  <2>2. call.pc = "record"
    BY <2>1, <1>7, CallShapes DEF Execute, KeyCalls
  <2> QED
    BY <2>1, <2>2, <1>6, <1>7 DEF Execute, storeVars
<1>8. ASSUME NEW p \in Procs, Interrupt(p)  PROVE DiscardedStays(e)
  <2>1. Idle.pc = "idle"
    BY DEF Idle
  <2> QED
    BY <2>1, <1>6, <1>8 DEF Interrupt, storeVars
<1>9. ASSUME NEW p \in Procs, NEW b \in BranchIds, NEW key \in EffectKeys, LookUp(p, b, key)
      PROVE  DiscardedStays(e)
  <2>1. PICK call : call = [pc |-> "execute", branch |-> b, key |-> key]
    OBVIOUS
  <2>2. call.pc = "execute"
    BY <2>1
  <2> QED
    BY <2>1, <2>2, <1>6, <1>9 DEF LookUp, storeVars
<1>10. ASSUME UNCHANGED proxyVars  PROVE DiscardedStays(e)
  BY <1>10 DEF proxyVars, storeVars, DiscardedStays, Listed, InFlush
<1> QED
  BY <1>1, <1>2, <1>3, <1>4, <1>5, <1>7, <1>8, <1>9, <1>10 DEF ProxyNext

(* An effect that a rewind discarded and no flush has on its list is never *)
(* listed, executed or marked again, whatever the processes do.            *)
THEOREM DiscardsAreFinal == ProxySpec => DiscardIsFinal
<1>1. ProxyInv /\ [ProxyNext]_proxyVars =>
        [\A e \in EffectIds :
            staged_effects[e].status = "discarded" /\ ~Listed(e) =>
                /\ staged_effects'[e].status = "discarded"
                /\ sent'[e] = sent[e]
                /\ ~Listed(e)']_proxyVars
  BY DiscardedIsSilent DEF DiscardedStays
<1> QED
  BY <1>1, ProxyInvariant, PTL DEF ProxySpec, DiscardIsFinal

-----------------------------------------------------------------------------
(* What the proxy does to the store the store allows: the theorems of      *)
(* RewindStoreProofs hold under any number of concurrent, dying calls.     *)
THEOREM ProxyRunsTheStore == ProxySpec => Spec
<1>1. ProxyInit => Init
  BY DEF ProxyInit
<1>2. ProxyInv /\ [ProxyNext]_proxyVars => [Next]_storeVars
  BY ProxyStoreStep
<1> QED
  BY <1>1, <1>2, ProxyInvariant, PTL DEF ProxySpec, Spec

-----------------------------------------------------------------------------
(* Two things break the promise of proxy.py:9-11 that a replayed key is    *)
(* not executed twice: another process, and a call that is interrupted.    *)
(* Without them it holds, after any rewinds, commits and flushes.          *)
THEOREM OneProcessChargesOnce ==
  ASSUME Cardinality(Procs) = 1, MaxFailures = 0
  PROVE  ProxySpec => []KeyFiresOnce
<1> DEFINE NoFailures == failures = 0
<1>1. ProxyInit => NoFailures
  BY DEF ProxyInit
<1>2. NoFailures /\ [ProxyNext]_proxyVars => NoFailures'
  <2>1. ASSUME NEW p \in Procs, failures = 0, Interrupt(p)  PROVE FALSE
    BY <2>1 DEF Interrupt
  <2>2. ASSUME NEW p \in Procs,
               \/ UseStore(p) \/ (\E b \in BranchIds, key \in EffectKeys : LookUp(p, b, key))
               \/ Execute(p) \/ RecordResult(p) \/ (\E b \in BranchIds : StartFlush(p, b))
               \/ FlushExecute(p) \/ FlushMark(p)
        PROVE  failures' = failures
    BY <2>2 DEF UseStore, LookUp, Execute, RecordResult, StartFlush, FlushExecute, FlushMark
  <2>3. UNCHANGED proxyVars => failures' = failures
    BY DEF proxyVars
  <2> QED
    BY <2>1, <2>2, <2>3 DEF ProxyNext
<1>3. ProxyInv /\ NoFailures => KeyFiresOnce
  <2> SUFFICES ASSUME ProxyInv, NoFailures, NEW r \in 1 .. MaxRuns, NEW k \in EffectKeys
               PROVE  charged[r][k] <= 1
    BY DEF KeyFiresOnce
  <2>1. charged[r][k] + Cardinality(Executors(r, k)) <= 1
    BY DEF ProxyInv, KeyMatches
  <2>2. Executors(r, k) \in SUBSET Procs
    BY DEF Executors
  <2>3. Cardinality(Executors(r, k)) \in Nat
    BY <2>2, ProcsAreFinite, FS_Subset, FS_CardinalityType
  <2>4. charged[r][k] \in Nat
    BY DEF ProxyInv, WorldOK
  <2> QED
    BY <2>1, <2>3, <2>4
<1> HIDE DEF NoFailures
<1> QED
  BY <1>1, <1>2, <1>3, ProxyInvariant, PTL DEF ProxySpec
=============================================================================
