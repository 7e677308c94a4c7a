-------------------------- MODULE RewindSaverProofs --------------------------
(***************************************************************************)
(* Proofs about RewindSaver, for any number of invocations of the thread:  *)
(* LangGraph's tree of checkpoints agrees with the store's, a put that     *)
(* completed is found and listed, and whoever resumes after a rewind gets  *)
(* no task writes from before it.                                          *)
(*                                                                         *)
(* Two things carry the proofs.  An invocation that no rewind overtook has *)
(* its parent on the lineage of the active branch's head, so put either    *)
(* extends the parent or forks at it.  And the newest branch of a run is   *)
(* active, so a checkpoint somebody rewound to is the head of the active   *)
(* branch only while that branch is still parked there.                    *)
(***************************************************************************)
EXTENDS RewindSaver, RewindStoreProofs

PayloadsOf(n) == [parent : (1 .. n) \cup {NULL}, put : {"alone", "raced", "overtaken"}]
WritesOf(n) == [id : 1 .. n, past : BOOLEAN]
AgentsOf(n, bs, cs) ==
    [pc : {"rest", "run", "create", "read", "fork", "commit"},
     parent : (1 .. n) \cup {NULL}, fresh : BOOLEAN,
     branch : bs \cup {NULL}, head : cs \cup {NULL}]

RowsOK ==
    /\ labels \in Seq(LangGraphIds \cup {NULL}) /\ Len(labels) = Len(checkpoints)
    /\ payloads \in Seq(PayloadsOf(Len(payloads))) /\ Len(payloads) <= Len(checkpoints)
    /\ Len(payloads) <= MaxCheckpoints
    /\ writes \subseteq WritesOf(Len(payloads))
    /\ agents \in [Agents -> AgentsOf(Len(payloads), BranchIds, CheckpointIds)]

(* A checkpoint's label names the payload it wrote; no two share one, and  *)
(* none is missing.                                                        *)
LabelsOK ==
    /\ \A c \in CheckpointIds :
          state_kv[c][STATE_KEY] = IF labels[c] = NULL THEN Unwritten ELSE labels[c]
    /\ \A c, d \in CheckpointIds : labels[c] = labels[d] /\ labels[c] # NULL => c = d
    /\ \A id \in LangGraphIds : \E c \in CheckpointIds : labels[c] = id

(* A fork point was there before its branch, and whoever looks for the     *)
(* active branch of a run finds the newest one.                            *)
ForksAreOlder ==
    \A b \in BranchIds : branches[b].fork # NULL =>
        /\ branches[b].fork \in CheckpointIds
        /\ checkpoints[branches[b].fork].branch \in BranchIds
        /\ checkpoints[branches[b].fork].branch < b
NewestIsActive ==
    \A b \in BranchIds : \E a \in BranchIds :
        a >= b /\ Active(a) /\ branches[a].run = branches[b].run

PastWritesForked ==
    \A w \in writes : w.past =>
        \E b \in BranchIds : branches[b].fork # NULL /\ labels[branches[b].fork] = w.id

LabelledOn(c, id) == \E d \in lineage[c] : labels[d] = id

(* What an invocation knows between two calls of the saver.                *)
ReachesParent(a) ==
    a.fresh /\ a.parent # NULL => \A b \in BranchIds :
        IsActiveBranch(ThreadRun, b) => LabelledOn(branches[b].head, a.parent)
ExtendsParent(a) ==
    /\ a.branch \in BranchIds /\ a.head \in CheckpointIds
    /\ a.head \in lineage[branches[a.branch].head]
    /\ a.fresh /\ a.parent # NULL => labels[a.head] = a.parent
ForksAtParent(a) ==
    /\ a.branch \in BranchIds /\ a.head \in CheckpointIds
    /\ a.parent # NULL /\ labels[a.head] = a.parent

AgentOK(a) ==
    /\ a.pc = "run" => ReachesParent(a)
    /\ a.pc = "create" => a.parent = NULL
    /\ a.pc = "read" => a.parent = NULL /\ a.branch \in BranchIds
    /\ a.pc = "fork" => ForksAtParent(a)
    /\ a.pc = "commit" => ExtendsParent(a)

SaverInv ==
    /\ StoreInv /\ RowsOK /\ LabelsOK
    /\ ForksAreOlder /\ NewestIsActive /\ PastWritesForked
    /\ \A p \in Agents : AgentOK(agents[p])
    /\ ParentIsAncestor

-----------------------------------------------------------------------------
(* Facts about a state.                                                    *)

LEMMA SaverFacts ==
  ASSUME SaverInv
  PROVE  /\ StoreInv /\ TreeInv /\ RowsOK /\ LabelsOK
         /\ Len(payloads) \in Nat /\ Len(checkpoints) \in Nat /\ Len(branches) \in Nat
         /\ runs \in Nat
         /\ \A c \in CheckpointIds : labels[c] \in LangGraphIds \cup {NULL}
         /\ \A id \in LangGraphIds : id # NULL /\ payloads[id] \in PayloadsOf(Len(payloads))
         /\ \A p \in Agents :
               /\ AgentOK(agents[p])
               /\ agents[p] \in AgentsOf(Len(payloads), BranchIds, CheckpointIds)
<1>1. StoreInv /\ TreeInv /\ RowsOK /\ LabelsOK
  BY DEF SaverInv, StoreInv
<1>2. Len(payloads) \in Nat /\ \A id \in LangGraphIds : payloads[id] \in PayloadsOf(Len(payloads))
  <2>1. PICK S : S = PayloadsOf(Len(payloads))
    OBVIOUS
  <2>2. payloads \in Seq(S)
    BY <1>1, <2>1 DEF RowsOK
  <2> QED
    BY <2>1, <2>2, ElementOfSeq DEF LangGraphIds
<1>3. \A c \in CheckpointIds : labels[c] \in LangGraphIds \cup {NULL}
  BY <1>1, ElementOfSeq DEF RowsOK, CheckpointIds
<1>4. \A id \in LangGraphIds : id # NULL
  BY <1>2 DEF LangGraphIds, NULL
<1> QED
  BY <1>1, <1>2, <1>3, <1>4, StoreFacts DEF RowsOK, SaverInv

(* No id is taken for a marker.                                            *)
LEMMA IdsAreContents ==
  ASSUME SaverInv, NEW id \in LangGraphIds
  PROVE  id \in Contents /\ id # Unwritten /\ id # Tombstone /\ id # Absent
<1>1. id \in 1 .. MaxCheckpoints
  BY SaverFacts, BoundsAreNumbers DEF RowsOK, LangGraphIds
<1> QED
  BY <1>1, SaverKeys, DistinctMarkers

(* A LangGraph checkpoint holds its own payload; any other, that of a      *)
(* LangGraph checkpoint on its lineage.                                    *)
LEMMA PayloadsFound ==
  ASSUME SaverInv, NEW c \in CheckpointIds
  PROVE  /\ labels[c] # NULL => payload_at(c) = labels[c] /\ payload_at(c) # Absent
         /\ payload_at(c) # Absent => /\ payload_at(c) \in LangGraphIds
                                      /\ LabelledOn(c, payload_at(c))
<1>1. payload_at(c) = ReplayOn(lineage[c], state_kv, checkpoints, STATE_KEY)
  BY ReplayIsReplayOn DEF payload_at
<1>2. TreeInv /\ LabelsOK
  BY SaverFacts
<1>3. labels[c] # NULL => payload_at(c) = labels[c] /\ payload_at(c) # Absent
  <2>1. SUFFICES ASSUME labels[c] # NULL
                 PROVE  payload_at(c) = labels[c] /\ payload_at(c) # Absent
    OBVIOUS
  <2>2. PICK id \in LangGraphIds : id = labels[c] /\ id = state_kv[c][STATE_KEY]
    BY <2>1, <1>2, SaverFacts DEF LabelsOK
  <2>3. id # Unwritten /\ id # Tombstone /\ id # Absent
    BY IdsAreContents
  <2> QED
    BY <1>1, <1>2, <2>2, <2>3, OwnRowReplays
<1>4. ASSUME payload_at(c) # Absent
      PROVE  payload_at(c) \in LangGraphIds /\ LabelledOn(c, payload_at(c))
  <2>1. PICK d \in lineage[c] : /\ d \in CheckpointIds
                                /\ payload_at(c) = state_kv[d][STATE_KEY]
                                /\ state_kv[d][STATE_KEY] # Unwritten
    BY <1>1, <1>2, <1>4, ReplayIsWritten
  <2>2. labels[d] # NULL /\ payload_at(c) = labels[d]
    BY <2>1, <1>2 DEF LabelsOK
  <2> QED
    BY <2>1, <2>2, SaverFacts DEF LabelledOn
<1> QED
  BY <1>3, <1>4

LEMMA ActiveIsNewest ==
  ASSUME SaverInv, NEW r, NEW b \in BranchIds, IsActiveBranch(r, b),
         NEW a \in BranchIds, branches[a].run = r
  PROVE  a <= b
<1>1. PICK z \in BranchIds : z >= a /\ Active(z) /\ branches[z].run = branches[a].run
  BY DEF SaverInv, NewestIsActive
<1>2. z <= b
  BY <1>1 DEF IsActiveBranch
<1> QED
  BY <1>1, <1>2, SaverFacts DEF BranchIds

(* Where nobody has put yet there is nothing to go on from.                *)
LEMMA NoRunNoIds ==
  ASSUME SaverInv, runs = 0
  PROVE  LangGraphIds = {} /\ CheckpointIds = {} /\ BranchIds = {}
<1>1. CheckpointIds = {} /\ BranchIds = {}
  <2>1. 1 .. runs = {}
    OBVIOUS
  <2> QED
    BY <2>1, SaverFacts, StoreFacts
<1>2. Len(checkpoints) = 0
  <2>1. Len(checkpoints) \in Nat
    BY SaverFacts
  <2>2. Len(checkpoints) > 0 => 1 \in CheckpointIds
    BY <2>1 DEF CheckpointIds
  <2> QED
    BY <1>1, <2>1, <2>2
<1>3. Len(payloads) = 0
  BY <1>2, SaverFacts DEF RowsOK
<1> QED
  BY <1>1, <1>3 DEF LangGraphIds


-----------------------------------------------------------------------------
(* The branches of the store.                                              *)

BranchesOK == ForksAreOlder /\ NewestIsActive

LEMMA SameBranches ==
  ASSUME StoreInv, BranchesOK, StoreGrows, BranchIds' = BranchIds,
         \A b \in BranchIds : branches'[b].status = branches[b].status
  PROVE  BranchesOK'
<1>1. /\ CheckpointIds \subseteq CheckpointIds'
      /\ \A b \in BranchIds : /\ branches'[b].run = branches[b].run
                              /\ branches'[b].fork = branches[b].fork
      /\ \A c \in CheckpointIds : checkpoints'[c] = checkpoints[c]
  BY DEF StoreGrows, OldCheckpointsStay
<1>2. ForksAreOlder'
  BY <1>1 DEF BranchesOK, ForksAreOlder
<1>3. NewestIsActive'
  BY <1>1 DEF BranchesOK, NewestIsActive, Active
<1> QED
  BY <1>2, <1>3 DEF BranchesOK

LEMMA CreateRunBranches ==
  ASSUME StoreInv, BranchesOK, create_run
  PROVE  BranchesOK'
<1>1. PICK n, m : n = Len(checkpoints) + 1 /\ m = Len(branches) + 1
  OBVIOUS
<1>2. /\ NewBranch(m, [run |-> runs + 1, status |-> "active", head |-> n,
                       fork |-> NULL, of |-> NULL])
      /\ \A b \in BranchIds : branches'[b] = branches[b]
  BY <1>1, CreateRunShape DEF StoreInv
<1>3. /\ BranchIds' = BranchIds \cup {m} /\ m \in Nat
      /\ branches'[m].fork = NULL /\ branches'[m].status = "active"
  BY <1>1, <1>2, StoreFacts DEF NewBranch, StoreInv
<1>4. /\ CheckpointIds \subseteq CheckpointIds'
      /\ \A c \in CheckpointIds : checkpoints'[c] = checkpoints[c]
  BY CreateRunGrows DEF StoreGrows, OldCheckpointsStay, StoreInv
<1>5. ForksAreOlder'
  BY <1>2, <1>3, <1>4 DEF BranchesOK, ForksAreOlder
<1>6. NewestIsActive'
  BY <1>2, <1>3 DEF BranchesOK, NewestIsActive, Active
<1> QED
  BY <1>5, <1>6 DEF BranchesOK

LEMMA RewindBranches ==
  ASSUME StoreInv, BranchesOK, NEW b \in BranchIds, NEW target \in CheckpointIds,
         rewind(b, target)
  PROVE  BranchesOK'
<1>1. PICK m : m = Len(branches) + 1
  OBVIOUS
<1>2. /\ NewBranch(m, [run |-> branches[b].run, status |-> "active",
                       head |-> target, fork |-> target, of |-> b])
      /\ \A a \in BranchIds :
            /\ branches'[a].run = branches[a].run /\ branches'[a].fork = branches[a].fork
            /\ branches'[a].status = IF a = b THEN "abandoned" ELSE branches[a].status
      /\ checkpoints' = checkpoints /\ CheckpointIds' = CheckpointIds
  BY <1>1, RewindShape DEF StoreInv
<1>3. /\ BranchIds' = BranchIds \cup {m} /\ branches'[m].fork = target
      /\ branches'[m].status = "active" /\ branches'[m].run = branches[b].run
  BY <1>2 DEF NewBranch
<1>4. m \in Nat /\ (\A a \in BranchIds : a < m) /\ checkpoints[target].branch \in BranchIds
  BY <1>1, StoreFacts DEF StoreInv, BranchIds
<1>5. ForksAreOlder'
  BY <1>2, <1>3, <1>4 DEF BranchesOK, ForksAreOlder
<1>6. ASSUME NEW a \in BranchIds'
      PROVE  \E z \in BranchIds' : z >= a /\ Active(z)' /\ branches'[z].run = branches'[a].run
  <2>1. CASE a = m
    BY <2>1, <1>3, <1>4 DEF Active
  <2>2. CASE a \in BranchIds
    <3>1. PICK z \in BranchIds : z >= a /\ Active(z) /\ branches[z].run = branches[a].run
      BY <2>2 DEF BranchesOK, NewestIsActive
    <3>2. CASE z = b
      <4>1. m >= a
        BY <2>2, <1>4 DEF BranchIds
      <4> QED
        BY <4>1, <3>1, <3>2, <2>2, <1>2, <1>3 DEF Active
    <3>3. CASE z # b
      BY <3>1, <3>3, <2>2, <1>2, <1>3 DEF Active
    <3> QED
      BY <3>2, <3>3
  <2> QED
    BY <2>1, <2>2, <1>3
<1>7. NewestIsActive'
  BY <1>6 DEF NewestIsActive
<1> QED
  BY <1>5, <1>7 DEF BranchesOK

-----------------------------------------------------------------------------
(* What a step of the saver leaves as it is.                               *)

LabelsStay == \A c \in CheckpointIds : labels'[c] = labels[c]

(* A branch an invocation may go on with was active already.               *)
ActiveStays ==
    \A b \in BranchIds' : IsActiveBranch(ThreadRun, b)' =>
        runs = 0 \/ (b \in BranchIds /\ IsActiveBranch(ThreadRun, b))

LEMMA LabelledStays ==
  ASSUME TreeInv, StoreGrows, LabelsStay, NEW c \in CheckpointIds, NEW id, LabelledOn(c, id)
  PROVE  LabelledOn(c, id)'
<1>1. lineage'[c] = lineage[c] /\ lineage[c] \subseteq CheckpointIds
  BY StoreFacts DEF StoreGrows, OldCheckpointsStay
<1> QED
  BY <1>1 DEF LabelledOn, LabelsStay

(* The knowledge of an invocation no rewind overtakes.                     *)
LEMMA AgentStays ==
  ASSUME SaverInv, StoreGrows, LabelsStay,
         NEW a \in AgentsOf(Len(payloads), BranchIds, CheckpointIds), AgentOK(a),
         ActiveStays \/ ~a.fresh
  PROVE  AgentOK(a)'
<1>1. PICK pc, parent, fresh, branch, head :
         /\ pc = a.pc /\ parent = a.parent /\ fresh = a.fresh
         /\ branch = a.branch /\ head = a.head
  OBVIOUS
<1>2. /\ parent \in LangGraphIds \cup {NULL} /\ TreeInv
      /\ BranchIds \subseteq BranchIds' /\ CheckpointIds \subseteq CheckpointIds'
      /\ \A c \in CheckpointIds : labels'[c] = labels[c]
      /\ \A b \in BranchIds : /\ branches[b].head \in CheckpointIds
                              /\ lineage[branches[b].head] \subseteq lineage'[branches'[b].head]
  BY <1>1, SaverFacts, StoreFacts DEF AgentsOf, LangGraphIds, StoreGrows, LabelsStay
<1>3. ReachesParent(a) => ReachesParent(a)'
  <2>1. SUFFICES ASSUME ReachesParent(a), fresh, parent # NULL, NEW b \in BranchIds',
                        IsActiveBranch(ThreadRun, b)'
                 PROVE  LabelledOn(branches[b].head, parent)'
    BY <1>1 DEF ReachesParent
  <2>2. runs # 0
    BY <2>1, <1>2, NoRunNoIds
  <2>3. b \in BranchIds /\ IsActiveBranch(ThreadRun, b)
    BY <2>1, <2>2, <1>1 DEF ActiveStays
  <2>4. PICK d \in lineage[branches[b].head] : labels[d] = parent
    BY <2>1, <2>3, <1>1 DEF ReachesParent, LabelledOn
  <2>5. d \in CheckpointIds /\ d \in lineage'[branches'[b].head]
    BY <2>3, <2>4, <1>2, StoreFacts
  <2> QED
    BY <2>4, <2>5, <1>2 DEF LabelledOn
<1>4. ExtendsParent(a) => ExtendsParent(a)'
  BY <1>2 DEF ExtendsParent
<1>5. ForksAtParent(a) => ForksAtParent(a)'
  BY <1>2 DEF ForksAtParent
<1> QED
  BY <1>2, <1>3, <1>4, <1>5 DEF AgentOK


(* ParentIsAncestor, for one checkpoint.                                   *)
ParentOK(c) ==
    /\ labels[c] # NULL /\ payloads[labels[c]].parent # NULL
    /\ payloads[labels[c]].put # "overtaken"
    => \E d \in Before(c) : /\ labels[d] = payloads[labels[c]].parent
                            /\ payloads[labels[c]].put = "alone" => Nearest(c, d)

LEMMA ParentsAreParentOK ==
  /\ ParentIsAncestor <=> \A c \in CheckpointIds : ParentOK(c)
  /\ ParentIsAncestor' <=> \A c \in CheckpointIds' : ParentOK(c)'
  BY DEF ParentIsAncestor, ParentOK

LEMMA ParentStays ==
  ASSUME SaverInv, StoreGrows, LabelsStay,
         \A id \in LangGraphIds : payloads'[id] = payloads[id],
         NEW c \in CheckpointIds
  PROVE  ParentOK(c)'
<1>1. ParentOK(c)
  BY ParentsAreParentOK DEF SaverInv
<1>2. /\ lineage'[c] = lineage[c] /\ lineage[c] \subseteq CheckpointIds
      /\ \A d \in CheckpointIds : labels'[d] = labels[d] /\ checkpoints'[d] = checkpoints[d]
  BY SaverFacts, StoreFacts DEF StoreGrows, OldCheckpointsStay, LabelsStay
<1>3. /\ Before(c)' = Before(c) /\ Before(c) \subseteq CheckpointIds
      /\ \A d \in CheckpointIds : Nearest(c, d) => Nearest(c, d)'
  BY <1>2 DEF Before, Nearest
<1>4. labels[c] # NULL => payloads'[labels[c]] = payloads[labels[c]]
  BY SaverFacts
<1> QED
  BY <1>1, <1>2, <1>3, <1>4 DEF ParentOK

-----------------------------------------------------------------------------
(* Steps between the transactions: the rows stay as they are.              *)

LEMMA SameRows ==
  ASSUME SaverInv, UNCHANGED <<storeVars, labels, payloads>>,
         \A w \in writes' : w \in WritesOf(Len(payloads)) /\ (w.past => w \in writes),
         agents' \in [Agents -> AgentsOf(Len(payloads), BranchIds, CheckpointIds)],
         \A p \in Agents : AgentOK(agents'[p])
  PROVE  SaverInv'
<1>1. /\ runs' = runs /\ branches' = branches /\ checkpoints' = checkpoints
      /\ state_kv' = state_kv /\ vfs_objects' = vfs_objects /\ staged_effects' = staged_effects
      /\ labels' = labels /\ payloads' = payloads
  BY DEF storeVars
<1>2. /\ lineage' = lineage /\ CheckpointIds' = CheckpointIds /\ BranchIds' = BranchIds
      /\ LangGraphIds' = LangGraphIds
  BY <1>1, SameCheckpoints DEF BranchIds, LangGraphIds
<1>3. StoreInv'
  <2>1. UNCHANGED storeVars
    BY <1>1 DEF storeVars
  <2> QED
    BY <2>1, SaverFacts, StoreStep
<1>4. RowsOK'
  BY <1>1, <1>2, SaverFacts DEF RowsOK
<1>5. LabelsOK' /\ ForksAreOlder' /\ NewestIsActive'
  BY <1>1, <1>2 DEF SaverInv, LabelsOK, ForksAreOlder, NewestIsActive, Active
<1>6. PastWritesForked'
  BY <1>1, <1>2 DEF SaverInv, PastWritesForked
<1>7. ASSUME NEW p \in Agents  PROVE AgentOK(agents[p])'
  <2>1. PICK a : a = agents'[p]
    OBVIOUS
  <2>2. AgentOK(a)
    BY <2>1
  <2>3. AgentOK(a)'
    BY <2>2, <1>1, <1>2 DEF AgentOK, ReachesParent, ExtendsParent, ForksAtParent, LabelledOn,
       IsActiveBranch, ThreadRun, Active
  <2> QED
    BY <2>1, <2>3 DEF AgentOK, ReachesParent, ExtendsParent, ForksAtParent
<1>8. ParentIsAncestor'
  BY <1>1, <1>2 DEF SaverInv, ParentIsAncestor, Before, Nearest
<1> QED
  BY <1>3, <1>4, <1>5, <1>6, <1>7, <1>8 DEF SaverInv

LEMMA OneAgent ==
  ASSUME SaverInv, UNCHANGED <<storeVars, labels, payloads>>,
         \A w \in writes' : w \in WritesOf(Len(payloads)) /\ (w.past => w \in writes),
         NEW p \in Agents, NEW a \in AgentsOf(Len(payloads), BranchIds, CheckpointIds),
         AgentOK(a), agents' = [agents EXCEPT ![p] = a]
  PROVE  SaverInv'
<1>1. agents \in [Agents -> AgentsOf(Len(payloads), BranchIds, CheckpointIds)]
  BY SaverFacts DEF RowsOK
<1>2. /\ agents' \in [Agents -> AgentsOf(Len(payloads), BranchIds, CheckpointIds)]
      /\ \A q \in Agents : agents'[q] = IF q = p THEN a ELSE agents[q]
  BY <1>1
<1>3. \A q \in Agents : AgentOK(agents'[q])
  <2>1. ASSUME NEW q \in Agents  PROVE AgentOK(agents'[q])
    <3>1. CASE q = p
      BY <3>1, <1>2
    <3>2. CASE q # p
      <4>1. AgentOK(agents[q]) /\ agents'[q] = agents[q]
        BY <3>2, <1>2, SaverFacts
      <4> QED
        BY <4>1
    <3> QED
      BY <3>1, <3>2
  <2> QED
    BY <2>1
<1> QED
  BY <1>2, <1>3, SameRows

(* Writes that a reader drops, or that stay.                               *)
LEMMA FewerWrites ==
  ASSUME SaverInv, writes' \subseteq writes
  PROVE  \A w \in writes' : w \in WritesOf(Len(payloads)) /\ (w.past => w \in writes)
  BY SaverFacts DEF RowsOK

LEMMA DropsWrites ==
  ASSUME NEW b, NEW c, NEW id, DropWrites(b, c, id)
  PROVE  writes' \subseteq writes /\ (Parked(b, c) => \A w \in writes' : w.id # id)
  BY DEF DropWrites

Beginning(parent, head, fresh) ==
    [pc |-> "run", parent |-> parent, fresh |-> fresh, branch |-> NULL, head |-> head]

LEMMA BeginningIs ==
  ASSUME NEW parent, NEW head, NEW fresh
  PROVE  [Resting EXCEPT !.pc = "run", !.parent = parent, !.head = head, !.fresh = fresh]
           = Beginning(parent, head, fresh)
<1>1. PICK x : x = [Resting EXCEPT !.pc = "run", !.parent = parent, !.head = head,
                                   !.fresh = fresh]
  OBVIOUS
<1>2. x \in [pc : {"run"}, parent : {parent}, fresh : {fresh}, branch : {NULL}, head : {head}]
  BY <1>1 DEF Resting
<1>3. x = Beginning(parent, head, fresh)
  BY <1>2 DEF Beginning
<1> QED
  BY <1>1, <1>3

LEMMA BeginsAt ==
  ASSUME NEW p, p \in DOMAIN agents, NEW parent, NEW head, NEW fresh,
         Begin(p, parent, head, fresh)
  PROVE  agents'[p].head = head /\ agents'[p].parent = parent
<1>1. PICK a : a = Beginning(parent, head, fresh)
  OBVIOUS
<1>2. agents' = [agents EXCEPT ![p] = a]
  BY <1>1, BeginningIs DEF Begin
<1> QED
  BY <1>1, <1>2 DEF Beginning

LEMMA BeginsRun ==
  ASSUME SaverInv, UNCHANGED <<storeVars, labels, payloads>>, writes' \subseteq writes,
         NEW p \in Agents, NEW parent \in LangGraphIds \cup {NULL},
         NEW head \in CheckpointIds \cup {NULL}, NEW fresh \in BOOLEAN,
         Begin(p, parent, head, fresh), ReachesParent(Beginning(parent, head, fresh))
  PROVE  SaverInv'
<1>1. PICK a : a = Beginning(parent, head, fresh)
  OBVIOUS
<1>2. a \in AgentsOf(Len(payloads), BranchIds, CheckpointIds)
  BY <1>1 DEF AgentsOf, Beginning, LangGraphIds
<1>3. a = [Resting EXCEPT !.pc = "run", !.parent = parent, !.head = head, !.fresh = fresh]
  BY <1>1, BeginningIs
<1>4. agents' = [agents EXCEPT ![p] = a]
  BY <1>3 DEF Begin
<1>5. a.pc = "run" /\ AgentOK(a)
  BY <1>1 DEF AgentOK, Beginning
<1> QED
  BY <1>2, <1>4, <1>5, FewerWrites, OneAgent


LEMMA ResumeLatestKeeps ==
  ASSUME SaverInv, NEW p \in Agents, ResumeLatest(p)
  PROVE  SaverInv'
<1>1. UNCHANGED <<storeVars, labels, payloads>>
  BY DEF ResumeLatest
<1>2. \A head, fresh : ReachesParent(Beginning(NULL, head, fresh))
  BY DEF ReachesParent, Beginning
<1>3. CASE ThreadRun = NULL /\ Begin(p, NULL, NULL, TRUE) /\ UNCHANGED writes
  BY <1>1, <1>2, <1>3, BeginsRun
<1>4. ASSUME NEW b \in BranchIds, NEW h, h = branches[b].head, IsActiveBranch(ThreadRun, b),
             IF payload_at(h) = Absent
             THEN Begin(p, NULL, h, TRUE) /\ UNCHANGED writes
             ELSE Begin(p, payload_at(h), h, TRUE) /\ DropWrites(b, h, payload_at(h))
      PROVE  SaverInv'
  <2>1. h \in CheckpointIds
    BY <1>4, SaverFacts, StoreFacts
  <2>2. CASE payload_at(h) = Absent
    BY <1>1, <1>2, <1>4, <2>1, <2>2, BeginsRun
  <2>3. CASE payload_at(h) # Absent
    <3>1. PICK id : id = payload_at(h)
      OBVIOUS
    <3>2. id \in LangGraphIds /\ LabelledOn(h, id)
      BY <2>1, <2>3, <3>1, PayloadsFound
    <3>3. writes' \subseteq writes
      BY <1>4, <2>3, DropsWrites
    <3>4. Begin(p, id, h, TRUE)
      BY <1>4, <2>3, <3>1
    <3>5. ReachesParent(Beginning(id, h, TRUE))
      <4>1. ASSUME NEW a \in BranchIds, IsActiveBranch(ThreadRun, a)  PROVE a = b
        <5>1. a <= b /\ b <= a
          BY <4>1, <1>4 DEF IsActiveBranch
        <5> QED
          BY <5>1, SaverFacts DEF BranchIds
      <4> QED
        BY <4>1, <3>2, <1>4 DEF ReachesParent, Beginning
    <3> QED
      BY <1>1, <2>1, <3>2, <3>3, <3>4, <3>5, BeginsRun
  <2> QED
    BY <2>2, <2>3
<1> QED
  BY <1>3, <1>4 DEF ResumeLatest

LEMMA ResumeAtKeeps ==
  ASSUME SaverInv, NEW p \in Agents, NEW id \in LangGraphIds, ResumeAt(p, id)
  PROVE  SaverInv'
<1>1. PICK b \in BranchIds, c \in FindByLgId(ThreadRun, id) :
         /\ IsActiveBranch(ThreadRun, b)
         /\ Begin(p, id, NULL, c \in list(branches[b].head))
         /\ DropWrites(b, c, id)
  BY DEF ResumeAt
<1>2. PICK fresh \in BOOLEAN : fresh <=> c \in list(branches[b].head)
  OBVIOUS
<1>3. Begin(p, id, NULL, fresh)
  <2>1. fresh = (c \in list(branches[b].head))
    BY <1>2
  <2> QED
    BY <2>1, <1>1
<1>4. ReachesParent(Beginning(id, NULL, fresh))
  <2>1. ASSUME NEW a \in BranchIds, IsActiveBranch(ThreadRun, a)  PROVE a = b
    <3>1. a <= b /\ b <= a
      BY <1>1, <2>1 DEF IsActiveBranch
    <3> QED
      BY <3>1, SaverFacts DEF BranchIds
  <2>2. fresh => LabelledOn(branches[b].head, id)
    BY <1>2 DEF list, LabelledOn, FindByLgId
  <2> QED
    BY <2>1, <2>2 DEF ReachesParent, Beginning
<1>5. writes' \subseteq writes /\ UNCHANGED <<storeVars, labels, payloads>>
  BY <1>1, DropsWrites DEF ResumeAt
<1> QED
  BY <1>3, <1>4, <1>5, BeginsRun

LEMMA InspectKeeps ==
  ASSUME SaverInv, Inspect
  PROVE  SaverInv'
<1>1. UNCHANGED <<storeVars, labels, payloads, agents>> /\ writes' \subseteq writes
  BY DropsWrites DEF Inspect
<1> QED
  BY <1>1, SaverFacts, FewerWrites, SameRows DEF RowsOK

LEMMA put_writesKeeps ==
  ASSUME SaverInv, NEW p \in Agents, put_writes(p)
  PROVE  SaverInv'
<1>1. UNCHANGED <<storeVars, labels, payloads, agents>>
  BY DEF put_writes
<1>2. PICK id : id = agents[p].parent
  OBVIOUS
<1>3. id \in LangGraphIds
  BY <1>2, SaverKeys, SaverFacts DEF put_writes, AgentsOf, LangGraphIds
<1>4. PICK w : w = [id |-> id, past |-> FALSE]
  OBVIOUS
<1>5. w \in WritesOf(Len(payloads)) /\ ~w.past /\ writes' = writes \cup {w}
  BY <1>2, <1>3, <1>4 DEF WritesOf, LangGraphIds, put_writes
<1>6. \A x \in writes' : x \in WritesOf(Len(payloads)) /\ (x.past => x \in writes)
  BY <1>5, SaverFacts DEF RowsOK
<1> QED
  BY <1>1, <1>6, SaverFacts, SameRows DEF RowsOK

LEMMA PutFindsNoRunKeeps ==
  ASSUME SaverInv, NEW p \in Agents, PutFindsNoRun(p)
  PROVE  SaverInv'
<1>1. PICK a : a = agents[p]
  OBVIOUS
<1>2. PICK r : r = [a EXCEPT !.pc = "create"]
  OBVIOUS
<1>3. /\ agents' = [agents EXCEPT ![p] = r] /\ writes' \subseteq writes
      /\ UNCHANGED <<storeVars, labels, payloads>>
  BY <1>1, <1>2 DEF PutFindsNoRun
<1>4. a \in AgentsOf(Len(payloads), BranchIds, CheckpointIds)
  BY <1>1, SaverFacts
<1>5. r \in AgentsOf(Len(payloads), BranchIds, CheckpointIds) /\ r.pc = "create"
      /\ r.parent = a.parent
  BY <1>2, <1>4 DEF AgentsOf
<1>6. a.parent = NULL
  <2>1. runs = 0
    BY SaverFacts DEF PutFindsNoRun, ThreadRun, NULL
  <2> QED
    BY <2>1, <1>4, NoRunNoIds DEF AgentsOf, LangGraphIds
<1>7. AgentOK(r)
  BY <1>5, <1>6 DEF AgentOK
<1> QED
  BY <1>3, <1>5, <1>7, FewerWrites, OneAgent

LEMMA PutReadsBranchKeeps ==
  ASSUME SaverInv, NEW p \in Agents, PutReadsBranch(p)
  PROVE  SaverInv'
<1>1. PICK a : a = agents[p]
  OBVIOUS
<1>2. a \in AgentsOf(Len(payloads), BranchIds, CheckpointIds) /\ AgentOK(a)
  BY <1>1, SaverFacts
<1>3. writes' \subseteq writes /\ UNCHANGED <<storeVars, labels, payloads>>
  BY DEF PutReadsBranch
<1>4. PICK r : r = IF At(p, "read") THEN branches[agents[p].branch].run ELSE ThreadRun
  OBVIOUS
<1>5. PICK b \in BranchIds :
         /\ IsActiveBranch(r, b)
         /\ \/ /\ ForkPoints(p, r, branches[b].head) = {}
               /\ agents' = [agents EXCEPT ![p].pc = "commit", ![p].branch = b,
                                           ![p].head = branches[b].head]
            \/ \E c \in ForkPoints(p, r, branches[b].head) :
                  agents' = [agents EXCEPT ![p].pc = "fork", ![p].branch = b, ![p].head = c]
  BY <1>4 DEF PutReadsBranch
<1>6. PICK h : h = branches[b].head
  OBVIOUS
<1>7. h \in CheckpointIds /\ h \in lineage[h] /\ lineage[h] \subseteq CheckpointIds
      /\ \A d \in lineage[h] : RunOf(d) = r
  BY <1>5, <1>6, SaverFacts, StoreFacts DEF TreeInv, LineageIsChain, IsActiveBranch
<1>8. CASE /\ ForkPoints(p, r, h) = {}
           /\ agents' = [agents EXCEPT ![p].pc = "commit", ![p].branch = b, ![p].head = h]
  <2>1. PICK x : x = [a EXCEPT !.pc = "commit", !.branch = b, !.head = h]
    OBVIOUS
  <2>2. agents' = [agents EXCEPT ![p] = x]
    BY <1>1, <1>8, <2>1
  <2>3. /\ x \in AgentsOf(Len(payloads), BranchIds, CheckpointIds)
        /\ x.pc = "commit" /\ x.parent = a.parent /\ x.fresh = a.fresh
        /\ x.branch = b /\ x.head = h
    BY <1>2, <1>7, <2>1 DEF AgentsOf
  <2>4. ASSUME a.fresh, a.parent # NULL  PROVE labels[h] = a.parent
    <3>1. a.pc = "run" /\ r = ThreadRun
      BY <2>4, <1>1, <1>2, <1>4 DEF PutReadsBranch, At, AgentOK
    <3>2. LabelledOn(h, a.parent)
      BY <2>4, <3>1, <1>2, <1>5, <1>6 DEF AgentOK, ReachesParent
    <3>3. PICK d \in lineage[h] : labels[d] = a.parent
      BY <3>2 DEF LabelledOn
    <3>4. d \in FindByLgId(r, a.parent)
      BY <3>3, <1>7 DEF FindByLgId
    <3>5. d = h
      BY <3>3, <3>4, <1>1, <1>8, <2>4 DEF ForkPoints
    <3> QED
      BY <3>3, <3>5
  <2>5. AgentOK(x)
    BY <2>3, <2>4, <1>6, <1>7 DEF AgentOK, ExtendsParent
  <2> QED
    BY <1>3, <2>2, <2>3, <2>5, FewerWrites, OneAgent
<1>9. ASSUME NEW c \in ForkPoints(p, r, h),
             agents' = [agents EXCEPT ![p].pc = "fork", ![p].branch = b, ![p].head = c]
      PROVE  SaverInv'
  <2>1. PICK x : x = [a EXCEPT !.pc = "fork", !.branch = b, !.head = c]
    OBVIOUS
  <2>2. agents' = [agents EXCEPT ![p] = x]
    BY <1>1, <1>9, <2>1
  <2>3. c \in CheckpointIds /\ a.parent # NULL /\ labels[c] = a.parent
    BY <1>1 DEF ForkPoints, FindByLgId
  <2>4. /\ x \in AgentsOf(Len(payloads), BranchIds, CheckpointIds)
        /\ x.pc = "fork" /\ x.parent = a.parent /\ x.branch = b /\ x.head = c
    BY <1>2, <2>1, <2>3 DEF AgentsOf
  <2>5. AgentOK(x)
    BY <2>3, <2>4 DEF AgentOK, ForksAtParent
  <2> QED
    BY <1>3, <2>2, <2>4, <2>5, FewerWrites, OneAgent
<1> QED
  BY <1>5, <1>6, <1>8, <1>9

LEMMA RestingIsOK ==
  /\ Resting \in AgentsOf(Len(payloads), BranchIds, CheckpointIds) /\ AgentOK(Resting)
  /\ \A n : Resting \in AgentsOf(n, BranchIds, CheckpointIds)
  BY DEF Resting, AgentsOf, AgentOK

LEMMA RestsKeep ==
  ASSUME SaverInv, NEW p \in Agents, PutFails(p) \/ Stop(p)
  PROVE  SaverInv'
<1>1. /\ agents' = [agents EXCEPT ![p] = Resting] /\ writes' \subseteq writes
      /\ UNCHANGED <<storeVars, labels, payloads>>
  BY DEF PutFails, Stop
<1> QED
  BY <1>1, RestingIsOK, FewerWrites, OneAgent

LEMMA RestartKeeps ==
  ASSUME SaverInv, Restart
  PROVE  SaverInv'
<1>1. /\ agents' \in [Agents -> AgentsOf(Len(payloads), BranchIds, CheckpointIds)]
      /\ \A p \in Agents : AgentOK(agents'[p])
  BY RestingIsOK DEF Restart
<1>2. writes' \subseteq writes /\ UNCHANGED <<storeVars, labels, payloads>>
  BY DEF Restart
<1> QED
  BY <1>1, <1>2, FewerWrites, SameRows


-----------------------------------------------------------------------------
(* Steps that add a checkpoint.                                            *)

(* n is added with label l, and with a payload if it is LangGraph's own.   *)
Labels(n, l) ==
    /\ n = Len(checkpoints) + 1 /\ n \notin CheckpointIds
    /\ CheckpointIds' = CheckpointIds \cup {n} /\ Len(checkpoints') = n
    /\ labels' = Append(labels, l)
    /\ state_kv'[n][STATE_KEY] = IF l = NULL THEN Unwritten ELSE l
    /\ \/ l = NULL /\ payloads' = payloads
       \/ /\ l = Len(payloads) + 1 /\ l <= MaxCheckpoints
          /\ \E pay \in PayloadsOf(Len(payloads)) : payloads' = Append(payloads, pay)

LEMMA PayloadsGrow ==
  ASSUME SaverInv, NEW n, NEW l, Labels(n, l)
  PROVE  /\ payloads' \in Seq(PayloadsOf(Len(payloads'))) /\ Len(payloads') \in Nat
         /\ Len(payloads') <= Len(checkpoints') /\ Len(payloads') <= MaxCheckpoints
         /\ Len(payloads) <= Len(payloads')
         /\ \A id \in LangGraphIds : payloads'[id] = payloads[id]
         /\ LangGraphIds' = IF l = NULL THEN LangGraphIds ELSE LangGraphIds \cup {l}
         /\ l # NULL => l \notin LangGraphIds
<1>1. PICK k : k = Len(payloads)
  OBVIOUS
<1>2. /\ k \in Nat /\ payloads \in Seq(PayloadsOf(k)) /\ k <= Len(checkpoints)
      /\ k <= MaxCheckpoints /\ LangGraphIds = 1 .. k
      /\ Len(checkpoints) \in Nat /\ Len(checkpoints') = Len(checkpoints) + 1
  BY <1>1, SaverFacts DEF RowsOK, LangGraphIds, Labels
<1>3. CASE l = NULL /\ payloads' = payloads
  BY <1>1, <1>2, <1>3 DEF LangGraphIds
<1>4. ASSUME l = k + 1, l <= MaxCheckpoints, NEW pay \in PayloadsOf(k),
             payloads' = Append(payloads, pay)
      PROVE  /\ payloads' \in Seq(PayloadsOf(Len(payloads'))) /\ Len(payloads') \in Nat
             /\ Len(payloads') <= Len(checkpoints') /\ Len(payloads') <= MaxCheckpoints
             /\ Len(payloads) <= Len(payloads')
             /\ \A id \in LangGraphIds : payloads'[id] = payloads[id]
             /\ LangGraphIds' = IF l = NULL THEN LangGraphIds ELSE LangGraphIds \cup {l}
             /\ l # NULL => l \notin LangGraphIds
  <2>1. PICK S : S = PayloadsOf(k + 1)
    OBVIOUS
  <2>2. PayloadsOf(k) \subseteq S
    BY <1>2, <2>1 DEF PayloadsOf
  <2>3. pay \in S /\ payloads \in Seq(S)
    <3>1. PICK R : R = PayloadsOf(k)
      OBVIOUS
    <3>2. \A j \in 1 .. Len(payloads) : payloads[j] \in S
      BY <1>2, <2>2, <3>1, ElementOfSeq
    <3> QED
      BY <1>4, <1>2, <2>2, <3>1, <3>2
  <2>4. payloads' \in Seq(S) /\ Len(payloads') = k + 1
        /\ \A j \in 1 .. k : payloads'[j] = payloads[j]
    BY <1>1, <1>2, <1>4, <2>3
  <2>5. LangGraphIds' = 1 .. (k + 1) /\ l # NULL
    BY <1>2, <1>4, <2>4 DEF LangGraphIds, NULL
  <2> QED
    BY <1>1, <1>2, <1>4, <2>1, <2>4, <2>5
<1> QED
  BY <1>1, <1>3, <1>4 DEF Labels

LEMMA LabelsGrow ==
  ASSUME SaverInv, NEW n, NEW l, Labels(n, l)
  PROVE  /\ labels' \in Seq(LangGraphIds' \cup {NULL}) /\ Len(labels') = Len(checkpoints')
         /\ LabelsStay /\ labels'[n] = l
<1>1. PICK S : S = LangGraphIds' \cup {NULL}
  OBVIOUS
<1>2. l \in S /\ LangGraphIds \subseteq S
  BY <1>1, PayloadsGrow DEF Labels
<1>3. labels \in Seq(S)
  <2>1. PICK R : R = LangGraphIds \cup {NULL}
    OBVIOUS
  <2>2. labels \in Seq(R) /\ R \subseteq S
    BY <2>1, <1>1, <1>2, SaverFacts DEF RowsOK
  <2> QED
    BY <2>2
<1>4. Len(labels) = Len(checkpoints) /\ Len(labels) \in Nat /\ n = Len(labels) + 1
      /\ CheckpointIds = 1 .. Len(labels)
  BY SaverFacts DEF RowsOK, Labels, CheckpointIds
<1>5. labels' = Append(labels, l) /\ Len(checkpoints') = n
  BY DEF Labels
<1>6. labels' \in Seq(S) /\ Len(labels') = n /\ labels'[n] = l
      /\ \A c \in CheckpointIds : labels'[c] = labels[c]
  BY <1>2, <1>3, <1>4, <1>5
<1> QED
  BY <1>1, <1>5, <1>6 DEF LabelsStay

LEMMA LabelsOKGrow ==
  ASSUME SaverInv, StoreGrows, NEW n, NEW l, Labels(n, l)
  PROVE  LabelsOK'
<1>1. /\ LabelsOK /\ LabelsStay /\ labels'[n] = l /\ n \notin CheckpointIds
      /\ CheckpointIds' = CheckpointIds \cup {n}
      /\ state_kv'[n][STATE_KEY] = IF l = NULL THEN Unwritten ELSE l
      /\ \A c \in CheckpointIds : labels[c] # NULL => labels[c] \in LangGraphIds
  BY SaverFacts, LabelsGrow DEF Labels
<1>2. /\ LangGraphIds' = IF l = NULL THEN LangGraphIds ELSE LangGraphIds \cup {l}
      /\ l # NULL => l \notin LangGraphIds
  BY PayloadsGrow
<1>3. \A c \in CheckpointIds : labels'[c] = labels[c] /\ state_kv'[c] = state_kv[c]
  BY <1>1 DEF LabelsStay, StoreGrows, OldCheckpointsStay
<1>4. \A c \in CheckpointIds' :
         state_kv'[c][STATE_KEY] = IF labels'[c] = NULL THEN Unwritten ELSE labels'[c]
  BY <1>1, <1>3 DEF LabelsOK
<1>5. \A c, d \in CheckpointIds' : labels'[c] = labels'[d] /\ labels'[c] # NULL => c = d
  BY <1>1, <1>2, <1>3 DEF LabelsOK
<1>6. \A id \in LangGraphIds' : \E c \in CheckpointIds' : labels'[c] = id
  BY <1>1, <1>2, <1>3 DEF LabelsOK
<1> QED
  BY <1>4, <1>5, <1>6 DEF LabelsOK

LEMMA AgentRowsGrow ==
  ASSUME NEW m \in Nat, NEW n \in Nat, m <= n, NEW B1, NEW B2, B1 \subseteq B2,
         NEW C1, NEW C2, C1 \subseteq C2
  PROVE  AgentsOf(m, B1, C1) \subseteq AgentsOf(n, B2, C2)
<1>1. 1 .. m \subseteq 1 .. n
  OBVIOUS
<1> QED
  BY <1>1 DEF AgentsOf

LEMMA WriteRowsGrow ==
  ASSUME NEW m \in Nat, NEW n \in Nat, m <= n
  PROVE  WritesOf(m) \subseteq WritesOf(n)
<1>1. 1 .. m \subseteq 1 .. n
  OBVIOUS
<1> QED
  BY <1>1 DEF WritesOf

LEMMA PastWritesStay ==
  ASSUME SaverInv, StoreGrows, LabelsStay, writes' = writes
  PROVE  PastWritesForked'
<1>1. /\ BranchIds \subseteq BranchIds'
      /\ \A b \in BranchIds : /\ branches'[b].fork = branches[b].fork
                              /\ branches[b].fork # NULL => branches[b].fork \in CheckpointIds
      /\ \A c \in CheckpointIds : labels'[c] = labels[c]
  BY DEF SaverInv, ForksAreOlder, StoreGrows, LabelsStay
<1> QED
  BY <1>1 DEF SaverInv, PastWritesForked

LEMMA CommitStep ==
  ASSUME SaverInv, [Next]_storeVars, NEW n, NEW l, Labels(n, l),
         BranchesOK', ActiveStays, writes' = writes, ParentOK(n)',
         agents' = [p \in Agents |-> agents'[p]],
         \A p \in Agents : agents'[p] # agents[p] =>
             /\ agents'[p] \in AgentsOf(Len(payloads'), BranchIds', CheckpointIds')
             /\ AgentOK(agents[p])'
  PROVE  SaverInv'
<1>1. StoreInv' /\ StoreGrows
  BY SaverFacts, StoreStep, StoreStepGrows
<1>2. LabelsStay /\ LabelsOK'
  BY <1>1, LabelsGrow, LabelsOKGrow
<1>3. /\ Len(payloads) \in Nat /\ Len(payloads') \in Nat /\ Len(payloads) <= Len(payloads')
      /\ BranchIds \subseteq BranchIds' /\ CheckpointIds \subseteq CheckpointIds'
  BY <1>1, SaverFacts, PayloadsGrow DEF StoreGrows
<1>4. ASSUME NEW p \in Agents
      PROVE  /\ agents'[p] \in AgentsOf(Len(payloads'), BranchIds', CheckpointIds')
             /\ AgentOK(agents[p])'
  <2>1. CASE agents'[p] = agents[p]
    <3>1. PICK a : a = agents[p]
      OBVIOUS
    <3>2. AgentOK(a) /\ a \in AgentsOf(Len(payloads), BranchIds, CheckpointIds)
      BY <3>1, SaverFacts
    <3>3. AgentOK(a)'
      BY <3>2, <1>1, <1>2, AgentStays
    <3>4. a \in AgentsOf(Len(payloads'), BranchIds', CheckpointIds')
      BY <3>2, <1>3, AgentRowsGrow
    <3> QED
      BY <3>1, <3>3, <3>4, <2>1 DEF AgentOK, ReachesParent, ExtendsParent, ForksAtParent
  <2> QED
    BY <2>1
<1>5. RowsOK'
  <2>1. writes' \subseteq WritesOf(Len(payloads'))
    BY <1>3, WriteRowsGrow, SaverFacts DEF RowsOK
  <2>2. agents' \in [Agents -> AgentsOf(Len(payloads'), BranchIds', CheckpointIds')]
    BY <1>4
  <2> QED
    BY <2>1, <2>2, PayloadsGrow, LabelsGrow DEF RowsOK
<1>6. PastWritesForked'
  BY <1>1, <1>2, PastWritesStay
<1>7. ParentIsAncestor'
  <2>1. \A c \in CheckpointIds : ParentOK(c)'
    BY <1>1, <1>2, PayloadsGrow, ParentStays
  <2>2. CheckpointIds' = CheckpointIds \cup {n}
    BY DEF Labels
  <2>3. ASSUME NEW c \in CheckpointIds'  PROVE ParentOK(c)'
    <3>1. CASE c = n
      BY <3>1 DEF ParentOK, Before, Nearest
    <3> QED
      BY <3>1, <2>1, <2>2
  <2> QED
    BY <2>3, ParentsAreParentOK
<1> QED
  BY <1>1, <1>2, <1>4, <1>5, <1>6, <1>7 DEF SaverInv, BranchesOK


LEMMA UnlabelledIsOK ==
  ASSUME NEW n, labels'[n] = NULL
  PROVE  ParentOK(n)'
  BY DEF ParentOK

LEMMA PutCreatesRunKeeps ==
  ASSUME SaverInv, NEW p \in Agents, PutCreatesRun(p)
  PROVE  SaverInv'
<1>1. PICK n, m : n = Len(checkpoints) + 1 /\ m = Len(branches) + 1
  OBVIOUS
<1>2. /\ create_run /\ labels' = Append(labels, NULL) /\ payloads' = payloads /\ writes' = writes
      /\ StoreInv /\ TreeInv /\ [Next]_storeVars
  BY SaverFacts DEF PutCreatesRun, Next
<1>3. /\ NewCheckpoint(n, [run |-> runs + 1, branch |-> m, parent |-> NULL, step |-> 0],
                       NoRows(Keys), NoRows(Paths))
      /\ NewBranch(m, [run |-> runs + 1, status |-> "active", head |-> n,
                       fork |-> NULL, of |-> NULL])
      /\ \A b \in BranchIds : branches'[b] = branches[b]
      /\ runs' = runs + 1
  BY <1>1, <1>2, CreateRunShape
<1>4. Labels(n, NULL)
  BY <1>2, <1>3, SaverKeys DEF Labels, NewCheckpoint, NoRows
<1>5. BranchesOK'
  BY <1>2, CreateRunBranches DEF SaverInv, BranchesOK
<1>6. ActiveStays
  <2>1. SUFFICES ASSUME NEW b \in BranchIds', IsActiveBranch(ThreadRun, b)', runs # 0
                 PROVE  b \in BranchIds /\ IsActiveBranch(ThreadRun, b)
    BY DEF ActiveStays
  <2>2. ThreadRun = 1 /\ ThreadRun' = 1 /\ runs + 1 # 1
    BY <2>1, <1>3, SaverFacts DEF ThreadRun
  <2>3. BranchIds' = BranchIds \cup {m} /\ branches'[m].run = runs + 1
    BY <1>3 DEF NewBranch
  <2>4. b \in BranchIds
    BY <2>1, <2>2, <2>3 DEF IsActiveBranch
  <2> QED
    BY <2>1, <2>2, <2>3, <2>4, <1>3 DEF IsActiveBranch, Active
<1>7. ParentOK(n)'
  BY <1>4, LabelsGrow, UnlabelledIsOK
<1>8. PICK a : a = agents[p]
  OBVIOUS
<1>9. a \in AgentsOf(Len(payloads), BranchIds, CheckpointIds) /\ AgentOK(a) /\ a.pc = "create"
  BY <1>8, SaverFacts DEF PutCreatesRun, At
<1>10. PICK r : r = [a EXCEPT !.pc = "read", !.branch = m, !.fresh = @ /\ runs = 0]
  OBVIOUS
<1>11. agents' = [agents EXCEPT ![p] = r]
  BY <1>1, <1>8, <1>10 DEF PutCreatesRun
<1>12. /\ r.pc = "read" /\ r.branch = m /\ r.parent = NULL
       /\ r \in AgentsOf(Len(payloads'), BranchIds', CheckpointIds')
  <2>1. a.parent = NULL
    BY <1>9 DEF AgentOK
  <2>2. m \in BranchIds' /\ CheckpointIds \subseteq CheckpointIds' /\ payloads' = payloads
    BY <1>2, <1>3 DEF NewBranch, NewCheckpoint
  <2>3. (a.fresh /\ runs = 0) \in BOOLEAN
    OBVIOUS
  <2> QED
    BY <1>9, <1>10, <2>1, <2>2, <2>3 DEF AgentsOf
<1>13. AgentOK(r)'
  BY <1>3, <1>12 DEF AgentOK, NewBranch
<1>14. /\ agents' = [q \in Agents |-> agents'[q]]
       /\ \A q \in Agents : agents'[q] = IF q = p THEN r ELSE agents[q]
  BY <1>11, SaverFacts DEF RowsOK
<1>15. AgentOK(agents[p])'
  BY <1>13, <1>14 DEF AgentOK, ReachesParent, ExtendsParent, ForksAtParent
<1> QED
  BY <1>2, <1>4, <1>5, <1>6, <1>7, <1>12, <1>14, <1>15, CommitStep

(* The rows of LangGraph's checkpoint, or of one that leaves its key alone. *)
LEMMA CommitRows ==
  ASSUME SaverInv, NEW b \in BranchIds, NEW kv \in [Keys -> Contents \cup {Unwritten}],
         create_checkpoint(b, kv, NoRows(Paths), NULL), NEW n, n = Len(checkpoints) + 1,
         NEW h, h = branches[b].head
  PROVE  /\ [Next]_storeVars /\ n \in Nat /\ n <= MaxCheckpoints
         /\ n \notin CheckpointIds /\ CheckpointIds' = CheckpointIds \cup {n}
         /\ Len(checkpoints') = n /\ state_kv'[n] = kv
         /\ h \in CheckpointIds /\ lineage'[n] = {n} \cup lineage[h]
         /\ OldCheckpointsStay /\ BranchIds' = BranchIds /\ runs' = runs
         /\ branches'[b].head = n
         /\ \A a \in BranchIds : /\ branches'[a].run = branches[a].run
                                 /\ branches'[a].status = branches[a].status
         /\ BranchesOK' /\ ActiveStays
<1>1. StoreInv /\ TreeInv /\ Len(checkpoints) \in Nat
  BY SaverFacts
<1>2. [Next]_storeVars
  <2>1. NoRows(Paths) \in Rows(Paths) /\ NULL \in CheckpointIds \cup {NULL}
    BY NoRowsAreRows
  <2> QED
    BY <2>1, CommitsAreCheckpoints DEF Next
<1>3. n \in Nat /\ n <= MaxCheckpoints
  BY <1>1, BoundsAreNumbers DEF create_checkpoint, InsertCheckpoint
<1>4. PICK row : row = [run |-> branches[b].run, branch |-> b, parent |-> branches[b].head,
                        step |-> checkpoints[branches[b].head].step + 1]
  OBVIOUS
<1>5. /\ NewCheckpoint(n, row, kv, NoRows(Paths)) /\ h \in CheckpointIds
      /\ BranchIds' = BranchIds /\ runs' = runs
      /\ \A a \in BranchIds : /\ branches'[a].run = branches[a].run
                              /\ branches'[a].status = branches[a].status
                              /\ branches'[a].head = IF a = b THEN n ELSE branches[a].head
  BY <1>1, <1>4, CommitShape
<1>6. lineage'[n] = {n} \cup lineage[h]
  <2>1. row.parent = h /\ h # NULL
    BY <1>4, <1>5 DEF CheckpointIds, NULL
  <2> QED
    BY <2>1, <1>5 DEF NewCheckpoint
<1>7. BranchesOK'
  BY <1>1, <1>2, <1>5, StoreStepGrows, SameBranches DEF SaverInv, BranchesOK
<1>8. ActiveStays
  BY <1>5 DEF ActiveStays, IsActiveBranch, ThreadRun, Active
<1> QED
  BY <1>2, <1>3, <1>5, <1>6, <1>7, <1>8 DEF NewCheckpoint

LEMMA EditKeeps ==
  ASSUME SaverInv, Edit
  PROVE  SaverInv'
<1>1. PICK b \in BranchIds : create_checkpoint(b, NoRows(Keys), NoRows(Paths), NULL)
  BY DEF Edit
<1>2. PICK n, kv : n = Len(checkpoints) + 1 /\ kv = NoRows(Keys)
  OBVIOUS
<1>3. /\ labels' = Append(labels, NULL) /\ payloads' = payloads /\ writes' = writes
      /\ agents' = agents
  BY DEF Edit
<1>4. kv \in [Keys -> Contents \cup {Unwritten}] /\ kv[STATE_KEY] = Unwritten
  BY <1>2, SaverKeys DEF NoRows
<1>5. /\ [Next]_storeVars /\ BranchesOK' /\ ActiveStays
      /\ n \notin CheckpointIds /\ CheckpointIds' = CheckpointIds \cup {n}
      /\ Len(checkpoints') = n /\ state_kv'[n] = kv
  BY <1>1, <1>2, <1>4, CommitRows
<1>6. Labels(n, NULL)
  BY <1>2, <1>3, <1>4, <1>5 DEF Labels
<1>7. ParentOK(n)'
  BY <1>6, LabelsGrow, UnlabelledIsOK
<1>8. agents' = [p \in Agents |-> agents'[p]]
  BY <1>3, SaverFacts DEF RowsOK
<1> QED
  BY <1>3, <1>5, <1>6, <1>7, <1>8, CommitStep

(* The payload a put writes is one of the contents of the store.           *)
LEMMA PutPayload ==
  ASSUME SaverInv, NEW p \in Agents, PutCommits(p),
         NEW id, id = Len(payloads) + 1, NEW kv, kv = PayloadRows(id)
  PROVE  /\ agents[p].branch \in BranchIds
         /\ create_checkpoint(agents[p].branch, kv, NoRows(Paths), NULL)
         /\ id \in 1 .. MaxCheckpoints /\ id \in Contents /\ id # NULL /\ Len(payloads) \in Nat
         /\ kv \in [Keys -> Contents \cup {Unwritten}] /\ kv[STATE_KEY] = id
<1>1. PICK a : a = agents[p]
  OBVIOUS
<1>2. AgentOK(a) /\ a.pc = "commit" /\ create_checkpoint(a.branch, kv, NoRows(Paths), NULL)
  BY <1>1, SaverFacts DEF PutCommits, At
<1>3. a.branch \in BranchIds
  BY <1>2 DEF AgentOK, ExtendsParent
<1>4. id \in 1 .. MaxCheckpoints /\ id \in Contents /\ id # NULL /\ Len(payloads) \in Nat
  <2>1. Len(checkpoints) < MaxCheckpoints
    BY <1>2 DEF create_checkpoint, InsertCheckpoint
  <2>2. id \in 1 .. MaxCheckpoints /\ Len(payloads) \in Nat
    BY <2>1, SaverFacts, BoundsAreNumbers DEF RowsOK
  <2> QED
    BY <2>2, SaverKeys DEF NULL
<1>5. kv \in [Keys -> Contents \cup {Unwritten}] /\ kv[STATE_KEY] = id
  BY <1>4, SaverKeys DEF PayloadRows, NoRows
<1> QED
  BY <1>1, <1>2, <1>3, <1>4, <1>5

LEMMA PutCommitsKeeps ==
  ASSUME SaverInv, NEW p \in Agents, PutCommits(p)
  PROVE  SaverInv'
<1>1. PICK a, n, id : a = agents[p] /\ n = Len(checkpoints) + 1 /\ id = Len(payloads) + 1
  OBVIOUS
<1>2. PICK kv, pay, r :
         /\ kv = PayloadRows(id) /\ pay = [parent |-> a.parent, put |-> PutWas(a)]
         /\ r = Beginning(id, n, IsActiveBranch(ThreadRun, a.branch))
  OBVIOUS
<1>3. /\ create_checkpoint(a.branch, kv, NoRows(Paths), NULL) /\ a.pc = "commit"
      /\ labels' = Append(labels, id) /\ payloads' = Append(payloads, pay) /\ writes' = writes
      /\ agents' = [agents EXCEPT ![p] = r]
  BY <1>1, <1>2, BeginningIs DEF PutCommits, At
<1>4. a \in AgentsOf(Len(payloads), BranchIds, CheckpointIds) /\ AgentOK(a)
  BY <1>1, SaverFacts
<1>5. PICK b, h : b = a.branch /\ h = branches[b].head
  OBVIOUS
<1>6. /\ b \in BranchIds /\ a.head \in CheckpointIds /\ a.head \in lineage[h]
      /\ a.fresh /\ a.parent # NULL => labels[a.head] = a.parent
  BY <1>3, <1>4, <1>5 DEF AgentOK, ExtendsParent
<1>7. /\ id \in 1 .. MaxCheckpoints /\ id \in Contents /\ id # NULL /\ Len(payloads) \in Nat
      /\ kv \in [Keys -> Contents \cup {Unwritten}] /\ kv[STATE_KEY] = id
  BY <1>1, <1>2, PutPayload
<1>8. /\ [Next]_storeVars /\ BranchesOK' /\ ActiveStays /\ OldCheckpointsStay
      /\ n \notin CheckpointIds /\ CheckpointIds' = CheckpointIds \cup {n}
      /\ Len(checkpoints') = n /\ state_kv'[n] = kv
      /\ h \in CheckpointIds /\ lineage'[n] = {n} \cup lineage[h]
      /\ BranchIds' = BranchIds /\ branches'[b].head = n
  BY <1>1, <1>3, <1>5, <1>6, <1>7, CommitRows
<1>9. pay \in PayloadsOf(Len(payloads))
  <2>1. PutWas(a) \in {"alone", "raced", "overtaken"}
    BY <1>4 DEF PutWas, AgentsOf
  <2> QED
    BY <2>1, <1>2, <1>4 DEF PayloadsOf, AgentsOf
<1>10. Labels(n, id)
  BY <1>1, <1>3, <1>7, <1>8, <1>9 DEF Labels
<1>11. /\ labels'[n] = id /\ LabelsStay /\ payloads'[id] = pay
       /\ LangGraphIds' = LangGraphIds \cup {id} /\ Len(payloads') \in Nat
  <2>1. payloads'[id] = pay
    BY <1>1, <1>3, <1>9, SaverFacts DEF RowsOK
  <2> QED
    BY <2>1, <1>7, <1>10, LabelsGrow, PayloadsGrow
<1>12. ParentOK(n)'
  <2>1. SUFFICES ASSUME pay.parent # NULL, pay.put # "overtaken"
                 PROVE  \E d \in Before(n)' : /\ labels'[d] = pay.parent
                                              /\ pay.put = "alone" => Nearest(n, d)'
    BY <1>11 DEF ParentOK
  <2>2. a.fresh /\ a.parent # NULL /\ pay.parent = a.parent
    BY <2>1, <1>2, <1>4 DEF PutWas, AgentsOf
  <2>3. pay.put = "alone" => h = a.head
    BY <2>2, <1>2, <1>5 DEF PutWas
  <2>4. labels[a.head] = a.parent /\ labels'[a.head] = a.parent
    BY <2>2, <1>6, <1>11 DEF LabelsStay
  <2>5. lineage[h] \subseteq CheckpointIds
    BY <1>8, SaverFacts, StoreFacts
  <2>6. /\ Before(n)' \subseteq lineage[h]
        /\ a.head \in Before(n)'
    BY <2>2, <2>4, <2>5, <1>6, <1>8 DEF Before
  <2>7. \A e \in lineage[h] : checkpoints'[e].step <= checkpoints'[h].step
    BY <2>5, <1>8, SaverFacts, StepsOfLineage DEF OldCheckpointsStay
  <2>8. pay.put = "alone" => Nearest(n, a.head)'
    BY <2>3, <2>6, <2>7 DEF Nearest
  <2> QED
    BY <2>2, <2>4, <2>6, <2>8
<1>13. /\ r.pc = "run" /\ r.parent = id /\ r.head = n
       /\ r.fresh = IsActiveBranch(ThreadRun, b)
       /\ r \in AgentsOf(Len(payloads'), BranchIds', CheckpointIds')
  <2>1. IsActiveBranch(ThreadRun, b) \in BOOLEAN
    BY DEF IsActiveBranch, Active
  <2>2. id \in 1 .. Len(payloads')
    BY <1>11 DEF LangGraphIds
  <2> QED
    BY <2>1, <2>2, <1>2, <1>5, <1>8 DEF Beginning, AgentsOf
<1>14. AgentOK(r)'
  <2>1. ASSUME r.fresh, NEW z \in BranchIds', IsActiveBranch(ThreadRun, z)'
        PROVE  LabelledOn(branches[z].head, id)'
    <3>1. runs # 0
      BY <1>6, NoRunNoIds
    <3>2. z \in BranchIds /\ IsActiveBranch(ThreadRun, z) /\ IsActiveBranch(ThreadRun, b)
      BY <2>1, <3>1, <1>8, <1>13 DEF ActiveStays
    <3>3. z <= b /\ b <= z
      BY <3>2, <1>6 DEF IsActiveBranch
    <3>4. z = b
      BY <3>2, <3>3, <1>6, SaverFacts DEF BranchIds
    <3> QED
      BY <3>4, <1>8, <1>11 DEF LabelledOn
  <2> QED
    BY <2>1, <1>13 DEF AgentOK, ReachesParent
<1>15. /\ agents' = [q \in Agents |-> agents'[q]]
       /\ \A q \in Agents : agents'[q] = IF q = p THEN r ELSE agents[q]
  BY <1>3, SaverFacts DEF RowsOK
<1>16. AgentOK(agents[p])'
  BY <1>14, <1>15 DEF AgentOK, ReachesParent, ExtendsParent, ForksAtParent
<1> QED
  BY <1>3, <1>8, <1>10, <1>12, <1>13, <1>15, <1>16, CommitStep

-----------------------------------------------------------------------------
(* Steps that rewind.                                                      *)

(* Everybody in an invocation is overtaken, but for the one that rewinds.  *)
LEMMA OvertakenAgents ==
  ASSUME SaverInv, NEW by, NEW p \in Agents, p # by, StoreGrows, LabelsStay
  PROVE  /\ Overtaken(by)[p] \in AgentsOf(Len(payloads), BranchIds, CheckpointIds)
         /\ \A a : a = Overtaken(by)[p] => AgentOK(a)'
<1>1. PICK a, o : a = agents[p] /\ o = Overtaken(by)[p]
  OBVIOUS
<1>2. a \in AgentsOf(Len(payloads), BranchIds, CheckpointIds) /\ AgentOK(a)
  BY <1>1, SaverFacts
<1>3. CASE a.pc = "rest"
  BY <1>1, <1>2, <1>3 DEF Overtaken, At, AgentOK
<1>4. CASE a.pc # "rest"
  <2>1. o = [a EXCEPT !.fresh = FALSE]
    BY <1>1, <1>4 DEF Overtaken, At
  <2>2. /\ o \in AgentsOf(Len(payloads), BranchIds, CheckpointIds)
        /\ o.pc = a.pc /\ o.parent = a.parent /\ o.branch = a.branch /\ o.head = a.head
        /\ o.fresh = FALSE
    BY <2>1, <1>2 DEF AgentsOf
  <2>3. AgentOK(o)
    BY <2>2, <1>2 DEF AgentOK, ReachesParent, ExtendsParent, ForksAtParent
  <2>4. AgentOK(o)'
    BY <2>2, <2>3, AgentStays
  <2> QED
    BY <2>2, <2>4, <1>1
<1> QED
  BY <1>3, <1>4

LEMMA AgedWrites ==
  ASSUME SaverInv, NEW b \in BranchIds, NEW target \in CheckpointIds, rewind(b, target),
         AgeWrites(target), labels' = labels, payloads' = payloads, StoreGrows
  PROVE  PastWritesForked' /\ writes' \subseteq WritesOf(Len(payloads'))
<1>1. PICK m : m = Len(branches) + 1
  OBVIOUS
<1>2. m \in BranchIds' /\ branches'[m].fork = target
  <2>1. NewBranch(m, [run |-> branches[b].run, status |-> "active",
                      head |-> target, fork |-> target, of |-> b])
    BY <1>1, SaverFacts, RewindShape
  <2> QED
    BY <2>1 DEF NewBranch
<1>3. target # NULL
  BY DEF CheckpointIds, NULL
<1>4. ASSUME NEW x \in writes'
      PROVE  /\ x \in WritesOf(Len(payloads))
             /\ x.past => \E z \in BranchIds' : /\ branches'[z].fork # NULL
                                                /\ labels'[branches'[z].fork] = x.id
  <2>1. PICK w \in writes : x = [w EXCEPT !.past = @ \/ w.id = labels[target]]
    BY DEF AgeWrites
  <2>2. w \in WritesOf(Len(payloads))
    BY SaverFacts DEF RowsOK
  <2>3. PICK past \in BOOLEAN : past <=> w.past \/ w.id = labels[target]
    OBVIOUS
  <2>4. x.id = w.id /\ (x.past <=> w.past \/ w.id = labels[target])
        /\ x \in WritesOf(Len(payloads))
    BY <2>1, <2>2, <2>3 DEF WritesOf
  <2>5. CASE w.past
    <3>1. PICK z \in BranchIds : branches[z].fork # NULL /\ labels[branches[z].fork] = w.id
      BY <2>5 DEF SaverInv, PastWritesForked
    <3> QED
      BY <3>1, <2>4 DEF StoreGrows
  <2>6. CASE w.id = labels[target]
    BY <2>4, <2>6, <1>2, <1>3
  <2> QED
    BY <2>4, <2>5, <2>6
<1>5. writes' \subseteq WritesOf(Len(payloads'))
  BY <1>4
<1>6. PastWritesForked'
  BY <1>4 DEF PastWritesForked
<1> QED
  BY <1>5, <1>6

LEMMA RewindsKeep ==
  ASSUME SaverInv, NEW b \in BranchIds, NEW target \in CheckpointIds, rewind(b, target),
         AgeWrites(target), labels' = labels, payloads' = payloads,
         agents' = [p \in Agents |-> agents'[p]],
         \A p \in Agents :
             /\ agents'[p] \in AgentsOf(Len(payloads), BranchIds', CheckpointIds)
             /\ AgentOK(agents[p])'
  PROVE  SaverInv'
<1>1. [Next]_storeVars
  BY DEF Next
<1>2. StoreInv' /\ StoreGrows
  BY <1>1, SaverFacts, StoreStep, StoreStepGrows
<1>3. LabelsStay /\ LangGraphIds' = LangGraphIds
  BY DEF LabelsStay, LangGraphIds
<1>4. checkpoints' = checkpoints /\ state_kv' = state_kv /\ CheckpointIds' = CheckpointIds
  BY DEF rewind, CheckpointIds
<1>5. LabelsOK'
  BY <1>3, <1>4, SaverFacts DEF LabelsOK
<1>6. PastWritesForked' /\ writes' \subseteq WritesOf(Len(payloads'))
  BY <1>2, AgedWrites
<1>7. RowsOK'
  <2>1. agents' \in [Agents -> AgentsOf(Len(payloads'), BranchIds', CheckpointIds')]
    BY <1>4
  <2> QED
    BY <2>1, <1>3, <1>4, <1>6, SaverFacts DEF RowsOK
<1>8. BranchesOK'
  BY SaverFacts, RewindBranches DEF SaverInv, BranchesOK
<1>9. ParentIsAncestor'
  BY <1>2, <1>3, <1>4, ParentStays, ParentsAreParentOK
<1> QED
  BY <1>2, <1>5, <1>6, <1>7, <1>8, <1>9 DEF SaverInv, BranchesOK


LEMMA OperatorRewindsKeep ==
  ASSUME SaverInv, OperatorRewinds
  PROVE  SaverInv'
<1>1. PICK b \in BranchIds, target \in CheckpointIds : rewind(b, target) /\ AgeWrites(target)
  BY DEF OperatorRewinds
<1>2. agents' = Overtaken(NULL) /\ labels' = labels /\ payloads' = payloads
  BY DEF OperatorRewinds
<1>3. StoreGrows /\ LabelsStay /\ BranchIds \subseteq BranchIds'
  BY <1>1, <1>2, SaverFacts, StoreStepGrows DEF Next, LabelsStay, StoreGrows
<1>4. agents' = [p \in Agents |-> agents'[p]]
  BY <1>2 DEF Overtaken
<1>5. ASSUME NEW p \in Agents
      PROVE  /\ agents'[p] \in AgentsOf(Len(payloads), BranchIds', CheckpointIds)
             /\ AgentOK(agents[p])'
  <2>1. PICK a : a = Overtaken(NULL)[p] /\ a = agents'[p]
    BY <1>2
  <2>2. p # NULL
    BY AgentsAreNotNull
  <2>3. a \in AgentsOf(Len(payloads), BranchIds, CheckpointIds) /\ AgentOK(a)'
    BY <2>1, <2>2, <1>3, OvertakenAgents
  <2>4. a \in AgentsOf(Len(payloads), BranchIds', CheckpointIds)
    BY <2>3, <1>3, SaverFacts, AgentRowsGrow
  <2> QED
    BY <2>1, <2>3, <2>4 DEF AgentOK, ReachesParent, ExtendsParent, ForksAtParent
<1> QED
  BY <1>1, <1>2, <1>4, <1>5, RewindsKeep

LEMMA PutForksKeeps ==
  ASSUME SaverInv, NEW p \in Agents, PutForks(p)
  PROVE  SaverInv'
<1>1. PICK a, b, target : a = agents[p] /\ b = a.branch /\ target = a.head
  OBVIOUS
<1>2. PICK m : m = Len(branches) + 1
  OBVIOUS
<1>3. /\ rewind(b, target) /\ AgeWrites(target) /\ a.pc = "fork"
      /\ labels' = labels /\ payloads' = payloads
      /\ agents' = [Overtaken(p) EXCEPT ![p].pc = "commit", ![p].branch = m]
  BY <1>1, <1>2 DEF PutForks, At
<1>4. a \in AgentsOf(Len(payloads), BranchIds, CheckpointIds) /\ AgentOK(a)
  BY <1>1, SaverFacts
<1>5. b \in BranchIds /\ target \in CheckpointIds /\ a.parent # NULL /\ labels[target] = a.parent
  BY <1>1, <1>3, <1>4 DEF AgentOK, ForksAtParent
<1>6. StoreGrows /\ LabelsStay /\ BranchIds \subseteq BranchIds'
  BY <1>3, <1>5, SaverFacts, StoreStepGrows DEF Next, LabelsStay, StoreGrows
<1>7. /\ m \in BranchIds' /\ branches'[m].head = target
      /\ lineage' = lineage /\ CheckpointIds' = CheckpointIds
  <2>1. /\ NewBranch(m, [run |-> branches[b].run, status |-> "active",
                         head |-> target, fork |-> target, of |-> b])
        /\ UNCHANGED <<lineage, CheckpointIds>>
    BY <1>2, <1>3, <1>5, SaverFacts, RewindShape
  <2> QED
    BY <2>1 DEF NewBranch
<1>8. PICK r : r = [a EXCEPT !.pc = "commit", !.branch = m]
  OBVIOUS
<1>9. /\ r \in AgentsOf(Len(payloads), BranchIds', CheckpointIds)
      /\ r.pc = "commit" /\ r.branch = m /\ r.head = target /\ r.parent = a.parent
  BY <1>1, <1>4, <1>7, <1>8 DEF AgentsOf
<1>10. AgentOK(r)'
  <2>1. target \in lineage[target]
    BY <1>5, SaverFacts, StoreFacts
  <2>2. ExtendsParent(r)'
    BY <2>1, <1>3, <1>5, <1>7, <1>9 DEF ExtendsParent
  <2> QED
    BY <2>2, <1>9 DEF AgentOK
<1>11. /\ agents' = [q \in Agents |-> agents'[q]] /\ agents'[p] = r
       /\ \A q \in Agents : q # p => agents'[q] = Overtaken(p)[q]
  <2>1. PICK f : f = Overtaken(p)
    OBVIOUS
  <2>2. f = [q \in Agents |-> f[q]] /\ f[p] = a
    BY <2>1, <1>1 DEF Overtaken
  <2>3. agents' = [f EXCEPT ![p] = r]
    BY <2>1, <2>2, <1>3, <1>8
  <2> QED
    BY <2>1, <2>2, <2>3
<1>12. ASSUME NEW q \in Agents
       PROVE  /\ agents'[q] \in AgentsOf(Len(payloads), BranchIds', CheckpointIds)
              /\ AgentOK(agents[q])'
  <2>1. CASE q = p
    BY <2>1, <1>9, <1>10, <1>11 DEF AgentOK, ReachesParent, ExtendsParent, ForksAtParent
  <2>2. CASE q # p
    <3>1. PICK o : o = Overtaken(p)[q] /\ o = agents'[q]
      BY <2>2, <1>11
    <3>2. o \in AgentsOf(Len(payloads), BranchIds, CheckpointIds) /\ AgentOK(o)'
      BY <3>1, <2>2, <1>6, OvertakenAgents
    <3>3. o \in AgentsOf(Len(payloads), BranchIds', CheckpointIds)
      BY <3>2, <1>6, SaverFacts, AgentRowsGrow
    <3> QED
      BY <3>1, <3>2, <3>3 DEF AgentOK, ReachesParent, ExtendsParent, ForksAtParent
  <2> QED
    BY <2>1, <2>2
<1> QED
  BY <1>3, <1>5, <1>11, <1>12, RewindsKeep

-----------------------------------------------------------------------------
(* The inductive invariant.                                                *)

LEMMA SaverInitially == SaverInit => SaverInv
<1> SUFFICES ASSUME SaverInit  PROVE SaverInv
  OBVIOUS
<1>1. /\ StoreInv /\ CheckpointIds = {} /\ BranchIds = {} /\ LangGraphIds = {}
      /\ Len(payloads) = 0 /\ Len(checkpoints) = 0 /\ labels = <<>> /\ payloads = <<>>
  BY StoreInit, EmptySeq DEF SaverInit, Init, CheckpointIds, BranchIds, LangGraphIds
<1>2. RowsOK
  <2>1. agents \in [Agents -> AgentsOf(Len(payloads), BranchIds, CheckpointIds)]
    BY RestingIsOK DEF SaverInit
  <2>2. \A S : labels \in Seq(S) /\ payloads \in Seq(S)
    BY <1>1
  <2>3. Len(labels) = 0
    BY <1>1
  <2> QED
    BY <2>1, <2>2, <2>3, <1>1, BoundsAreNumbers DEF RowsOK, SaverInit
<1>3. \A p \in Agents : AgentOK(agents[p])
  BY DEF SaverInit, AgentOK, Resting
<1> QED
  BY <1>1, <1>2, <1>3 DEF SaverInv, LabelsOK, ForksAreOlder, NewestIsActive, PastWritesForked,
     ParentIsAncestor, SaverInit

LEMMA SaverStep == SaverInv /\ [SaverNext]_saverVars => SaverInv'
<1> SUFFICES ASSUME SaverInv, [SaverNext]_saverVars  PROVE SaverInv'
  OBVIOUS
<1>1. ASSUME NEW p \in Agents,
             \/ ResumeLatest(p) \/ (\E id \in LangGraphIds : ResumeAt(p, id)) \/ put_writes(p)
             \/ PutFindsNoRun(p) \/ PutCreatesRun(p) \/ PutReadsBranch(p) \/ PutForks(p)
             \/ PutCommits(p) \/ PutFails(p) \/ Stop(p)
      PROVE  SaverInv'
  BY <1>1, ResumeLatestKeeps, ResumeAtKeeps, put_writesKeeps, PutFindsNoRunKeeps,
     PutCreatesRunKeeps, PutReadsBranchKeeps, PutForksKeeps, PutCommitsKeeps, RestsKeep
<1>2. CASE Inspect \/ Restart \/ OperatorRewinds \/ Edit
  BY <1>2, InspectKeeps, RestartKeeps, OperatorRewindsKeep, EditKeeps
<1>3. CASE UNCHANGED saverVars
  <2>1. /\ UNCHANGED <<storeVars, labels, payloads>> /\ agents' = agents /\ writes' = writes
    BY <1>3 DEF saverVars
  <2> QED
    BY <2>1, SaverFacts, FewerWrites, SameRows DEF RowsOK
<1> QED
  BY <1>1, <1>2, <1>3 DEF SaverNext

LEMMA SaverInvariant == SaverSpec => []SaverInv
  BY SaverInitially, SaverStep, PTL DEF SaverSpec

-----------------------------------------------------------------------------
(* The theorems.                                                           *)

(* The saver's rows, its pending writes and what each invocation carries   *)
(* between its calls name only ids that exist.                             *)
THEOREM SaverTypeCorrectness == SaverSpec => []SaverTypeOK
<1>1. SaverInv => SaverTypeOK
  BY DEF SaverInv, SaverTypeOK, StoreInv, TreeInv, RowsOK, PayloadsOf, WritesOf, AgentsOf,
     LangGraphIds
<1> QED
  BY <1>1, SaverInvariant, PTL

(* checkpointer.py's put forks when its parent is below the head and       *)
(* extends the head otherwise: LangGraph's tree and the store's agree, for *)
(* every put that no rewind overtook.                                      *)
THEOREM ParentsAreAncestors == SaverSpec => []ParentIsAncestor
<1>1. SaverInv => ParentIsAncestor
  BY DEF SaverInv
<1> QED
  BY <1>1, SaverInvariant, PTL

(* Every checkpoint LangGraph was told of is found by its id, holds its    *)
(* own payload, and is listed from the head of the branch that took it.    *)
THEOREM CompletedPutsAreDurable == SaverSpec => []CompletedPutsAreFound
<1>1. ASSUME SaverInv, runs = 1, NEW id \in LangGraphIds
      PROVE  \E c \in CheckpointIds :
               /\ FindByLgId(ThreadRun, id) = {c}
               /\ payload_at(c) = id
               /\ c \in list(branches[checkpoints[c].branch].head)
  <2>1. PICK c \in CheckpointIds : labels[c] = id
    BY <1>1, SaverFacts DEF LabelsOK
  <2>2. ThreadRun = 1 /\ id # NULL
    BY <1>1, SaverFacts DEF ThreadRun
  <2>3. \A d \in CheckpointIds : RunOf(d) = 1
    BY <1>1, SaverFacts, StoreFacts DEF RunOf
  <2>4. \A d \in CheckpointIds : labels[d] = id => d = c
    BY <1>1, <2>1, <2>2, SaverFacts DEF LabelsOK
  <2>5. FindByLgId(ThreadRun, id) = {c}
    BY <2>1, <2>2, <2>3, <2>4 DEF FindByLgId
  <2>6. payload_at(c) = id
    BY <1>1, <2>1, <2>2, PayloadsFound
  <2>7. c \in lineage[branches[checkpoints[c].branch].head]
    BY <1>1, SaverFacts DEF TreeInv, NoLostCommit
  <2> QED
    BY <2>1, <2>2, <2>5, <2>6, <2>7 DEF list
<1>2. SaverInv => CompletedPutsAreFound
  BY <1>1 DEF CompletedPutsAreFound
<1> QED
  BY <1>2, SaverInvariant, PTL

(* The head of the active branch is one that somebody rewound to only      *)
(* while the branch is parked there, and then get_tuple drops the writes.  *)
LEMMA RewoundIsParked ==
  ASSUME SaverInv, NEW b \in BranchIds, IsActiveBranch(ThreadRun, b),
         NEW z \in BranchIds, branches[z].fork # NULL, branches[z].fork = branches[b].head
  PROVE  Parked(b, branches[b].head)
<1>1. PICK h : h = branches[b].head
  OBVIOUS
<1>2. h \in CheckpointIds /\ RunOf(h) = branches[b].run /\ branches[b].run = ThreadRun
  BY <1>1, SaverFacts, StoreFacts DEF IsActiveBranch
<1>3. branches[z].run = RunOf(h)
  <2>1. h \in lineage[branches[z].head] /\ branches[z].head \in CheckpointIds
        /\ RunOf(branches[z].head) = branches[z].run
    BY <1>1, SaverFacts, StoreFacts DEF StoreInv, OwnLineage
  <2> QED
    BY <2>1, SaverFacts DEF TreeInv, LineageIsChain
<1>4. z <= b
  BY <1>2, <1>3, ActiveIsNewest
<1>5. checkpoints[h].branch < z /\ checkpoints[h].branch \in BranchIds
  BY <1>1 DEF SaverInv, ForksAreOlder
<1>6. checkpoints[h].branch # b
  BY <1>4, <1>5, SaverFacts DEF BranchIds
<1>7. branches[b].fork = h
  BY <1>1, <1>6, SaverFacts, HeadIsOwn
<1> QED
  BY <1>1, <1>7 DEF Parked

(* An invocation that resumes at the head gets no task writes from before  *)
(* a rewind to it, whichever way the invocation and the head came there.   *)
THEOREM ResumesAreClean == SaverSpec => ResumeIsClean
<1>1. ASSUME SaverInv, [SaverNext]_saverVars, NEW p \in Agents, NEW b \in BranchIds,
             At(p, "rest"), At(p, "run")', agents'[p].parent # NULL,
             IsActiveBranch(ThreadRun, b), labels[branches[b].head] = agents'[p].parent,
             NEW w \in writes', w.id = agents'[p].parent
      PROVE  ~w.past
  <2>1. agents \in [Agents -> AgentsOf(Len(payloads), BranchIds, CheckpointIds)]
        /\ agents[p].pc = "rest" /\ agents'[p].pc = "run"
    BY <1>1, SaverFacts DEF RowsOK, At
  <2>2. ResumeLatest(p) \/ \E id \in LangGraphIds : ResumeAt(p, id)
    <3>1. ~UNCHANGED saverVars /\ ~Inspect /\ ~Edit
      BY <2>1 DEF saverVars, Inspect, Edit
    <3>2. ~Restart
      BY <2>1 DEF Restart, Resting
    <3>3. ~OperatorRewinds
      BY <2>1 DEF OperatorRewinds, Overtaken, At
    <3>4. ASSUME NEW q \in Agents
          PROVE  /\ ~put_writes(q) /\ ~PutFindsNoRun(q) /\ ~PutCreatesRun(q)
                 /\ ~PutReadsBranch(q) /\ ~PutFails(q) /\ ~Stop(q) /\ ~PutCommits(q)
      <4>1. q # p => /\ ~PutFindsNoRun(q) /\ ~PutCreatesRun(q) /\ ~PutFails(q) /\ ~Stop(q)
                     /\ ~PutReadsBranch(q) /\ ~PutCommits(q)
        BY <2>1 DEF PutFindsNoRun, PutCreatesRun, PutReadsBranch, PutFails, Stop, PutCommits
      <4>2. /\ ~PutFindsNoRun(p) /\ ~PutCreatesRun(p) /\ ~PutFails(p) /\ ~Stop(p)
            /\ ~PutReadsBranch(p) /\ ~PutCommits(p)
        BY <2>1 DEF PutFindsNoRun, PutCreatesRun, PutReadsBranch, PutFails, Stop, PutCommits, At
      <4>3. ~put_writes(q)
        BY <2>1 DEF put_writes
      <4> QED
        BY <4>1, <4>2, <4>3
    <3>5. ASSUME NEW q \in Agents  PROVE ~PutForks(q)
      <4>1. CASE q = p
        BY <2>1, <4>1 DEF PutForks, At
      <4>2. CASE q # p
        BY <2>1, <4>2 DEF PutForks, Overtaken, At
      <4> QED
        BY <4>1, <4>2
    <3>6. ASSUME NEW q \in Agents, q # p
          PROVE  ~ResumeLatest(q) /\ \A id \in LangGraphIds : ~ResumeAt(q, id)
      BY <2>1, <3>6 DEF ResumeLatest, ResumeAt, Begin
    <3> QED
      BY <1>1, <3>1, <3>2, <3>3, <3>4, <3>5, <3>6 DEF SaverNext
  <2>3. PICK h, id : h = branches[b].head /\ id = agents'[p].parent
    OBVIOUS
  <2>4. /\ h \in CheckpointIds /\ id # NULL /\ labels[h] = id /\ payload_at(h) = id
        /\ \A c \in CheckpointIds : labels[c] = id => c = h
    BY <1>1, <2>3, SaverFacts, StoreFacts, PayloadsFound DEF LabelsOK
  <2>5. \A a \in BranchIds : IsActiveBranch(ThreadRun, a) => a = b
    <3>1. ASSUME NEW a \in BranchIds, IsActiveBranch(ThreadRun, a)  PROVE a <= b /\ b <= a
      BY <1>1, <3>1 DEF IsActiveBranch
    <3> QED
      BY <3>1, SaverFacts DEF BranchIds
  <2>6. \A parent, head, fresh : Begin(p, parent, head, fresh) => parent = id
    BY <2>1, <2>3, BeginsAt
  <2>7. DropWrites(b, h, id)
    <3>1. CASE ResumeLatest(p)
      <4>1. PICK a \in BranchIds :
               /\ IsActiveBranch(ThreadRun, a)
               /\ DropWrites(a, branches[a].head, payload_at(branches[a].head))
        BY <3>1, <2>4, <2>6 DEF ResumeLatest
      <4> QED
        BY <4>1, <2>3, <2>4, <2>5
    <3>2. ASSUME NEW i \in LangGraphIds, ResumeAt(p, i)  PROVE DropWrites(b, h, id)
      <4>1. PICK a \in BranchIds, c \in FindByLgId(ThreadRun, i) :
               /\ IsActiveBranch(ThreadRun, a) /\ DropWrites(a, c, i)
               /\ Begin(p, i, NULL, c \in list(branches[a].head))
        BY <3>2 DEF ResumeAt
      <4>2. a = b /\ i = id
        BY <4>1, <2>5, <2>6
      <4>3. c = h
        BY <4>1, <4>2, <2>4 DEF FindByLgId
      <4> QED
        BY <4>1, <4>2, <4>3
    <3> QED
      BY <2>2, <3>1, <3>2
  <2>8. w.id = id /\ w \in writes /\ (Parked(b, h) => w.id # id)
    BY <1>1, <2>3, <2>7, DropsWrites
  <2>9. SUFFICES ASSUME w.past  PROVE FALSE
    OBVIOUS
  <2>10. PICK z \in BranchIds : branches[z].fork # NULL /\ labels[branches[z].fork] = id
    BY <1>1, <2>8, <2>9 DEF SaverInv, PastWritesForked
  <2>11. branches[z].fork = h
    BY <1>1, <2>4, <2>10 DEF SaverInv, ForksAreOlder
  <2>12. Parked(b, h)
    BY <1>1, <2>3, <2>10, <2>11, RewoundIsParked
  <2> QED
    BY <2>8, <2>12
<1>2. SaverInv /\ [SaverNext]_saverVars =>
        [\A p \in Agents, b \in BranchIds :
            At(p, "rest") /\ At(p, "run")' /\ agents'[p].parent # NULL
            /\ IsActiveBranch(ThreadRun, b) /\ labels[branches[b].head] = agents'[p].parent =>
                \A w \in writes' : w.id = agents'[p].parent => ~w.past]_saverVars
  BY <1>1
<1> QED
  BY <1>2, SaverInvariant, PTL DEF SaverSpec, ResumeIsClean

(* The counterpart of FixSurvivesReplay, which the code does not keep: an  *)
(* invocation that resumed at a head that is LangGraph's own checkpoint,   *)
(* and that no rewind overtakes, extends all that was on the lineage of    *)
(* that head, whatever others commit meanwhile.  So a fix is lost only     *)
(* when the agent resumes from a head that is somebody else's edit.        *)
THEOREM OwnHeadsAreExtended ==
  SaverSpec => [][\A p \in Agents :
      At(p, "run") /\ ~At(p, "run")' /\ ~At(p, "rest")'
      /\ agents[p].fresh /\ agents[p].parent # NULL /\ agents[p].head # NULL
      /\ labels[agents[p].head] = agents[p].parent =>
          lineage[agents[p].head] \subseteq lineage[agents'[p].head]]_saverVars
<1>1. ASSUME SaverInv, [SaverNext]_saverVars, NEW p \in Agents,
             At(p, "run"), ~At(p, "run")', ~At(p, "rest")', agents[p].fresh,
             agents[p].parent # NULL, agents[p].head # NULL,
             labels[agents[p].head] = agents[p].parent
      PROVE  lineage[agents[p].head] \subseteq lineage[agents'[p].head]
  <2>1. agents \in [Agents -> AgentsOf(Len(payloads), BranchIds, CheckpointIds)]
        /\ agents[p].pc = "run" /\ agents'[p].pc # "run" /\ agents'[p].pc # "rest"
    BY <1>1, SaverFacts DEF RowsOK, At
  <2>2. PutFindsNoRun(p) \/ PutReadsBranch(p)
    <3>1. ~UNCHANGED saverVars /\ ~Inspect /\ ~Edit
      BY <2>1 DEF saverVars, Inspect, Edit
    <3>2. ~Restart
      BY <2>1 DEF Restart, Resting
    <3>3. \A by : Overtaken(by)[p].pc = "run"
      <4>1. PICK a : a = agents[p] /\ a \in AgentsOf(Len(payloads), BranchIds, CheckpointIds)
        BY <2>1
      <4>2. [a EXCEPT !.fresh = FALSE].pc = a.pc
        BY <4>1 DEF AgentsOf
      <4>3. \A by : Overtaken(by)[p] \in {a, [a EXCEPT !.fresh = FALSE]}
        BY <4>1 DEF Overtaken
      <4> QED
        BY <2>1, <4>1, <4>2, <4>3
    <3>4. ~OperatorRewinds
      BY <2>1, <3>3 DEF OperatorRewinds
    <3>5. ASSUME NEW q \in Agents
          PROVE  /\ ~put_writes(q) /\ ~PutCreatesRun(q) /\ ~PutFails(q) /\ ~Stop(q)
                 /\ ~PutCommits(q)
      <4>1. q # p => ~PutCreatesRun(q) /\ ~PutFails(q) /\ ~Stop(q) /\ ~PutCommits(q)
        BY <2>1 DEF PutCreatesRun, PutFails, Stop, PutCommits
      <4>2. ~PutCreatesRun(p) /\ ~PutFails(p) /\ ~PutCommits(p)
        BY <2>1 DEF PutCreatesRun, PutFails, PutCommits, At
      <4>3. ~Stop(p)
        BY <2>1 DEF Stop, Resting
      <4>4. ~put_writes(q)
        BY <2>1 DEF put_writes
      <4> QED
        BY <4>1, <4>2, <4>3, <4>4
    <3>6. ASSUME NEW q \in Agents  PROVE ~PutForks(q)
      <4>1. CASE q = p
        BY <2>1, <4>1 DEF PutForks, At
      <4>2. CASE q # p
        <5>1. ASSUME PutForks(q)  PROVE agents'[p].pc = "run"
          <6>1. PICK f : f = Overtaken(q)
            OBVIOUS
          <6>2. PICK n : agents' = [f EXCEPT ![q] = n]
            BY <5>1, <6>1 DEF PutForks
          <6>3. p \in DOMAIN f
            BY <6>1 DEF Overtaken
          <6> QED
            BY <6>1, <6>2, <6>3, <4>2, <3>3
        <5> QED
          BY <5>1, <2>1
      <4> QED
        BY <4>1, <4>2
    <3>7. ASSUME NEW q \in Agents
          PROVE  ~ResumeLatest(q) /\ \A id \in LangGraphIds : ~ResumeAt(q, id)
      <4>1. CASE q = p
        BY <2>1, <4>1 DEF ResumeLatest, ResumeAt, At
      <4>2. CASE q # p
        <5>1. \A parent, head, fresh : Begin(q, parent, head, fresh) => agents'[p] = agents[p]
          BY <2>1, <4>2 DEF Begin
        <5> QED
          BY <2>1, <5>1 DEF ResumeLatest, ResumeAt
      <4> QED
        BY <4>1, <4>2
    <3>8. ASSUME NEW q \in Agents, q # p  PROVE ~PutFindsNoRun(q) /\ ~PutReadsBranch(q)
      <4>1. PutFindsNoRun(q) => agents'[p] = agents[p]
        BY <2>1, <3>8 DEF PutFindsNoRun
      <4>2. PutReadsBranch(q) => agents'[p] = agents[p]
        BY <2>1, <3>8 DEF PutReadsBranch
      <4> QED
        BY <2>1, <4>1, <4>2
    <3> QED
      BY <1>1, <3>1, <3>2, <3>4, <3>5, <3>6, <3>7, <3>8 DEF SaverNext
  <2>3. CASE PutFindsNoRun(p)
    <3>1. agents'[p].head = agents[p].head
      BY <2>1, <2>3 DEF PutFindsNoRun
    <3> QED
      BY <3>1
  <2>4. CASE PutReadsBranch(p)
    <3>1. PICK h, id : h = agents[p].head /\ id = agents[p].parent
      OBVIOUS
    <3>2. /\ h \in CheckpointIds /\ id # NULL /\ labels[h] = id
          /\ \A d \in CheckpointIds : labels[d] = id => d = h
      BY <1>1, <2>1, <3>1, SaverFacts DEF AgentsOf, LabelsOK
    <3>3. PICK b \in BranchIds :
             /\ IsActiveBranch(ThreadRun, b)
             /\ \/ agents'[p].head = branches[b].head
                \/ \E c \in ForkPoints(p, ThreadRun, branches[b].head) : agents'[p].head = c
      <4>1. p \in DOMAIN agents
        BY <2>1
      <4>2. PICK b \in BranchIds :
               /\ IsActiveBranch(ThreadRun, b)
               /\ \/ agents' = [agents EXCEPT ![p].pc = "commit", ![p].branch = b,
                                              ![p].head = branches[b].head]
                  \/ \E c \in ForkPoints(p, ThreadRun, branches[b].head) :
                        agents' = [agents EXCEPT ![p].pc = "fork", ![p].branch = b,
                                                 ![p].head = c]
        BY <2>1, <2>4 DEF PutReadsBranch, At
      <4>3. ASSUME NEW pc, NEW c,
                   agents' = [agents EXCEPT ![p].pc = pc, ![p].branch = b, ![p].head = c]
            PROVE  agents'[p].head = c
        <5>1. PICK a : a = agents[p] /\ a \in AgentsOf(Len(payloads), BranchIds, CheckpointIds)
          BY <2>1
        <5>2. PICK x : x = [a EXCEPT !.pc = pc, !.branch = b, !.head = c]
          OBVIOUS
        <5>3. agents' = [agents EXCEPT ![p] = x]
          BY <4>3, <5>1, <5>2
        <5>4. x.head = c
          BY <5>1, <5>2 DEF AgentsOf
        <5> QED
          BY <4>1, <5>3, <5>4
      <4> QED
        BY <4>2, <4>3
    <3>4. CASE agents'[p].head = branches[b].head
      <4>1. AgentOK(agents[p])
        BY <1>1, SaverFacts
      <4>2. LabelledOn(branches[b].head, id)
        BY <1>1, <2>1, <3>1, <3>2, <3>3, <4>1 DEF AgentOK, ReachesParent
      <4>3. branches[b].head \in CheckpointIds
        BY <1>1, SaverFacts, StoreFacts
      <4>4. h \in lineage[branches[b].head]
        BY <1>1, <3>2, <4>2, <4>3, SaverFacts, StoreFacts DEF LabelledOn
      <4>5. lineage[h] \subseteq lineage[branches[b].head]
        BY <1>1, <4>3, <4>4, SaverFacts DEF StoreInv, LineagesNest
      <4> QED
        BY <3>1, <3>4, <4>5
    <3>5. ASSUME NEW c \in ForkPoints(p, ThreadRun, branches[b].head), agents'[p].head = c
          PROVE  agents'[p].head = h
      BY <3>1, <3>2, <3>5 DEF ForkPoints, FindByLgId
    <3> QED
      BY <3>1, <3>3, <3>4, <3>5
  <2> QED
    BY <2>2, <2>3, <2>4
<1>2. SaverInv /\ [SaverNext]_saverVars =>
        [\A p \in Agents :
            At(p, "run") /\ ~At(p, "run")' /\ ~At(p, "rest")'
            /\ agents[p].fresh /\ agents[p].parent # NULL /\ agents[p].head # NULL
            /\ labels[agents[p].head] = agents[p].parent =>
                lineage[agents[p].head] \subseteq lineage[agents'[p].head]]_saverVars
  BY <1>1
<1> QED
  BY <1>2, SaverInvariant, PTL DEF SaverSpec

-----------------------------------------------------------------------------
(* The saver uses the store as its module says.                            *)

LEMMA SaverStoreStep ==
  ASSUME SaverInv, [SaverNext]_saverVars
  PROVE  [Next]_storeVars
<1>1. ASSUME NEW p \in Agents, PutCreatesRun(p)  PROVE [Next]_storeVars
  BY <1>1 DEF PutCreatesRun, Next
<1>2. ASSUME NEW p \in Agents, PutForks(p)  PROVE [Next]_storeVars
  <2>1. PICK a : a = agents[p]
    OBVIOUS
  <2>2. a \in AgentsOf(Len(payloads), BranchIds, CheckpointIds) /\ AgentOK(a) /\ a.pc = "fork"
    BY <1>2, <2>1, SaverFacts DEF PutForks, At
  <2>3. /\ a.branch \in BranchIds /\ a.head \in CheckpointIds /\ rewind(a.branch, a.head)
    BY <1>2, <2>1, <2>2 DEF PutForks, AgentOK, ForksAtParent
  <2> QED
    BY <2>3 DEF Next
<1>3. ASSUME NEW p \in Agents, PutCommits(p)  PROVE [Next]_storeVars
  <2>1. PICK id, kv : id = Len(payloads) + 1 /\ kv = PayloadRows(id)
    OBVIOUS
  <2>2. PICK b \in BranchIds : b = agents[p].branch
    BY <1>3, <2>1, PutPayload
  <2>3. /\ create_checkpoint(b, kv, NoRows(Paths), NULL)
        /\ kv \in [Keys -> Contents \cup {Unwritten}]
    BY <1>3, <2>1, <2>2, PutPayload
  <2> QED
    BY <2>3, NoRowsAreRows, CommitsAreCheckpoints DEF Next
<1>4. CASE Edit
  BY <1>4, FilesOnlyCheckpoint, NoRowsAreRows DEF Edit, Next
<1>5. CASE OperatorRewinds
  BY <1>5 DEF OperatorRewinds, Next
<1>6. ASSUME NEW p \in Agents,
             \/ ResumeLatest(p) \/ (\E id \in LangGraphIds : ResumeAt(p, id)) \/ put_writes(p)
             \/ PutFindsNoRun(p) \/ PutReadsBranch(p) \/ PutFails(p) \/ Stop(p)
      PROVE  UNCHANGED storeVars
  BY <1>6 DEF ResumeLatest, ResumeAt, put_writes, PutFindsNoRun, PutReadsBranch, PutFails, Stop
<1>7. CASE Inspect \/ Restart \/ UNCHANGED saverVars
  BY <1>7 DEF Inspect, Restart, saverVars
<1> QED
  BY <1>1, <1>2, <1>3, <1>4, <1>5, <1>6, <1>7 DEF SaverNext

(* What LangGraph does to the store through the saver, the store allows:   *)
(* the theorems of RewindStoreProofs hold for an agent that is one of      *)
(* LangGraph's, whose tree is not the store's.                             *)
THEOREM SaverRunsTheStore == SaverSpec => Spec
<1>1. SaverInit => Init
  BY DEF SaverInit
<1>2. SaverInv /\ [SaverNext]_saverVars => [Next]_storeVars
  BY SaverStoreStep
<1> QED
  BY <1>1, <1>2, SaverInvariant, PTL DEF SaverSpec, Spec
=============================================================================
