-------------------------- MODULE DashboardProofs --------------------------
(***************************************************************************)
(* Proofs about Dashboard, for any number of polls under way and every     *)
(* store: a tree that is shown can be drawn, and a rewind confirmed for    *)
(* the branch of its dialog discards nothing the dialog showed and did not *)
(* count.                                                                  *)
(*                                                                         *)
(* Both hold although trees and plans are old when they are used: what an  *)
(* old answer says of an effect or a branch is still true in the sense of  *)
(* KnownRows, because rows are only added and effects never staged again.  *)
(***************************************************************************)
EXTENDS Dashboard, RewindStoreProofs

(* The rows of an answer are rows of the store, its effects still have     *)
(* their checkpoints, and one that is staged now was staged then.          *)
KnownRows(t) ==
    /\ t \in Trees
    /\ Len(t.branches) <= Len(branches)
    /\ \A e \in DOMAIN t.effects :
          /\ e \in EffectIds
          /\ t.effects[e].checkpoint = staged_effects[e].checkpoint
          /\ staged_effects[e].status = "staged" => t.effects[e].status = "staged"

HasActiveBranch(t) == \E b \in DOMAIN t.branches : t.branches[b].status = "active"

Closed(t) ==
    \A b \in DOMAIN t.branches :
        /\ t.branches[b].head \in 1 .. t.checkpoints
        /\ t.branches[b].fork \in 0 .. t.checkpoints

(* The order of the queries: branches, checkpoints, effects.               *)
PollOK(poll) ==
    /\ poll.done \in 0 .. 3
    /\ KnownRows(poll.tree)
    /\ poll.done >= 1 => HasActiveBranch(poll.tree)
    /\ poll.done >= 2 => Closed(poll.tree)

TreeOK(t) == KnownRows(t) /\ HasActiveBranch(t) /\ Closed(t)

(* What the dialog shows and does not count will survive the rewind, and   *)
(* what it counts is not on the lineage that the rewind keeps.             *)
PlanOK(p) ==
    /\ p \in Plans
    /\ \A e \in p.counted : staged_effects[e].checkpoint \notin lineage[p.target]
    /\ \A e \in p.shown : e \notin p.counted =>
          \/ staged_effects[e].status # "staged"
          \/ staged_effects[e].checkpoint \in lineage[p.target]

PostOK(p) ==
    \/ p = NoPost
    \/ /\ p \in [pc : {"sent", "done"}, branch : BranchIds, plan : Plans]
       /\ PlanOK(p.plan)

DashInv ==
    /\ StoreInv
    /\ polls \in [Polls -> [done : 0 .. 3, tree : Trees]]
    /\ \A q \in Polls : PollOK(polls[q])
    /\ tree = NoTree \/ TreeOK(tree)
    /\ plan = NoPlan \/ (PlanOK(plan) /\ TreeOK(tree))
    /\ PostOK(post)

-----------------------------------------------------------------------------
(* What an answer says stays true while the store changes.                 *)

TreesOf(r, b, c) ==
    [branches : Seq(BranchRows(r, c)), checkpoints : 0 .. c, effects : Seq(EffectRows(b, c))]

LEMMA TreesAre ==
  ASSUME StoreInv
  PROVE  Trees = TreesOf(runs, Len(branches), Len(checkpoints))
<1>1. Len(checkpoints) \in Nat
  BY StoreFacts DEF StoreInv
<1>2. (1 .. Len(checkpoints)) \cup {NULL} = 0 .. Len(checkpoints)
  BY <1>1 DEF NULL
<1> QED
  BY <1>2 DEF Trees, TreesOf, BranchRows, EffectRows, Effects, CheckpointIds, BranchIds

LEMMA TreesArePrime ==
  ASSUME StoreInv'
  PROVE  Trees' = TreesOf(runs', Len(branches'), Len(checkpoints'))
<1>1. Len(checkpoints') \in Nat
  BY TypeOKPrime DEF StoreInv, TreeInv, Types
<1>2. (1 .. Len(checkpoints')) \cup {NULL} = 0 .. Len(checkpoints')
  BY <1>1 DEF NULL
<1> QED
  BY <1>2 DEF Trees, TreesOf, BranchRows, EffectRows, Effects, CheckpointIds, BranchIds

LEMMA TreeFacts ==
  ASSUME StoreInv, NEW t \in Trees
  PROVE  /\ t.branches \in Seq(BranchRows(runs, Len(checkpoints))) /\ Len(t.branches) \in Nat
         /\ DOMAIN t.branches = 1 .. Len(t.branches)
         /\ t.effects \in Seq(EffectRows(Len(branches), Len(checkpoints)))
         /\ t.checkpoints \in 0 .. Len(checkpoints) /\ Len(checkpoints) \in Nat
         /\ \A b \in DOMAIN t.branches : t.branches[b] \in BranchRows(runs, Len(checkpoints))
<1>1. /\ t.branches \in Seq(BranchRows(runs, Len(checkpoints)))
      /\ t.effects \in Seq(EffectRows(Len(branches), Len(checkpoints)))
      /\ t.checkpoints \in 0 .. Len(checkpoints)
  <2>1. PICK A, B, C : /\ A = Seq(BranchRows(runs, Len(checkpoints)))
                       /\ B = 0 .. Len(checkpoints)
                       /\ C = Seq(EffectRows(Len(branches), Len(checkpoints)))
    OBVIOUS
  <2>2. t \in [branches : A, checkpoints : B, effects : C]
    BY <2>1, TreesAre DEF TreesOf
  <2>3. t.branches \in A /\ t.checkpoints \in B /\ t.effects \in C
    BY <2>2
  <2> QED
    BY <2>1, <2>3
<1> QED
  BY <1>1, ElementOfSeq, StoreFacts DEF StoreInv

LEMMA TreesGrow ==
  ASSUME StoreInv, [Next]_storeVars
  PROVE  Trees \subseteq Trees' /\ Plans \subseteq Plans'
<1>1. StoreInv' /\ StoreGrows
  BY StoreStep, StoreStepGrows DEF StoreInv
<1>2. /\ BranchRows(runs, Len(checkpoints)) \subseteq BranchRows(runs', Len(checkpoints'))
      /\ EffectRows(Len(branches), Len(checkpoints)) \subseteq EffectRows(Len(branches'), Len(checkpoints'))
      /\ 0 .. Len(checkpoints) \subseteq 0 .. Len(checkpoints')
  BY SizesGrow, BranchRowsGrow, EffectRowsGrow
<1>3. /\ Seq(BranchRows(runs, Len(checkpoints))) \subseteq Seq(BranchRows(runs', Len(checkpoints')))
      /\ Seq(EffectRows(Len(branches), Len(checkpoints)))
             \subseteq Seq(EffectRows(Len(branches'), Len(checkpoints')))
  BY <1>2
<1>4. Trees \subseteq Trees'
  <2>1. ASSUME NEW A1, NEW A2, NEW B1, NEW B2, NEW C1, NEW C2,
               A1 \subseteq A2, B1 \subseteq B2, C1 \subseteq C2
        PROVE  [branches : A1, checkpoints : B1, effects : C1]
                   \subseteq [branches : A2, checkpoints : B2, effects : C2]
    BY <2>1
  <2>2. TreesOf(runs, Len(branches), Len(checkpoints))
            \subseteq TreesOf(runs', Len(branches'), Len(checkpoints'))
    BY <1>2, <1>3, <2>1 DEF TreesOf
  <2> QED
    BY <1>1, <2>2, TreesAre, TreesArePrime
<1>5. Plans \subseteq Plans'
  BY <1>1 DEF StoreGrows, Plans
<1> QED
  BY <1>4, <1>5

LEMMA KnownRowsStay ==
  ASSUME StoreInv, [Next]_storeVars, NEW t, KnownRows(t)
  PROVE  KnownRows(t)'
<1>1. StoreGrows
  BY StoreStepGrows DEF StoreInv
<1>2. t \in Trees' /\ Len(t.branches) <= Len(branches')
  BY TreesGrow, SizesGrow, TreeFacts DEF KnownRows
<1>3. \A e \in DOMAIN t.effects :
          /\ e \in EffectIds'
          /\ t.effects[e].checkpoint = staged_effects'[e].checkpoint
          /\ staged_effects'[e].status = "staged" => t.effects[e].status = "staged"
  BY <1>1 DEF KnownRows, StoreGrows
<1> QED
  BY <1>2, <1>3 DEF KnownRows

LEMMA TreeStaysOK ==
  ASSUME StoreInv, [Next]_storeVars, NEW t, TreeOK(t)
  PROVE  TreeOK(t)'
  BY KnownRowsStay DEF TreeOK, HasActiveBranch, Closed

LEMMA PollStaysOK ==
  ASSUME StoreInv, [Next]_storeVars, NEW poll, PollOK(poll)
  PROVE  PollOK(poll)'
  BY KnownRowsStay DEF PollOK, HasActiveBranch, Closed

LEMMA PlanStaysOK ==
  ASSUME StoreInv, [Next]_storeVars, NEW p, PlanOK(p)
  PROVE  PlanOK(p)'
<1>1. StoreGrows
  BY StoreStepGrows DEF StoreInv
<1>2. /\ p \in Plans' /\ p.target \in CheckpointIds
      /\ p.shown \subseteq EffectIds /\ p.counted \subseteq EffectIds
  BY TreesGrow DEF PlanOK, Plans
<1>3. lineage'[p.target] = lineage[p.target]
  BY <1>1, <1>2 DEF StoreGrows, OldCheckpointsStay
<1> QED
  BY <1>1, <1>2, <1>3 DEF PlanOK, StoreGrows

LEMMA PostStaysOK ==
  ASSUME StoreInv, [Next]_storeVars, NEW p, PostOK(p)
  PROVE  PostOK(p)'
<1>1. BranchIds \subseteq BranchIds'
  BY StoreStepGrows DEF StoreInv, StoreGrows
<1> QED
  BY <1>1, TreesGrow, PlanStaysOK DEF PostOK, NoPost, NULL

(* A step of the store under a browser that does nothing.                  *)
LEMMA StoreKeepsBrowser ==
  ASSUME DashInv, [Next]_storeVars, UNCHANGED browserVars
  PROVE  DashInv'
<1>1. /\ StoreInv /\ StoreInv' /\ polls' = polls /\ tree' = tree /\ plan' = plan /\ post' = post
  BY StoreStep DEF DashInv, browserVars
<1>2. polls' \in [Polls -> [done : 0 .. 3, tree : Trees']]
  BY <1>1, TreesGrow DEF DashInv
<1>3. ASSUME NEW q \in Polls  PROVE PollOK(polls[q])'
  <2>1. PICK poll : poll = polls[q]
    OBVIOUS
  <2>2. PollOK(poll)'
    BY <2>1, <1>1, PollStaysOK DEF DashInv
  <2> QED
    BY <2>1, <2>2, <1>1 DEF PollOK, KnownRows, HasActiveBranch, Closed
<1>4. PICK t, pl, po : t = tree /\ pl = plan /\ po = post
  OBVIOUS
<1>5. /\ t = NoTree \/ TreeOK(t)'
      /\ pl = NoPlan \/ (PlanOK(pl)' /\ TreeOK(t)')
      /\ PostOK(po)'
  BY <1>1, <1>4, TreeStaysOK, PlanStaysOK, PostStaysOK DEF DashInv
<1>6. /\ tree' = NoTree \/ TreeOK(tree)'
      /\ plan' = NoPlan \/ (PlanOK(plan)' /\ TreeOK(tree)')
      /\ PostOK(post)'
  BY <1>1, <1>4, <1>5 DEF TreeOK, PlanOK, PostOK, KnownRows, HasActiveBranch, Closed
<1> QED
  BY <1>1, <1>2, <1>3, <1>6 DEF DashInv

-----------------------------------------------------------------------------
(* The steps of the browser.                                               *)

LEMMA BrowserStep ==
  ASSUME DashInv, UNCHANGED storeVars,
         polls' \in [Polls -> [done : 0 .. 3, tree : Trees]],
         \A q \in Polls : PollOK(polls'[q]),
         tree' = NoTree \/ TreeOK(tree'),
         plan' = NoPlan \/ (PlanOK(plan') /\ TreeOK(tree')),
         PostOK(post')
  PROVE  DashInv'
<1>1. StoreInv /\ StoreInv' /\ [Next]_storeVars
  BY StoreStep DEF DashInv
<1>2. polls' \in [Polls -> [done : 0 .. 3, tree : Trees']]
  BY <1>1, TreesGrow
<1>3. ASSUME NEW q \in Polls  PROVE PollOK(polls[q])'
  <2>1. PICK poll : poll = polls'[q]
    OBVIOUS
  <2>2. PollOK(poll)'
    BY <2>1, <1>1, PollStaysOK
  <2> QED
    BY <2>1, <2>2 DEF PollOK, KnownRows, HasActiveBranch, Closed
<1>4. PICK t, pl, po : t = tree' /\ pl = plan' /\ po = post'
  OBVIOUS
<1>5. /\ t = NoTree \/ TreeOK(t)'
      /\ pl = NoPlan \/ (PlanOK(pl)' /\ TreeOK(t)')
      /\ PostOK(po)'
  BY <1>1, <1>4, TreeStaysOK, PlanStaysOK, PostStaysOK
<1>6. /\ tree' = NoTree \/ TreeOK(tree)'
      /\ plan' = NoPlan \/ (PlanOK(plan)' /\ TreeOK(tree)')
      /\ PostOK(post)'
  BY <1>4, <1>5 DEF TreeOK, PlanOK, PostOK, KnownRows, HasActiveBranch, Closed
<1> QED
  BY <1>1, <1>2, <1>3, <1>6 DEF DashInv

(* One poll changes, and the rest of the browser does not.                 *)
LEMMA PollStep ==
  ASSUME DashInv, UNCHANGED <<storeVars, plan, post>>, NEW q \in Polls, NEW poll,
         polls' = [polls EXCEPT ![q] = poll],
         poll \in [done : 0 .. 3, tree : Trees], PollOK(poll),
         tree' = tree \/ TreeOK(tree')
  PROVE  DashInv'
<1>1. /\ polls' \in [Polls -> [done : 0 .. 3, tree : Trees]]
      /\ \A r \in Polls : polls'[r] = IF r = q THEN poll ELSE polls[r]
  BY DEF DashInv
<1>2. \A r \in Polls : PollOK(polls'[r])
  BY <1>1 DEF DashInv
<1>3. /\ tree' = NoTree \/ TreeOK(tree')
      /\ plan' = NoPlan \/ (PlanOK(plan') /\ TreeOK(tree'))
      /\ PostOK(post')
  BY DEF DashInv
<1> QED
  BY <1>1, <1>2, <1>3, BrowserStep

LEMMA BlankIsOK ==
  ASSUME StoreInv
  PROVE  /\ [done |-> 0, tree |-> Blank] \in [done : 0 .. 3, tree : Trees]
         /\ PollOK([done |-> 0, tree |-> Blank])
<1>1. /\ \A S : <<>> \in Seq(S)
      /\ Blank.branches = <<>> /\ Blank.effects = <<>> /\ Blank.checkpoints = 0
      /\ Len(<<>>) = 0 /\ DOMAIN <<>> = {}
  BY EmptySeq DEF Blank
<1>2. Len(checkpoints) \in Nat /\ Len(branches) \in Nat
  BY StoreFacts DEF StoreInv
<1>3. Blank \in Trees
  BY <1>1, <1>2 DEF Trees, Blank
<1>4. KnownRows(Blank)
  BY <1>1, <1>2, <1>3 DEF KnownRows
<1> QED
  BY <1>3, <1>4 DEF PollOK

LEMMA PollFailsKeeps ==
  ASSUME DashInv, NEW q \in Polls, PollFails(q)
  PROVE  DashInv'
<1>1. PICK poll : poll = [done |-> 0, tree |-> Blank]
  OBVIOUS
<1>2. /\ polls' = [polls EXCEPT ![q] = poll] /\ UNCHANGED <<storeVars, plan, post>>
      /\ tree' = tree
  BY <1>1 DEF PollFails
<1>3. poll \in [done : 0 .. 3, tree : Trees] /\ PollOK(poll)
  BY <1>1, BlankIsOK DEF DashInv
<1> QED
  BY <1>2, <1>3, PollStep

LEMMA ShowTreeKeeps ==
  ASSUME DashInv, NEW q \in Polls, ShowTree(q)
  PROVE  DashInv'
<1>1. PICK poll : poll = [done |-> 0, tree |-> Blank]
  OBVIOUS
<1>2. /\ polls' = [polls EXCEPT ![q] = poll] /\ UNCHANGED <<storeVars, plan, post>>
      /\ tree' = polls[q].tree /\ polls[q].done = Len(Queries)
  BY <1>1 DEF ShowTree, Answered
<1>3. poll \in [done : 0 .. 3, tree : Trees] /\ PollOK(poll)
  BY <1>1, BlankIsOK DEF DashInv
<1>4. TreeOK(tree')
  <2>1. Len(Queries) = 3
    BY DEF Queries
  <2> QED
    BY <2>1, <1>2 DEF DashInv, PollOK, TreeOK
<1> QED
  BY <1>2, <1>3, <1>4, PollStep

(* One more table of an answer: branches, then checkpoints, then effects.  *)
LEMMA NextQuery ==
  ASSUME StoreInv, runs > 0, NEW poll \in [done : 0 .. 3, tree : Trees], PollOK(poll),
         poll.done # 3, NEW new, NEW t,
         \/ /\ poll.done = 0
            /\ t = [poll.tree EXCEPT !.branches = branches]
         \/ /\ poll.done = 1
            /\ t = [poll.tree EXCEPT !.checkpoints = Len(checkpoints)]
         \/ /\ poll.done = 2
            /\ t = [poll.tree EXCEPT !.effects = staged_effects],
         new = [done |-> poll.done + 1, tree |-> t]
  PROVE  new \in [done : 0 .. 3, tree : Trees] /\ PollOK(new)
<1>1. PICK old : old = poll.tree
  OBVIOUS
<1>2. KnownRows(old) /\ old \in Trees /\ poll.done \in {0, 1, 2}
  BY <1>1 DEF PollOK, KnownRows
<1>3. /\ old.branches \in Seq(BranchRows(runs, Len(checkpoints)))
      /\ old.effects \in Seq(EffectRows(Len(branches), Len(checkpoints)))
      /\ old.checkpoints \in 0 .. Len(checkpoints) /\ Len(checkpoints) \in Nat
      /\ DOMAIN old.branches = 1 .. Len(old.branches)
      /\ \A b \in DOMAIN old.branches : old.branches[b] \in BranchRows(runs, Len(checkpoints))
  BY <1>2, TreeFacts
<1>4. /\ branches \in Seq(BranchRows(runs, Len(checkpoints)))
      /\ staged_effects \in Seq(EffectRows(Len(branches), Len(checkpoints)))
  BY TypeOKIsTypes DEF StoreInv, TreeInv, Types
<1>5. PICK A, B, C : /\ A = Seq(BranchRows(runs, Len(checkpoints)))
                     /\ B = 0 .. Len(checkpoints)
                     /\ C = Seq(EffectRows(Len(branches), Len(checkpoints)))
  OBVIOUS
<1>6. /\ branches \in A /\ old.branches \in A /\ staged_effects \in C /\ old.effects \in C
      /\ Len(checkpoints) \in B /\ old.checkpoints \in B
  BY <1>3, <1>4, <1>5
<1>7. Trees = [branches : A, checkpoints : B, effects : C]
  BY <1>5, TreesAre DEF TreesOf
<1>8. /\ t \in Trees
      /\ t.branches = IF poll.done = 0 THEN branches ELSE old.branches
      /\ t.checkpoints = IF poll.done = 1 THEN Len(checkpoints) ELSE old.checkpoints
      /\ t.effects = IF poll.done = 2 THEN staged_effects ELSE old.effects
  BY <1>1, <1>2, <1>6, <1>7
<1>9. Len(branches) \in Nat /\ DOMAIN staged_effects = EffectIds /\ DOMAIN branches = BranchIds
  BY <1>4, StoreFacts DEF StoreInv, EffectIds, BranchIds
<1>10. KnownRows(t)
  BY <1>2, <1>8, <1>9 DEF KnownRows
<1>11. HasActiveBranch(t)
  <2>1. CASE poll.done = 0
    <3>1. 1 \in 1 .. runs
      BY StoreFacts DEF StoreInv
    <3>2. \E b \in BranchIds : branches[b].status = "active"
      BY <3>1 DEF StoreInv, TreeInv, RunHasActiveBranch, Active
    <3> QED
      BY <2>1, <3>2, <1>8, <1>9 DEF HasActiveBranch
  <2>2. CASE poll.done # 0
    BY <2>2, <1>1, <1>2, <1>8 DEF HasActiveBranch, PollOK
  <2> QED
    BY <2>1, <2>2
<1>12. poll.done >= 1 => Closed(t)
  <2>1. CASE poll.done = 1
    BY <2>1, <1>3, <1>8 DEF Closed, BranchRows
  <2>2. CASE poll.done = 2
    BY <2>2, <1>1, <1>8 DEF Closed, PollOK
  <2> QED
    BY <2>1, <2>2, <1>2
<1>13. new.done = poll.done + 1 /\ new.tree = t
  OBVIOUS
<1> QED
  BY <1>2, <1>8, <1>10, <1>11, <1>12, <1>13 DEF PollOK

LEMMA GetTreeKeeps ==
  ASSUME DashInv, NEW q \in Polls, get_tree(q)
  PROVE  DashInv'
<1>1. PICK poll : poll = polls[q]
  OBVIOUS
<1>2. poll \in [done : 0 .. 3, tree : Trees] /\ PollOK(poll) /\ StoreInv
  BY <1>1 DEF DashInv
<1>3. PICK what : what = Queries[poll.done + 1]
  OBVIOUS
<1>4. PICK t, new : /\ t = [poll.tree EXCEPT ![what] = Table[what]]
                    /\ new = [done |-> poll.done + 1, tree |-> t]
  OBVIOUS
<1>5. /\ runs > 0 /\ poll.done # 3 /\ UNCHANGED <<storeVars, plan, post>> /\ tree' = tree
      /\ polls' = [polls EXCEPT ![q].done = @ + 1, ![q].tree[what] = Table[what]]
  BY <1>1, <1>3 DEF get_tree, Answered, Queries
<1>6. polls' = [polls EXCEPT ![q] = new]
  <2>1. PICK one : one = [poll EXCEPT !.done = poll.done + 1]
    OBVIOUS
  <2>2. one.tree = poll.tree /\ [one EXCEPT !.tree = t] = new
    <3>1. one \in [done : Int, tree : Trees] /\ one.done = poll.done + 1 /\ one.tree = poll.tree
      BY <2>1, <1>2
    <3>2. PICK r : r = [one EXCEPT !.tree = t]
      OBVIOUS
    <3>3. r \in [done : Int, tree : {t}] /\ r.done = poll.done + 1 /\ r.tree = t
      BY <3>1, <3>2
    <3>4. r = [done |-> poll.done + 1, tree |-> t]
      BY <3>3
    <3> QED
      BY <3>1, <3>2, <3>4, <1>4
  <2>3. [polls EXCEPT ![q].done = @ + 1] = [polls EXCEPT ![q] = one]
    BY <2>1, <1>1
  <2>4. [polls EXCEPT ![q] = one][q] = one
    BY DEF DashInv
  <2>5. polls' = [[polls EXCEPT ![q] = one] EXCEPT ![q].tree[what] = Table[what]]
    BY <1>5, <2>3
  <2>6. polls' = [[polls EXCEPT ![q] = one] EXCEPT ![q] = [one EXCEPT !.tree = t]]
    BY <2>2, <2>4, <2>5, <1>4
  <2> QED
    BY <2>2, <2>6
<1>7. \/ /\ poll.done = 0
         /\ t = [poll.tree EXCEPT !.branches = branches]
      \/ /\ poll.done = 1
         /\ t = [poll.tree EXCEPT !.checkpoints = Len(checkpoints)]
      \/ /\ poll.done = 2
         /\ t = [poll.tree EXCEPT !.effects = staged_effects]
  <2>1. poll.done \in {0, 1, 2}
    BY <1>2, <1>5
  <2> QED
    BY <2>1, <1>3, <1>4 DEF Queries, Table
<1>8. new \in [done : 0 .. 3, tree : Trees] /\ PollOK(new)
  BY <1>2, <1>4, <1>5, <1>7, NextQuery
<1> QED
  BY <1>5, <1>6, <1>8, PollStep

(* A tree that is shown has a first active branch, and the store has it.   *)
LEMMA ActiveBranchExists ==
  ASSUME StoreInv, NEW t, TreeOK(t)
  PROVE  activeBranch(t) \in DOMAIN t.branches /\ activeBranch(t) \in BranchIds
<1>1. t \in Trees /\ Len(t.branches) <= Len(branches) /\ HasActiveBranch(t)
  BY DEF TreeOK, KnownRows
<1>2. DOMAIN t.branches = 1 .. Len(t.branches) /\ Len(t.branches) \in Nat
  BY <1>1, TreeFacts
<1>3. PICK S : S = {b \in DOMAIN t.branches : t.branches[b].status = "active"}
  OBVIOUS
<1>4. S \in SUBSET Nat /\ S # {}
  BY <1>1, <1>2, <1>3 DEF HasActiveBranch
<1>5. PICK b \in S : \A a \in S : b <= a
  BY <1>4, LeastExists
<1>6. /\ b \in DOMAIN t.branches /\ t.branches[b].status = "active"
      /\ \A a \in 1 .. b - 1 : t.branches[a].status # "active"
  BY <1>2, <1>3, <1>5
<1>7. activeBranch(t) \in DOMAIN t.branches
  BY <1>6 DEF activeBranch
<1> QED
  BY <1>1, <1>2, <1>7, StoreFacts DEF StoreInv, BranchIds

(* A step that leaves the polls and the tree alone.                        *)
LEMMA DialogStep ==
  ASSUME DashInv, UNCHANGED <<storeVars, polls, tree>>,
         plan' = NoPlan \/ (PlanOK(plan') /\ TreeOK(tree)), PostOK(post')
  PROVE  DashInv'
<1>1. /\ polls' \in [Polls -> [done : 0 .. 3, tree : Trees]]
      /\ \A q \in Polls : PollOK(polls'[q])
      /\ tree' = NoTree \/ TreeOK(tree')
  BY DEF DashInv
<1> QED
  BY <1>1, BrowserStep

LEMMA OpenRewindKeeps ==
  ASSUME DashInv, NEW c \in CheckpointIds, openRewind(c)
  PROVE  DashInv'
<1>1. /\ UNCHANGED <<storeVars, polls, tree, post>> /\ tree # NoTree /\ c \in 1 .. tree.checkpoints
  BY DEF openRewind
<1>2. TreeOK(tree) /\ PostOK(post') /\ StoreInv
  BY <1>1 DEF DashInv
<1>3. PICK b, shown, counted :
         /\ b = activeBranch(tree)
         /\ shown = {e \in DOMAIN tree.effects :
                        tree.effects[e].checkpoint \in LineageIn(tree, tree.branches[b].head)}
         /\ counted = {e \in shown :
                           /\ tree.effects[e].status = "staged"
                           /\ tree.effects[e].checkpoint \notin LineageIn(tree, c)}
         /\ plan' = [target |-> c, branch |-> b, shown |-> shown, counted |-> counted]
  BY DEF openRewind
<1>4. b \in BranchIds
  BY <1>2, <1>3, ActiveBranchExists
<1>5. shown \subseteq EffectIds /\ counted \subseteq shown
  BY <1>2, <1>3 DEF TreeOK, KnownRows
<1>6. \A e \in shown : e \notin counted =>
          \/ staged_effects[e].status # "staged"
          \/ staged_effects[e].checkpoint \in lineage[c]
  <2> SUFFICES ASSUME NEW e \in shown, e \notin counted, staged_effects[e].status = "staged"
               PROVE  staged_effects[e].checkpoint \in lineage[c]
    OBVIOUS
  <2>1. /\ tree.effects[e].status = "staged"
        /\ tree.effects[e].checkpoint = staged_effects[e].checkpoint
    BY <1>2, <1>3 DEF TreeOK, KnownRows
  <2>2. tree.effects[e].checkpoint \in LineageIn(tree, c)
    BY <2>1, <1>3
  <2> QED
    BY <2>1, <2>2, <1>1 DEF LineageIn
<1>7. \A e \in counted : staged_effects[e].checkpoint \notin lineage[c]
  <2>1. LineageIn(tree, c) = lineage[c]
    BY <1>1 DEF LineageIn
  <2> QED
    BY <2>1, <1>2, <1>3 DEF TreeOK, KnownRows
<1>8. PlanOK(plan')
  BY <1>3, <1>4, <1>5, <1>6, <1>7 DEF PlanOK, Plans
<1> QED
  BY <1>1, <1>2, <1>8, DialogStep

LEMMA CancelKeeps ==
  ASSUME DashInv, Cancel
  PROVE  DashInv'
  BY DialogStep DEF Cancel, DashInv

LEMMA ConfirmKeeps ==
  ASSUME DashInv, confirmRewind
  PROVE  DashInv'
<1>1. /\ UNCHANGED <<storeVars, polls, tree>> /\ plan' = plan /\ plan # NoPlan
      /\ post' = [pc |-> "sent", branch |-> activeBranch(tree), plan |-> plan]
  BY DEF confirmRewind
<1>2. PlanOK(plan) /\ TreeOK(tree) /\ StoreInv
  BY <1>1 DEF DashInv
<1>3. activeBranch(tree) \in BranchIds /\ plan \in Plans
  BY <1>2, ActiveBranchExists DEF PlanOK
<1>4. PostOK(post')
  BY <1>1, <1>2, <1>3 DEF PostOK
<1> QED
  BY <1>1, <1>2, <1>4, DialogStep

LEMMA NoPostIsOK == PostOK(NoPost)
  BY DEF PostOK

LEMMA ShowResultKeeps ==
  ASSUME DashInv, ShowResult
  PROVE  DashInv'
  BY NoPostIsOK, DialogStep DEF ShowResult

LEMMA PostFailsKeeps ==
  ASSUME DashInv, PostFails
  PROVE  DashInv'
  BY NoPostIsOK, DialogStep DEF PostFails, DashInv

(* A POST under way is about a branch and a plan the store knows.          *)
LEMMA SentIsOK ==
  ASSUME DashInv, post.pc = "sent"
  PROVE  /\ post.branch \in BranchIds /\ PlanOK(post.plan) /\ post.plan \in Plans
         /\ post.plan.target \in CheckpointIds
         /\ post.plan.shown \subseteq EffectIds /\ post.plan.counted \subseteq EffectIds
         /\ post \in [pc : {"sent", "done"}, branch : BranchIds, plan : Plans]
<1>1. post # NoPost
  BY DEF NoPost
<1>2. post \in [pc : {"sent", "done"}, branch : BranchIds, plan : Plans] /\ PlanOK(post.plan)
  BY <1>1 DEF DashInv, PostOK
<1> QED
  BY <1>2 DEF Plans

LEMMA ServerRewindsKeeps ==
  ASSUME DashInv, ServerRewinds
  PROVE  DashInv'
<1>1. PICK b, target : b = post.branch /\ target = post.plan.target
  OBVIOUS
<1>2. /\ b \in BranchIds /\ target \in CheckpointIds /\ rewind(b, target) /\ PlanOK(post.plan)
      /\ post.pc = "sent" /\ post' = [post EXCEPT !.pc = "done"]
      /\ polls' = polls /\ tree' = tree /\ plan' = plan
  BY <1>1, SentIsOK DEF ServerRewinds
<1>3. [Next]_storeVars /\ StoreInv
  BY <1>2 DEF Next, DashInv
<1>4. PostOK(post')
  <2>1. /\ post' \in [pc : {"sent", "done"}, branch : BranchIds, plan : Plans]
        /\ post'.plan = post.plan
    BY <1>2, SentIsOK
  <2> QED
    BY <2>1, <1>2 DEF PostOK
<1>5. StoreInv' /\ polls' \in [Polls -> [done : 0 .. 3, tree : Trees']]
  BY <1>2, <1>3, StoreStep, TreesGrow DEF DashInv
<1>6. ASSUME NEW q \in Polls  PROVE PollOK(polls[q])'
  <2>1. PICK poll : poll = polls[q]
    OBVIOUS
  <2>2. PollOK(poll)'
    BY <2>1, <1>3, PollStaysOK DEF DashInv
  <2> QED
    BY <2>1, <2>2, <1>2 DEF PollOK, KnownRows, HasActiveBranch, Closed
<1>7. PICK t, pl, po : t = tree /\ pl = plan /\ po = post'
  OBVIOUS
<1>8. /\ t = NoTree \/ TreeOK(t)'
      /\ pl = NoPlan \/ (PlanOK(pl)' /\ TreeOK(t)')
      /\ PostOK(po)'
  BY <1>3, <1>4, <1>7, TreeStaysOK, PlanStaysOK, PostStaysOK DEF DashInv
<1>9. /\ tree' = NoTree \/ TreeOK(tree)'
      /\ plan' = NoPlan \/ (PlanOK(plan)' /\ TreeOK(tree)')
      /\ PostOK(post)'
  BY <1>2, <1>7, <1>8 DEF TreeOK, PlanOK, PostOK, KnownRows, HasActiveBranch, Closed
<1> QED
  BY <1>5, <1>6, <1>9 DEF DashInv

LEMMA OthersOnlyUseTheStore ==
  ASSUME OthersAct
  PROVE  Next
<1>1. ASSUME NEW b \in BranchIds, create_checkpoint(b, NoRows(Keys), NoRows(Paths), NULL)
      PROVE  Next
  BY <1>1, FilesOnlyCheckpoint, NoRowsAreRows DEF Next
<1>2. ASSUME NEW b \in BranchIds, NEW c \in CheckpointIds,
             record_effect(b, c, "staged", NoKey, "staged")
      PROVE  Next
  BY <1>2 DEF Next, Record
<1> QED
  BY <1>1, <1>2 DEF OthersAct, Next

LEMMA OthersActKeeps ==
  ASSUME DashInv, OthersAct
  PROVE  DashInv'
  BY OthersOnlyUseTheStore, StoreKeepsBrowser DEF OthersAct

LEMMA DashInitial == DashboardInit => DashInv
<1> SUFFICES ASSUME DashboardInit  PROVE DashInv
  OBVIOUS
<1>1. StoreInv
  BY StoreInit DEF DashboardInit
<1>2. /\ polls = [q \in Polls |-> [done |-> 0, tree |-> Blank]]
      /\ tree = NoTree /\ plan = NoPlan /\ post = NoPost
  BY DEF DashboardInit
<1> QED
  BY <1>1, <1>2, BlankIsOK, NoPostIsOK DEF DashInv

LEMMA DashStep == DashInv /\ [DashboardNext]_dashboardVars => DashInv'
<1>1. DashInv /\ UNCHANGED dashboardVars => DashInv'
  BY StoreKeepsBrowser DEF dashboardVars
<1> QED
  BY <1>1, GetTreeKeeps, ShowTreeKeeps, PollFailsKeeps, OpenRewindKeeps, CancelKeeps,
     ConfirmKeeps, ServerRewindsKeeps, ShowResultKeeps, PostFailsKeeps, OthersActKeeps
     DEF DashboardNext

LEMMA DashInvariant == DashboardSpec => []DashInv
  BY DashInitial, DashStep, PTL DEF DashboardSpec

-----------------------------------------------------------------------------
(* The polls, the tree on the screen, the dialog and the POST have their   *)
(* types: whatever the browser sends to the server exists there.           *)
THEOREM DashboardTypeCorrectness == DashboardSpec => []DashboardTypeOK
<1>1. DashInv => DashboardTypeOK
  <2> SUFFICES ASSUME DashInv  PROVE DashboardTypeOK
    OBVIOUS
  <2>1. TypeOK /\ (tree = NoTree \/ tree \in Trees) /\ (plan = NoPlan \/ plan \in Plans)
    BY DEF DashInv, StoreInv, TreeInv, TreeOK, KnownRows, PlanOK
  <2>2. post \in [pc : {"none", "sent", "done"}, branch : BranchIds \cup {NULL},
                  plan : Plans \cup {NoPlan}]
    BY DEF DashInv, PostOK, NoPost
  <2> QED
    BY <2>1, <2>2 DEF DashboardTypeOK, DashInv
<1> QED
  BY <1>1, DashInvariant, PTL

(* Every head and fork point of a tree that is shown is among its          *)
(* checkpoints, though the tables were read at different times.            *)
THEOREM ViewsAreClosed == DashboardSpec => []ViewIsClosed
<1>1. DashInv => ViewIsClosed
  BY DEF DashInv, TreeOK, Closed, ViewIsClosed
<1> QED
  BY <1>1, DashInvariant, PTL

(* Only the server's rewind makes a POST that was sent a done one.         *)
LEMMA DoneIsRewound ==
  ASSUME DashInv, [DashboardNext]_dashboardVars, post.pc = "sent", post'.pc = "done"
  PROVE  ServerRewinds
<1>1. post' # post /\ post' # NoPost
  BY DEF NoPost
<1>2. \A q \in Polls : ~(get_tree(q) \/ ShowTree(q) \/ PollFails(q))
  BY <1>1 DEF get_tree, ShowTree, PollFails
<1>3. ~confirmRewind
  BY DEF confirmRewind
<1>4. ~ShowResult /\ ~PostFails /\ ~Cancel /\ \A c : ~openRewind(c)
  BY <1>1 DEF ShowResult, PostFails, Cancel, openRewind
<1>5. ~OthersAct /\ ~UNCHANGED dashboardVars
  BY <1>1 DEF OthersAct, dashboardVars, browserVars
<1> QED
  BY <1>2, <1>3, <1>4, <1>5 DEF DashboardNext

LEMMA RewindIsExpected ==
  ASSUME DashInv, [DashboardNext]_dashboardVars, post.pc = "sent", post'.pc = "done",
         post.branch = post.plan.branch, NEW e \in post.plan.shown,
         staged_effects[e].status # staged_effects'[e].status
  PROVE  e \in post.plan.counted
<1>1. PICK b \in BranchIds, target \in CheckpointIds :
         b = post.branch /\ target = post.plan.target
  BY SentIsOK
<1>2. rewind(b, target) /\ TreeInv /\ PlanOK(post.plan) /\ e \in EffectIds
  BY <1>1, DoneIsRewound, SentIsOK DEF ServerRewinds, DashInv, StoreInv
<1>3. e \in Discarded(b, target)
  BY <1>2, RewindIsRewindStep DEF RewindStep
<1> QED
  BY <1>1, <1>2, <1>3 DEF Discarded, PlanOK

(* A rewind confirmed for the branch of its dialog discards no effect that *)
(* the dialog showed and did not count.                                    *)
THEOREM RewindsAreExpected == DashboardSpec => DiscardsAreExpected
<1>1. DashInv /\ [DashboardNext]_dashboardVars =>
        [post.pc = "sent" /\ post'.pc = "done" /\ post.branch = post.plan.branch =>
            \A e \in post.plan.shown :
                staged_effects[e].status # staged_effects'[e].status =>
                    e \in post.plan.counted]_dashboardVars
  BY RewindIsExpected
<1> QED
  BY <1>1, DashInvariant, PTL DEF DashboardSpec, DiscardsAreExpected

(* RewindModal.jsx:37 promises that what the dialog counts is discarded.   *)
(* What breaks the promise is an effect that another branch staged, on the *)
(* shared prefix: of the effects of the rewound branch none that was       *)
(* counted is staged afterwards, however old the dialog's numbers were.    *)
THEOREM OwnEffectsAreDiscarded ==
  DashboardSpec =>
    [][post.pc = "sent" /\ post'.pc = "done" =>
          \A e \in post.plan.counted :
              staged_effects[e].branch = post.branch =>
                  staged_effects'[e].status # "staged"]_dashboardVars
<1>1. ASSUME DashInv, [DashboardNext]_dashboardVars, post.pc = "sent", post'.pc = "done",
             NEW e \in post.plan.counted, staged_effects[e].branch = post.branch
      PROVE  staged_effects'[e].status # "staged"
  <2>1. PICK b \in BranchIds, target \in CheckpointIds :
           b = post.branch /\ target = post.plan.target
    BY <1>1, SentIsOK
  <2>2. rewind(b, target) /\ StoreInv /\ TreeInv /\ PlanOK(post.plan) /\ e \in EffectIds
    BY <1>1, <2>1, DoneIsRewound, SentIsOK DEF ServerRewinds, DashInv, StoreInv
  <2>3. CASE staged_effects[e].status # "staged"
    BY <2>2, <2>3, StoreStepGrows DEF Next, StoreGrows
  <2>4. CASE staged_effects[e].status = "staged"
    <3>1. e \in Discarded(b, target)
      BY <1>1, <2>1, <2>2, <2>4 DEF Discarded, PlanOK, RunOfEffect
    <3>2. staged_effects'[e] = [staged_effects[e] EXCEPT !.status = "discarded"]
      BY <2>2, <3>1, RewindIsRewindStep DEF RewindStep
    <3>3. staged_effects[e] \in EffectRows(Len(branches), Len(checkpoints))
      BY <2>2, TypeOKIsTypes DEF TreeInv, Types, EffectIds
    <3> QED
      BY <3>2, <3>3 DEF EffectRows
  <2> QED
    BY <2>3, <2>4
<1>2. DashInv /\ [DashboardNext]_dashboardVars =>
        [post.pc = "sent" /\ post'.pc = "done" =>
            \A e \in post.plan.counted :
                staged_effects[e].branch = post.branch =>
                    staged_effects'[e].status # "staged"]_dashboardVars
  BY <1>1
<1> QED
  BY <1>2, DashInvariant, PTL DEF DashboardSpec

-----------------------------------------------------------------------------
(* Polls only read, and the API writes with the store's own operations: a  *)
(* POST names a branch and a target that exist, however old its dialog is. *)
LEMMA DashboardStoreStep ==
  ASSUME DashInv, [DashboardNext]_dashboardVars
  PROVE  [Next]_storeVars
<1>1. CASE ServerRewinds
  BY <1>1, SentIsOK DEF ServerRewinds, Next
<1>2. CASE OthersAct
  BY <1>2, OthersOnlyUseTheStore
<1>3. ASSUME NEW q \in Polls, get_tree(q) \/ ShowTree(q) \/ PollFails(q)
      PROVE  UNCHANGED storeVars
  BY <1>3 DEF get_tree, ShowTree, PollFails
<1>4. CASE \/ \E c \in CheckpointIds : openRewind(c)
           \/ Cancel \/ confirmRewind \/ ShowResult \/ PostFails
  BY <1>4 DEF openRewind, Cancel, confirmRewind, ShowResult, PostFails
<1>5. CASE UNCHANGED dashboardVars
  BY <1>5 DEF dashboardVars
<1> QED
  BY <1>1, <1>2, <1>3, <1>4, <1>5 DEF DashboardNext

(* What the HTTP API does to the store the store allows: the theorems of   *)
(* RewindStoreProofs hold whoever polls, confirms and retries.             *)
THEOREM DashboardRunsTheStore == DashboardSpec => Spec
<1>1. DashboardInit => Init
  BY DEF DashboardInit
<1>2. DashInv /\ [DashboardNext]_dashboardVars => [Next]_storeVars
  BY DashboardStoreStep
<1> QED
  BY <1>1, <1>2, DashInvariant, PTL DEF DashboardSpec, Spec
=============================================================================
