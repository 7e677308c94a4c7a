-------------------------- MODULE StoryboardProofs --------------------------
(***************************************************************************)
(* Proofs about Storyboard, for every script and any number of tickers:    *)
(* a branch tells its story in order, and only messages of a recovery that *)
(* has been told to its end are posted, each once.                         *)
(*                                                                         *)
(* The label of a checkpoint is its distance from where its branch began,  *)
(* so the guard on the head makes the tickers of a branch take turns.  The *)
(* commit of the last step closes the branch, and the one ticker that made *)
(* it is the only one that will ever post the branch's messages.           *)
(***************************************************************************)
EXTENDS Storyboard, VectorMemoryProofs

LabelRows == [story : Stories \cup {"genesis"}, step : Nat]
Ticks(pcs, B, C) == [pc : pcs, branch : B, head : C, step : Nat]
PostTicks(B, C, E) ==
    [pc : {"post", "mark"}, branch : B, head : C, step : Nat, todo : SUBSET E]

(* Where the story of a branch begins.                                     *)
Base(b) == IF IsOriginal(b) THEN 0 ELSE checkpoints[branches[b].fork].step

(* The label of c counts the steps of its branch, and its parent is the    *)
(* step before it or the point its branch was forked from.                 *)
LabelOK(c) ==
    LET b == checkpoints[c].branch
        d == checkpoints[c].parent
    IN  /\ checkpoints[c].step = labels[c].step + Base(b)
        /\ branches[b].fork # NULL => branches[b].fork < c
        /\ d # NULL => /\ labels[c].story = Story(b)
                       /\ checkpoints[c].step = checkpoints[d].step + 1
                       /\ checkpoints[d].branch = b \/ d = branches[b].fork

(* All effects are messages, staged on a commit of their own branch.       *)
EffectOK(e) ==
    /\ staged_effects[e].mode = "staged"
    /\ checkpoints[staged_effects[e].checkpoint].branch = staged_effects[e].branch

RowsOK ==
    /\ labels \in Seq(LabelRows) /\ Len(labels) = Len(checkpoints)
    /\ announced \in [1 .. MaxEffects -> Nat] /\ Len(staged_effects) <= MaxEffects
    /\ \A e \in 1 .. MaxEffects : e \notin EffectIds => announced[e] = 0

Silent(b) == \A e \in EffectIds : staged_effects[e].branch = b => announced[e] = 0

First(todo) == CHOOSE e \in todo : \A d \in todo : e <= d

Deciding(t) ==
    /\ t \in Ticks({"apply"}, BranchIds, CheckpointIds)
    /\ t.step + Base(t.branch) = checkpoints[t.head].step + 1

(* The ticker made the commit at its head; if that was the last step of    *)
(* the story, there will be no other.                                      *)
Applied(t) ==
    /\ checkpoints[t.head].branch = t.branch /\ labels[t.head].step = t.step
    /\ t.step = StepsOf(t.branch) => Told(t.branch)

Telling(t) ==
    /\ t \in Ticks({"remember", "stage", "flush"}, BranchIds, CheckpointIds)
    /\ Applied(t)
    /\ t.step = StepsOf(t.branch) => Silent(t.branch)
    /\ t.pc = "flush" => t.step = StepsOf(t.branch) /\ ~IsOriginal(t.branch)

Posting(t) ==
    /\ t \in PostTicks(BranchIds, CheckpointIds, EffectIds)
    /\ Applied(t) /\ t.step = StepsOf(t.branch) /\ ~IsOriginal(t.branch)
    /\ t.todo # {} /\ \A e \in t.todo : staged_effects[e].branch = t.branch
    /\ \A e \in t.todo :
          announced[e] = IF t.pc = "mark" /\ e = First(t.todo) THEN 1 ELSE 0

TickOK(t) ==
    \/ t = Waiting
    \/ /\ Deciding(t) \/ Telling(t) \/ Posting(t)
       /\ t.step \in 1 .. StepsOf(t.branch)

HasApplied(p) == ticks[p].pc \notin {"waiting", "apply"}
OneEach ==
    \A p, q \in Tickers :
        HasApplied(p) /\ HasApplied(q) /\ ticks[p].head = ticks[q].head => p = q

StoryInv ==
    /\ MemoryInv /\ RowsOK
    /\ \A c \in CheckpointIds : LabelOK(c)
    /\ \A e \in EffectIds : EffectOK(e)
    /\ DOMAIN ticks = Tickers /\ \A p \in Tickers : TickOK(ticks[p])
    /\ OneEach
    /\ OnlyRecoveryIsAnnounced

-----------------------------------------------------------------------------
(* Facts about a state.                                                    *)

LEMMA StoryFacts ==
  ASSUME StoryInv
  PROVE  /\ MemoryInv /\ StoreInv /\ TreeInv
         /\ Len(checkpoints) \in Nat /\ Len(branches) \in Nat /\ Len(staged_effects) \in Nat
         /\ \A c \in CheckpointIds :
               /\ labels[c] \in LabelRows /\ labels[c].step \in Nat
               /\ checkpoints[c].step \in Nat /\ checkpoints[c].branch \in BranchIds
               /\ checkpoints[c].parent \in CheckpointIds \cup {NULL}
               /\ LabelOK(c)
         /\ EffectIds \subseteq 1 .. MaxEffects
         /\ \A e \in 1 .. MaxEffects : announced[e] \in Nat
         /\ \A e \in EffectIds : EffectOK(e) /\ announced[e] \in Nat
<1>1. MemoryInv /\ StoreInv /\ TreeInv
  BY DEF StoryInv, MemoryInv, StoreInv
<1>2. /\ Len(checkpoints) \in Nat /\ Len(branches) \in Nat /\ Len(staged_effects) \in Nat
      /\ \A c \in CheckpointIds : checkpoints[c].branch \in BranchIds
  BY <1>1, StoreFacts
<1>3. \A c \in CheckpointIds : /\ checkpoints[c].parent \in CheckpointIds \cup {NULL}
                               /\ checkpoints[c].step \in Nat
  BY <1>1, RowTypes DEF TreeInv, CheckpointRows, CheckpointIds, NULL
<1>4. \A c \in CheckpointIds : labels[c] \in LabelRows /\ labels[c].step \in Nat
  <2>1. PICK S : S = LabelRows
    OBVIOUS
  <2>2. labels \in Seq(S) /\ Len(labels) = Len(checkpoints)
    BY <2>1 DEF StoryInv, RowsOK
  <2>3. \A c \in CheckpointIds : labels[c] \in S
    BY <2>2, ElementOfSeq DEF CheckpointIds
  <2> QED
    BY <2>1, <2>3 DEF LabelRows
<1>5. EffectIds \subseteq 1 .. MaxEffects
  BY <1>2, BoundsAreNumbers DEF StoryInv, RowsOK, EffectIds
<1>6. \A e \in 1 .. MaxEffects : announced[e] \in Nat
  BY DEF StoryInv, RowsOK
<1> QED
  BY <1>1, <1>2, <1>3, <1>4, <1>5, <1>6 DEF StoryInv

(* Every story has a step.                                                 *)
LEMMA StoriesHaveSteps ==
  ASSUME NEW b
  PROVE  Story(b) \in Stories /\ StepsOf(b) \in Nat /\ StepsOf(b) >= 1
<1>1. Story(b) \in Stories
  BY DEF Story, Stories
<1>2. PICK S : S = [memory : BOOLEAN, message : BOOLEAN]
  OBVIOUS
<1>3. PICK s : s = Script[Story(b)]
  OBVIOUS
<1>4. s \in Seq(S) /\ s # <<>>
  BY <1>1, <1>2, <1>3, ScriptType
<1>5. Len(s) \in Nat /\ Len(s) >= 1
  BY <1>4
<1> QED
  BY <1>1, <1>3, <1>5 DEF StepsOf

LEMMA BaseIsNat ==
  ASSUME StoryInv, NEW b \in BranchIds
  PROVE  Base(b) \in Nat
<1>1. ~IsOriginal(b) => branches[b].fork \in CheckpointIds
  BY StoryFacts, StoreFacts DEF IsOriginal
<1> QED
  BY <1>1, StoryFacts DEF Base

(* A branch that has a commit of its own has one at its head, no step      *)
(* earlier, and has told each step in one commit.                          *)
LEMMA OwnHead ==
  ASSUME StoryInv, NEW b \in BranchIds, NEW c \in CheckpointIds, checkpoints[c].branch = b
  PROVE  /\ checkpoints[branches[b].head].branch = b
         /\ labels[c].step <= labels[branches[b].head].step
<1>1. PICK h, f : h = branches[b].head /\ f = branches[b].fork
  OBVIOUS
<1>2. /\ StoreInv /\ TreeInv /\ h \in CheckpointIds /\ c \in lineage[h]
      /\ f # NULL => f \in CheckpointIds
  BY <1>1, StoryFacts, StoreFacts DEF TreeInv, NoLostCommit
<1>3. checkpoints[h].branch = b
  <2>1. CASE f # NULL /\ h = f
    <3>1. f < c
      BY <1>1, <2>1, StoryFacts DEF LabelOK
    <3>2. c \in 1 .. f
      BY <1>2, <2>1 DEF TreeInv, Tree
    <3>3. c \in Nat /\ f \in Nat
      BY <1>2, <2>1, StoryFacts DEF CheckpointIds
    <3> QED
      BY <3>1, <3>2, <3>3
  <2> QED
    BY <2>1, <1>1, <1>2, HeadIsOwn
<1>4. checkpoints[c].step <= checkpoints[h].step
  BY <1>2 DEF TreeInv, LineageIsChain
<1>5. /\ checkpoints[c].step = labels[c].step + Base(b)
      /\ checkpoints[h].step = labels[h].step + Base(b)
  BY <1>2, <1>3, StoryFacts DEF LabelOK
<1>6. labels[c].step \in Nat /\ labels[h].step \in Nat /\ Base(b) \in Nat
  BY <1>2, StoryFacts, BaseIsNat
<1> QED
  BY <1>1, <1>3, <1>4, <1>5, <1>6

LEMMA SameStepSameCommit ==
  ASSUME StoryInv, NEW c \in CheckpointIds, NEW d \in CheckpointIds,
         checkpoints[c].branch = checkpoints[d].branch, labels[c].step = labels[d].step
  PROVE  c = d
<1>1. PICK b \in BranchIds : b = checkpoints[c].branch
  BY StoryFacts
<1>2. PICK h \in CheckpointIds : h = branches[b].head
  BY <1>1, StoryFacts, StoreFacts
<1>3. c \in lineage[h] /\ d \in lineage[h]
  BY <1>1, <1>2, StoryFacts DEF TreeInv, NoLostCommit
<1>4. checkpoints[c].step = checkpoints[d].step
  BY <1>1, StoryFacts DEF LabelOK
<1> QED
  BY <1>3, <1>4, StoryFacts DEF TreeInv, LineageIsChain

(* Two tickers never post messages of the same branch.                     *)
LEMMA OnePoster ==
  ASSUME StoryInv, NEW p \in Tickers, NEW q \in Tickers,
         Applied(ticks[p]), Applied(ticks[q]), HasApplied(p), HasApplied(q),
         ticks[p].head \in CheckpointIds, ticks[q].head \in CheckpointIds,
         ticks[p].branch = ticks[q].branch, ticks[p].step = ticks[q].step
  PROVE  p = q
<1>1. ticks[p].head = ticks[q].head
  BY SameStepSameCommit DEF Applied
<1> QED
  BY <1>1 DEF StoryInv, OneEach

LEMMA FirstIsListed ==
  ASSUME NEW todo \in SUBSET Nat, todo # {}
  PROVE  First(todo) \in todo
  BY LeastExists DEF First

-----------------------------------------------------------------------------
(* What a step leaves as it is.                                            *)

LabelsGrow == \A c \in CheckpointIds : labels'[c] = labels[c]

LEMMA BranchesStay ==
  ASSUME StoryInv, StoreGrows, NEW b \in BranchIds
  PROVE  /\ branches'[b].fork = branches[b].fork
         /\ IsOriginal(b)' = IsOriginal(b) /\ Base(b)' = Base(b)
         /\ Story(b)' = Story(b) /\ StepsOf(b)' = StepsOf(b)
<1>1. /\ branches'[b].fork = branches[b].fork
      /\ ~IsOriginal(b) => branches[b].fork \in CheckpointIds
  BY StoryFacts, StoreFacts DEF IsOriginal, StoreGrows
<1>2. ~IsOriginal(b) => checkpoints'[branches[b].fork] = checkpoints[branches[b].fork]
  BY <1>1 DEF StoreGrows, OldCheckpointsStay
<1> QED
  BY <1>1, <1>2 DEF IsOriginal, Base, Story, StepsOf

LEMMA LabelStays ==
  ASSUME StoryInv, StoreGrows, LabelsGrow, NEW c \in CheckpointIds
  PROVE  LabelOK(c)'
<1>1. PICK b \in BranchIds : b = checkpoints[c].branch
  BY StoryFacts
<1>2. PICK d \in CheckpointIds \cup {NULL} : d = checkpoints[c].parent
  BY StoryFacts
<1>3. /\ checkpoints'[c] = checkpoints[c] /\ labels'[c] = labels[c]
      /\ d # NULL => checkpoints'[d] = checkpoints[d]
  BY <1>2 DEF StoreGrows, OldCheckpointsStay, LabelsGrow
<1> QED
  BY <1>1, <1>2, <1>3, StoryFacts, BranchesStay DEF LabelOK

LEMMA EffectStays ==
  ASSUME StoryInv, StoreGrows, NEW e \in EffectIds
  PROVE  EffectOK(e)'
<1>1. PICK c \in CheckpointIds : c = staged_effects[e].checkpoint
  BY StoryFacts, StoreFacts
<1>2. /\ checkpoints'[c] = checkpoints[c] /\ staged_effects'[e].mode = staged_effects[e].mode
      /\ staged_effects'[e].checkpoint = c
      /\ staged_effects'[e].branch = staged_effects[e].branch
  BY <1>1 DEF StoreGrows, OldCheckpointsStay
<1> QED
  BY <1>1, <1>2, StoryFacts DEF EffectOK

(* Nothing is posted for branch b.                                         *)
Hushed(b) ==
    /\ \A e \in EffectIds : staged_effects[e].branch = b => announced'[e] = announced[e]
    /\ \A e \in EffectIds' : e \notin EffectIds => announced'[e] = 0

ToldStays == \A b \in BranchIds : Told(b) => Told(b)'

LEMMA SilentStays ==
  ASSUME StoryInv, StoreGrows, NEW b, Hushed(b), Silent(b)
  PROVE  Silent(b)'
  BY DEF Silent, Hushed, StoreGrows

LEMMA TickStays ==
  ASSUME StoryInv, StoreGrows, LabelsGrow, ToldStays, NEW t, TickOK(t),
         t # Waiting /\ t.pc # "apply" /\ t.step = StepsOf(t.branch) => Hushed(t.branch)
  PROVE  TickOK(t)'
<1>1. CASE t = Waiting
  BY <1>1 DEF TickOK, Waiting
<1>2. ASSUME Deciding(t) \/ Telling(t) \/ Posting(t), t.step \in 1 .. StepsOf(t.branch),
             t.pc # "apply" /\ t.step = StepsOf(t.branch) => Hushed(t.branch)
      PROVE  TickOK(t)'
  <2>1. PICK b, h, k : b = t.branch /\ h = t.head /\ k = t.step
    OBVIOUS
  <2>2. b \in BranchIds /\ h \in CheckpointIds
    BY <1>2, <2>1 DEF Deciding, Telling, Posting, Ticks, PostTicks
  <2>3. /\ checkpoints'[h] = checkpoints[h] /\ labels'[h] = labels[h]
        /\ BranchIds \subseteq BranchIds' /\ CheckpointIds \subseteq CheckpointIds'
        /\ EffectIds \subseteq EffectIds'
        /\ \A e \in EffectIds : staged_effects'[e].branch = staged_effects[e].branch
        /\ IsOriginal(b)' = IsOriginal(b) /\ Base(b)' = Base(b) /\ StepsOf(b)' = StepsOf(b)
        /\ Told(b) => Told(b)'
    BY <2>2, BranchesStay DEF StoreGrows, OldCheckpointsStay, LabelsGrow, ToldStays
  <2>4. t.pc # "apply" /\ k = StepsOf(b) /\ Silent(b) => Silent(b)'
    BY <1>2, <2>1, SilentStays
  <2>5. Applied(t) => Applied(t)'
    BY <2>1, <2>3 DEF Applied
  <2>6. Deciding(t) => Deciding(t)'
    BY <2>1, <2>3 DEF Deciding, Ticks
  <2>7. Telling(t) => Telling(t)'
    BY <2>1, <2>3, <2>4, <2>5 DEF Telling, Ticks
  <2>8. Posting(t) => Posting(t)'
    <3>1. SUFFICES ASSUME Posting(t)  PROVE Posting(t)'
      OBVIOUS
    <3>2. /\ t \in PostTicks(BranchIds, CheckpointIds, EffectIds)
          /\ t \in PostTicks(BranchIds', CheckpointIds', EffectIds')
          /\ t.todo \subseteq EffectIds
      BY <3>1, <2>3 DEF Posting, PostTicks
    <3>0. Hushed(b)
      BY <3>1, <1>2, <2>1 DEF Posting, PostTicks
    <3>3. \A e \in t.todo : /\ staged_effects[e].branch = b /\ staged_effects'[e].branch = b
                            /\ announced'[e] = announced[e]
      BY <3>0, <3>1, <3>2, <2>1, <2>3 DEF Posting, Hushed
    <3> QED
      BY <3>1, <3>2, <3>3, <2>1, <2>3, <2>5 DEF Posting
  <2> QED
    BY <1>2, <2>1, <2>3, <2>6, <2>7, <2>8 DEF TickOK
<1>3. ASSUME t # Waiting  PROVE TickOK(t)'
  BY <1>2, <1>3 DEF TickOK
<1> QED
  BY <1>1, <1>3

(* Where the store and the labels are the same.                            *)
LEMMA SameStore ==
  ASSUME StoryInv, UNCHANGED <<history, labels>>
  PROVE  /\ LabelsGrow /\ ToldStays /\ CheckpointIds' = CheckpointIds /\ BranchIds' = BranchIds
         /\ \A b : Told(b)' = Told(b)
<1>1. branches' = branches /\ checkpoints' = checkpoints /\ labels' = labels
  BY DEF history
<1>2. CheckpointIds' = CheckpointIds /\ BranchIds' = BranchIds /\ \A b : Told(b)' = Told(b)
  BY <1>1 DEF CheckpointIds, BranchIds, Told, StepsOf, Story, IsOriginal
<1> QED
  BY <1>1, <1>2 DEF LabelsGrow, ToldStays

(* What was announced is as it should be, for one effect.                  *)
AnnouncedOK(e) ==
    announced[e] > 0 =>
        LET b == staged_effects[e].branch
        IN  /\ announced[e] = 1 /\ ~IsOriginal(b)
            /\ checkpoints[staged_effects[e].checkpoint].branch = b /\ Told(b)

LEMMA AnnouncementsAreOK ==
  /\ OnlyRecoveryIsAnnounced <=> \A e \in EffectIds : AnnouncedOK(e)
  /\ OnlyRecoveryIsAnnounced' <=> \A e \in EffectIds' : AnnouncedOK(e)'
  BY DEF OnlyRecoveryIsAnnounced, AnnouncedOK

LEMMA AnnouncementStays ==
  ASSUME StoryInv, StoreGrows, ToldStays, NEW e \in EffectIds, announced'[e] = announced[e]
  PROVE  AnnouncedOK(e)'
<1>1. PICK b \in BranchIds, c \in CheckpointIds :
         b = staged_effects[e].branch /\ c = staged_effects[e].checkpoint
  BY StoryFacts, StoreFacts
<1>2. /\ staged_effects'[e].branch = b /\ staged_effects'[e].checkpoint = c
      /\ checkpoints'[c] = checkpoints[c] /\ IsOriginal(b)' = IsOriginal(b)
      /\ Told(b) => Told(b)'
  BY <1>1, BranchesStay DEF StoreGrows, OldCheckpointsStay, ToldStays
<1>3. AnnouncedOK(e)
  BY AnnouncementsAreOK DEF StoryInv
<1> QED
  BY <1>1, <1>2, <1>3 DEF AnnouncedOK

(* A step that posts nothing.                                              *)
PostsNothing ==
    /\ MemoryInv' /\ StoreGrows /\ LabelsGrow /\ ToldStays /\ announced' = announced
    /\ labels' \in Seq(LabelRows) /\ Len(labels') = Len(checkpoints')
    /\ Len(staged_effects') <= MaxEffects
    /\ \A c \in CheckpointIds' : c \notin CheckpointIds => LabelOK(c)'
    /\ \A e \in EffectIds' : e \notin EffectIds => EffectOK(e)'

LEMMA QuietKeeps ==
  ASSUME StoryInv, PostsNothing
  PROVE  /\ RowsOK' /\ (\A c \in CheckpointIds' : LabelOK(c)')
         /\ (\A e \in EffectIds' : EffectOK(e)') /\ OnlyRecoveryIsAnnounced'
         /\ \A t : TickOK(t) => TickOK(t)'
<1>0. /\ MemoryInv' /\ StoreGrows /\ LabelsGrow /\ ToldStays /\ announced' = announced
      /\ labels' \in Seq(LabelRows) /\ Len(labels') = Len(checkpoints')
      /\ Len(staged_effects') <= MaxEffects
      /\ \A c \in CheckpointIds' : c \notin CheckpointIds => LabelOK(c)'
      /\ \A e \in EffectIds' : e \notin EffectIds => EffectOK(e)'
  BY DEF PostsNothing
<1>1. EffectIds \subseteq EffectIds' /\ EffectIds' \subseteq 1 .. MaxEffects
  <2>1. Len(staged_effects') \in Nat
    <3>1. PICK S : S = EffectRows(Len(branches'), Len(checkpoints'))
      OBVIOUS
    <3>2. staged_effects' \in Seq(S)
      BY <1>0, <3>1, TypeOKPrime DEF MemoryInv, StoreInv, TreeInv, Types
    <3> QED
      BY <3>2
  <2> QED
    BY <1>0, <2>1, BoundsAreNumbers DEF EffectIds, StoreGrows
<1>2. /\ announced \in [1 .. MaxEffects -> Nat]
      /\ \A e \in 1 .. MaxEffects : e \notin EffectIds => announced[e] = 0
  BY DEF StoryInv, RowsOK
<1>3. RowsOK'
  BY <1>0, <1>1, <1>2 DEF RowsOK
<1>4. \A b : Hushed(b)
  BY <1>0, <1>1, <1>2 DEF Hushed
<1>5. \A c \in CheckpointIds' : LabelOK(c)'
  BY <1>0, LabelStays
<1>6. \A e \in EffectIds' : EffectOK(e)'
  BY <1>0, EffectStays
<1>7. ASSUME NEW e \in EffectIds'  PROVE AnnouncedOK(e)'
  <2>1. CASE e \in EffectIds
    BY <1>0, <2>1, AnnouncementStays
  <2>2. CASE e \notin EffectIds
    BY <1>0, <2>2, <1>1, <1>2 DEF AnnouncedOK
  <2> QED
    BY <2>1, <2>2
<1>8. \A t : TickOK(t) => TickOK(t)'
  BY <1>0, <1>4, TickStays
<1> QED
  BY <1>3, <1>5, <1>6, <1>7, <1>8, AnnouncementsAreOK

-----------------------------------------------------------------------------
(* One ticker moves.                                                       *)

TickMoves(p, t) ==
    /\ DOMAIN ticks' = Tickers /\ ticks'[p] = t
    /\ \A q \in Tickers : q # p => ticks'[q] = ticks[q]

LEMMA TickBridge ==
  ASSUME NEW p, NEW t, t = ticks'[p], TickOK(t)'
  PROVE  TickOK(ticks[p])'
  BY DEF TickOK, Deciding, Telling, Posting, Applied, Ticks, PostTicks, Silent, First, Told,
     Base, IsOriginal, Story, StepsOf

LEMMA TickersKeep ==
  ASSUME StoryInv, NEW p \in Tickers, NEW t, TickMoves(p, t), TickOK(t)',
         \A q \in Tickers : q # p => TickOK(ticks[q])',
         \/ t.pc \in {"waiting", "apply"}
         \/ \A q \in Tickers : q # p /\ HasApplied(q) => ticks[q].head # t.head
  PROVE  DOMAIN ticks' = Tickers /\ (\A q \in Tickers : TickOK(ticks[q])') /\ OneEach'
<1>1. \A q \in Tickers : ticks'[q] = IF q = p THEN t ELSE ticks[q]
  BY DEF TickMoves
<1>2. TickOK(ticks[p])'
  BY TickBridge DEF TickMoves
<1>3. OneEach'
  BY <1>1 DEF StoryInv, OneEach, HasApplied
<1> QED
  BY <1>2, <1>3 DEF TickMoves

LEMMA OthersStay ==
  ASSUME StoryInv, \A t : TickOK(t) => TickOK(t)', NEW q \in Tickers, ticks'[q] = ticks[q]
  PROVE  TickOK(ticks[q])'
<1>1. PICK t : t = ticks[q]
  OBVIOUS
<1>2. TickOK(t)
  BY <1>1 DEF StoryInv
<1>3. TickOK(t)' /\ t = ticks'[q]
  BY <1>1, <1>2
<1> QED
  BY <1>3, TickBridge

LEMMA QuietMove ==
  ASSUME StoryInv, PostsNothing, NEW p \in Tickers, NEW t, TickMoves(p, t),
         TickOK(t) \/ TickOK(t)',
         \/ t.pc \in {"waiting", "apply"}
         \/ \A q \in Tickers : q # p /\ HasApplied(q) => ticks[q].head # t.head
  PROVE  StoryInv'
<1>1. \A x : TickOK(x) => TickOK(x)'
  BY QuietKeeps
<1>2. TickOK(t)'
  BY <1>1
<1>3. \A q \in Tickers : q # p => TickOK(ticks[q])'
  BY <1>1, OthersStay DEF TickMoves
<1>4. DOMAIN ticks' = Tickers /\ (\A q \in Tickers : TickOK(ticks[q])') /\ OneEach'
  BY <1>2, <1>3, TickersKeep
<1> QED
  BY <1>4, QuietKeeps DEF StoryInv, PostsNothing

LEMMA QuietStill ==
  ASSUME StoryInv, PostsNothing, ticks' = ticks
  PROVE  StoryInv'
<1>1. \A q \in Tickers : TickOK(ticks[q])'
  BY QuietKeeps, OthersStay
<1>2. OneEach' /\ DOMAIN ticks' = Tickers
  BY DEF StoryInv, OneEach, HasApplied
<1> QED
  BY <1>1, <1>2, QuietKeeps DEF StoryInv, PostsNothing

LEMMA SameStoreIsQuiet ==
  ASSUME StoryInv, MemoryInv', UNCHANGED <<storeVars, labels, announced>>
  PROVE  PostsNothing
<1>1. StoreGrows
  BY StoryFacts, StoreStepGrows
<1>2. UNCHANGED <<history, labels>> /\ staged_effects' = staged_effects
  BY DEF storeVars, history
<1>3. /\ LabelsGrow /\ ToldStays /\ CheckpointIds' = CheckpointIds /\ EffectIds' = EffectIds
      /\ checkpoints' = checkpoints
  BY <1>2, SameStore DEF EffectIds, history
<1> QED
  BY <1>1, <1>2, <1>3 DEF PostsNothing, StoryInv, RowsOK

LEMMA SameMemoryIsQuiet ==
  ASSUME StoryInv, UNCHANGED <<memoryVars, labels, announced>>
  PROVE  PostsNothing
<1>1. MemoryInv'
  BY StoryFacts, MemoryStep
<1> QED
  BY <1>1, SameStoreIsQuiet DEF memoryVars

(* A ticker goes on from the commit it made.                               *)
LEMMA SameHead ==
  ASSUME StoryInv, NEW p \in Tickers, HasApplied(p), NEW t, t.head = ticks[p].head
  PROVE  \A q \in Tickers : q # p /\ HasApplied(q) => ticks[q].head # t.head
  BY DEF StoryInv, OneEach

LEMMA TicksMove ==
  ASSUME StoryInv, NEW p \in Tickers, NEW t, ticks' = [ticks EXCEPT ![p] = t]
  PROVE  TickMoves(p, t)
  BY DEF StoryInv, TickMoves

LEMMA GoesIdle ==
  ASSUME StoryInv, PostsNothing, NEW p \in Tickers, GoIdle(p)
  PROVE  StoryInv'
<1>1. TickMoves(p, Waiting)
  BY TicksMove DEF GoIdle
<1>2. TickOK(Waiting) /\ Waiting.pc = "waiting"
  BY DEF TickOK, Waiting
<1> QED
  BY <1>1, <1>2, QuietMove

LEMMA GoesOn ==
  ASSUME StoryInv, PostsNothing, NEW p \in Tickers, NEW pc, GoOn(p, pc),
         HasApplied(p), NEW t, t = [ticks[p] EXCEPT !.pc = pc], TickOK(t),
         t.head = ticks[p].head
  PROVE  StoryInv'
<1>1. TickMoves(p, t)
  BY TicksMove DEF GoOn
<1> QED
  BY <1>1, QuietMove, SameHead

-----------------------------------------------------------------------------
(* The steps of a tick that leave the branches alone.                      *)

LEMMA DecideKeeps ==
  ASSUME StoryInv, NEW p \in Tickers, NEW r, NEW b \in BranchIds, Decide(p, r, b)
  PROVE  StoryInv'
<1>1. PICK h, k : h = branches[b].head /\ k = StepsApplied(b)
  OBVIOUS
<1>2. PICK t : t = [pc |-> "apply", branch |-> b, head |-> h, step |-> k + 1]
  OBVIOUS
<1>3. /\ k < StepsOf(b) /\ ticks' = [ticks EXCEPT ![p] = t]
      /\ UNCHANGED <<memoryVars, labels, announced>>
  BY <1>1, <1>2 DEF Decide
<1>4. /\ h \in CheckpointIds /\ checkpoints[h].step \in Nat /\ labels[h].step \in Nat
      /\ Base(b) \in Nat /\ k = checkpoints[h].step - Base(b)
  BY <1>1, StoryFacts, StoreFacts, BaseIsNat DEF StepsApplied, Base
<1>5. k \in Nat
  <2>1. CASE checkpoints[h].branch = b
    BY <2>1, <1>4, StoryFacts DEF LabelOK
  <2>2. CASE ~IsOriginal(b) /\ h = branches[b].fork
    BY <2>2, <1>4 DEF Base
  <2> QED
    BY <2>1, <2>2, <1>1, StoryFacts, HeadIsOwn DEF IsOriginal
<1>6. t \in Ticks({"apply"}, BranchIds, CheckpointIds) /\ t.branch = b /\ t.step = k + 1
      /\ t.head = h /\ t.pc = "apply"
  BY <1>2, <1>4, <1>5 DEF Ticks
<1>7. Deciding(t)
  BY <1>4, <1>5, <1>6 DEF Deciding
<1>8. TickOK(t)
  BY <1>3, <1>5, <1>6, <1>7, StoriesHaveSteps DEF TickOK
<1> QED
  BY <1>3, <1>6, <1>8, TicksMove, SameMemoryIsQuiet, QuietMove

LEMMA IdleKeeps ==
  ASSUME StoryInv, NEW p \in Tickers, LoseRace(p) \/ Crash(p)
  PROVE  StoryInv'
  BY SameMemoryIsQuiet, GoesIdle DEF LoseRace, Crash

(* What a ticker knows after its commit.                                   *)
LEMMA TellingTick ==
  ASSUME StoryInv, NEW p \in Tickers, ticks[p].pc \in {"remember", "stage", "flush"}
  PROVE  /\ Telling(ticks[p]) /\ TickOK(ticks[p]) /\ HasApplied(p)
         /\ ticks[p] \in Ticks({"remember", "stage", "flush"}, BranchIds, CheckpointIds)
         /\ ticks[p].step \in 1 .. StepsOf(ticks[p].branch)
<1>1. TickOK(ticks[p])
  BY DEF StoryInv
<1>2. ticks[p].pc # "waiting" /\ ticks[p].pc # "apply" /\ ticks[p].pc # "post"
      /\ ticks[p].pc # "mark"
  OBVIOUS
<1> QED
  BY <1>1, <1>2 DEF TickOK, Waiting, Deciding, Posting, Telling, Ticks, PostTicks, HasApplied

(* The tick at a later pc.                                                 *)
LEMMA TickGoesOn ==
  ASSUME StoryInv, NEW p \in Tickers, ticks[p].pc \in {"remember", "stage"},
         NEW pc \in {"stage", "flush"},
         pc = "flush" => /\ ticks[p].step = StepsOf(ticks[p].branch)
                         /\ ~IsOriginal(ticks[p].branch)
  PROVE  \E t : /\ t = [ticks[p] EXCEPT !.pc = pc]
                /\ TickOK(t) /\ t.head = ticks[p].head /\ HasApplied(p)
<1>1. PICK u : u = ticks[p]
  OBVIOUS
<1>2. PICK t : t = [u EXCEPT !.pc = pc]
  OBVIOUS
<1>3. /\ Telling(u) /\ u.step \in 1 .. StepsOf(u.branch) /\ HasApplied(p)
      /\ u \in Ticks({"remember", "stage", "flush"}, BranchIds, CheckpointIds)
  BY <1>1, TellingTick
<1>4. /\ t \in Ticks({"remember", "stage", "flush"}, BranchIds, CheckpointIds)
      /\ t.pc = pc /\ t.branch = u.branch /\ t.head = u.head /\ t.step = u.step
  BY <1>2, <1>3 DEF Ticks
<1>5. Telling(t)
  BY <1>1, <1>3, <1>4 DEF Telling, Applied
<1> QED
  BY <1>1, <1>2, <1>3, <1>4, <1>5 DEF TickOK

LEMMA RememberStepKeeps ==
  ASSUME StoryInv, NEW p \in Tickers, RememberStep(p)
  PROVE  StoryInv'
<1>1. PostsNothing
  <2>1. CASE UNCHANGED memoryVars
    BY <2>1, SameMemoryIsQuiet DEF RememberStep
  <2>2. ASSUME NEW c \in CheckpointIds, NEW fact \in Facts, remember(ticks[p].branch, c, fact)
        PROVE  PostsNothing
    <3>1. ticks[p].branch \in BranchIds
      BY TellingTick DEF RememberStep, At, Ticks
    <3>2. MemoryInv'
      BY <2>2, <3>1, StoryFacts, RememberKeepsMemory
    <3> QED
      BY <2>2, <3>2, SameStoreIsQuiet DEF remember, RememberStep
  <2> QED
    BY <2>1, <2>2 DEF RememberStep
<1>2. ticks[p].pc = "remember" /\ GoOn(p, "stage")
  BY DEF RememberStep, At
<1>3. PICK t : /\ t = [ticks[p] EXCEPT !.pc = "stage"]
               /\ TickOK(t) /\ t.head = ticks[p].head /\ HasApplied(p)
  BY <1>2, TickGoesOn
<1> QED
  BY <1>1, <1>2, <1>3, GoesOn

(* A message staged from a head of the branch since the ticker's commit    *)
(* hangs on a commit of the branch itself.                                 *)
LEMMA StagedOnOwnCommit ==
  ASSUME StoryInv, NEW t, Applied(t), t.branch \in BranchIds, t.head \in CheckpointIds,
         NEW c \in PastHeads(t.branch), c >= t.head
  PROVE  c \in CheckpointIds /\ checkpoints[c].branch = t.branch
<1>1. PICK b, f, h : /\ b = t.branch /\ f = branches[b].fork /\ h = t.head
                     /\ b \in BranchIds /\ h \in CheckpointIds
  OBVIOUS
<1>2. c \in CheckpointIds /\ (c = f \/ checkpoints[c].branch = b)
  BY <1>1 DEF PastHeads
<1>3. f # NULL => f < h
  BY <1>1, StoryFacts DEF Applied, LabelOK
<1>4. c \in Nat /\ h \in Nat /\ c # NULL
  BY <1>1, <1>2, StoryFacts DEF CheckpointIds, NULL
<1>5. c # f
  BY <1>1, <1>3, <1>4
<1> QED
  BY <1>1, <1>2, <1>5

LEMMA StageMessageKeeps ==
  ASSUME StoryInv, NEW p \in Tickers, StageMessage(p)
  PROVE  StoryInv'
<1>1. PICK b \in BranchIds : b = ticks[p].branch
  BY TellingTick DEF StageMessage, At, Ticks
<1>2. /\ Telling(ticks[p]) /\ ticks[p].head \in CheckpointIds /\ HasApplied(p)
      /\ ticks[p].step \in 1 .. StepsOf(b) /\ Applied(ticks[p])
  BY <1>1, TellingTick DEF StageMessage, At, Ticks, Telling
<1>3. PostsNothing
  <2>1. CASE UNCHANGED storeVars
    BY <2>1, SameMemoryIsQuiet DEF StageMessage, memoryVars
  <2>2. ASSUME NEW c \in CheckpointIds, c >= ticks[p].head,
               record_effect(b, c, "staged", NoKey, "staged")
        PROVE  PostsNothing
    <3>1. PICK n : n = Len(staged_effects) + 1
      OBVIOUS
    <3>2. /\ EffectIds' = EffectIds \cup {n} /\ n \notin EffectIds
          /\ staged_effects'[n] = [branch |-> b, checkpoint |-> c, mode |-> "staged",
                                   key |-> NoKey, status |-> "staged"]
          /\ n \in 1 .. MaxEffects /\ UNCHANGED history
      BY <2>2, <3>1, StoryFacts, RecordShape
    <3>3. StoreGrows
      BY <2>2, StoryFacts, RecordGrows
    <3>4. [Next]_storeVars
      BY <2>2 DEF Next, Record
    <3>5. MemoryInv'
      BY <3>4, StoryFacts, StoreKeepsMemory DEF StageMessage
    <3>6. /\ LabelsGrow /\ ToldStays /\ CheckpointIds' = CheckpointIds
          /\ checkpoints' = checkpoints /\ labels' = labels /\ announced' = announced
      BY <3>2, SameStore DEF StageMessage, history
    <3>7. Len(staged_effects') <= MaxEffects
      <4>1. Len(staged_effects') = n
        BY <2>2, <3>1, StoryFacts, TypeOKIsTypes DEF record_effect, Types, TreeInv
      <4> QED
        BY <4>1, <3>2, BoundsAreNumbers
    <3>8. EffectOK(n)'
      <4>1. c \in PastHeads(b)
        BY <2>2 DEF record_effect
      <4>2. checkpoints[c].branch = b
        BY <1>1, <1>2, <2>2, <4>1, StagedOnOwnCommit
      <4> QED
        BY <3>2, <3>6, <4>2 DEF EffectOK
    <3> QED
      BY <3>2, <3>3, <3>5, <3>6, <3>7, <3>8 DEF PostsNothing, StoryInv, RowsOK
  <2> QED
    BY <2>1, <2>2, <1>1 DEF StageMessage
<1>4. CASE GoIdle(p)
  BY <1>3, <1>4, GoesIdle
<1>5. CASE ~IsOriginal(b) /\ ticks[p].step >= StepsOf(b) /\ GoOn(p, "flush")
  <2>1. ticks[p].step = StepsOf(b)
    BY <1>2, <1>5, StoriesHaveSteps
  <2>2. ticks[p].pc = "stage"
    BY DEF StageMessage, At
  <2>3. PICK t : /\ t = [ticks[p] EXCEPT !.pc = "flush"]
                 /\ TickOK(t) /\ t.head = ticks[p].head
    BY <1>1, <1>5, <2>1, <2>2, TickGoesOn
  <2> QED
    BY <1>2, <1>3, <1>5, <2>3, GoesOn
<1> QED
  BY <1>1, <1>4, <1>5 DEF StageMessage

LEMMA ListMessagesKeeps ==
  ASSUME StoryInv, NEW p \in Tickers, ListMessages(p)
  PROVE  StoryInv'
<1>1. PICK u : u = ticks[p]
  OBVIOUS
<1>2. /\ Telling(u) /\ u.pc = "flush" /\ HasApplied(p) /\ u.step \in 1 .. StepsOf(u.branch)
      /\ u \in Ticks({"remember", "stage", "flush"}, BranchIds, CheckpointIds)
  BY <1>1, TellingTick DEF ListMessages, At
<1>3. PostsNothing
  BY SameMemoryIsQuiet DEF ListMessages
<1>4. PICK todo :
         /\ \E c : todo = OwnMessages(u.branch, c)
         /\ IF todo = {} THEN GoIdle(p)
            ELSE ticks' = [ticks EXCEPT ![p] =
                    [pc |-> "post", branch |-> u.branch, head |-> u.head, step |-> u.step,
                     todo |-> todo]]
  BY <1>1 DEF ListMessages
<1>5. CASE todo = {}
  BY <1>3, <1>4, <1>5, GoesIdle
<1>6. CASE todo # {}
  <2>1. PICK t : t = [pc |-> "post", branch |-> u.branch, head |-> u.head, step |-> u.step,
                      todo |-> todo]
    OBVIOUS
  <2>2. todo \subseteq EffectIds /\ \A e \in todo : staged_effects[e].branch = u.branch
    BY <1>4, StoryFacts DEF OwnMessages, StagedOn, EffectOK
  <2>3. /\ t.pc = "post" /\ t.branch = u.branch /\ t.head = u.head /\ t.step = u.step
        /\ t.todo = todo /\ t \in PostTicks(BranchIds, CheckpointIds, EffectIds)
    BY <1>2, <2>1, <2>2 DEF Ticks, PostTicks
  <2>4. /\ Applied(u) /\ u.step = StepsOf(u.branch) /\ ~IsOriginal(u.branch) /\ Silent(u.branch)
    BY <1>2 DEF Telling
  <2>5. \A e \in todo : announced[e] = 0
    BY <2>2, <2>4 DEF Silent
  <2>6. Posting(t)
    BY <1>6, <2>2, <2>3, <2>4, <2>5 DEF Posting, Applied
  <2>7. TickOK(t)
    BY <1>2, <2>3, <2>6 DEF TickOK
  <2>8. TickMoves(p, t)
    BY <1>4, <1>6, <2>1, TicksMove
  <2> QED
    BY <1>1, <1>2, <1>3, <2>3, <2>7, <2>8, SameHead, QuietMove
<1> QED
  BY <1>5, <1>6

LEMMA PostingTick ==
  ASSUME StoryInv, NEW p \in Tickers, ticks[p].pc \in {"post", "mark"}
  PROVE  /\ Posting(ticks[p]) /\ TickOK(ticks[p]) /\ HasApplied(p)
         /\ ticks[p] \in PostTicks(BranchIds, CheckpointIds, EffectIds)
         /\ ticks[p].step \in 1 .. StepsOf(ticks[p].branch)
         /\ FirstListed(p) = First(ticks[p].todo)
         /\ First(ticks[p].todo) \in ticks[p].todo
<1>1. TickOK(ticks[p])
  BY DEF StoryInv
<1>2. /\ Posting(ticks[p]) /\ HasApplied(p)
      /\ ticks[p] \in PostTicks(BranchIds, CheckpointIds, EffectIds)
      /\ ticks[p].step \in 1 .. StepsOf(ticks[p].branch)
  BY <1>1 DEF TickOK, Waiting, Deciding, Posting, Telling, Ticks, PostTicks, HasApplied
<1>3. ticks[p].todo \in SUBSET Nat /\ ticks[p].todo # {}
  BY <1>2 DEF Posting, PostTicks, EffectIds
<1> QED
  BY <1>1, <1>2, <1>3, FirstIsListed DEF FirstListed, First

(* The others hold no message of the branch the poster posts for.          *)
LEMMA OthersHaveOtherBranches ==
  ASSUME StoryInv, NEW p \in Tickers, ticks[p].pc \in {"post", "mark"},
         NEW q \in Tickers, q # p, ticks[q] # Waiting, ticks[q].pc # "apply",
         ticks[q].step = StepsOf(ticks[q].branch)
  PROVE  ticks[q].branch # ticks[p].branch
<1>1. TickOK(ticks[q])
  BY DEF StoryInv
<1>2. Applied(ticks[q]) /\ HasApplied(q) /\ ticks[q].head \in CheckpointIds
  BY <1>1 DEF TickOK, Deciding, Telling, Posting, Ticks, PostTicks, HasApplied
<1>3. /\ Applied(ticks[p]) /\ HasApplied(p) /\ ticks[p].head \in CheckpointIds
      /\ ticks[p].step = StepsOf(ticks[p].branch)
  BY PostingTick DEF Posting, PostTicks
<1> QED
  BY <1>2, <1>3, OnePoster

LEMMA PostMessageKeeps ==
  ASSUME StoryInv, NEW p \in Tickers, PostMessage(p)
  PROVE  StoryInv'
<1>1. PICK u : u = ticks[p]
  OBVIOUS
<1>2. PICK f : f = First(u.todo)
  OBVIOUS
<1>3. PICK t : t = [u EXCEPT !.pc = "mark"]
  OBVIOUS
<1>4. /\ Posting(u) /\ HasApplied(p) /\ u.step \in 1 .. StepsOf(u.branch) /\ f \in u.todo
      /\ u \in PostTicks(BranchIds, CheckpointIds, EffectIds) /\ u.pc = "post"
      /\ announced' = [announced EXCEPT ![f] = @ + 1]
      /\ ticks' = [ticks EXCEPT ![p] = t]
      /\ UNCHANGED <<memoryVars, labels>>
  BY <1>1, <1>2, <1>3, PostingTick DEF PostMessage, At, GoOn
<1>5. /\ f \in EffectIds /\ f \in 1 .. MaxEffects /\ announced[f] = 0
      /\ staged_effects[f].branch = u.branch
  BY <1>2, <1>4, StoryFacts DEF Posting, PostTicks
<1>6. /\ announced' \in [1 .. MaxEffects -> Nat] /\ announced'[f] = 1
      /\ \A e \in 1 .. MaxEffects : e # f => announced'[e] = announced[e]
  BY <1>4, <1>5 DEF StoryInv, RowsOK
<1>7. /\ UNCHANGED storeVars /\ UNCHANGED <<history, labels>>
      /\ staged_effects' = staged_effects /\ EffectIds' = EffectIds
      /\ checkpoints' = checkpoints /\ branches' = branches
  BY <1>4 DEF memoryVars, storeVars, history, EffectIds
<1>8. StoreGrows /\ MemoryInv'
  BY <1>4, <1>7, StoryFacts, StoreStepGrows, MemoryStep
<1>9. /\ LabelsGrow /\ ToldStays /\ CheckpointIds' = CheckpointIds /\ BranchIds' = BranchIds
      /\ \A b : Told(b)' = Told(b)
  BY <1>7, SameStore
<1>10. RowsOK'
  BY <1>5, <1>6, <1>7 DEF StoryInv, RowsOK
<1>11. /\ \A c \in CheckpointIds' : LabelOK(c)'
       /\ \A e \in EffectIds' : EffectOK(e)'
  BY <1>7, <1>8, <1>9, LabelStays, EffectStays
<1>12. OnlyRecoveryIsAnnounced'
  <2>1. ASSUME NEW e \in EffectIds, e # f  PROVE AnnouncedOK(e)'
    <3>1. announced'[e] = announced[e]
      BY <1>6, <2>1, StoryFacts
    <3> QED
      BY <3>1, <1>8, <1>9, AnnouncementStays
  <2>2. AnnouncedOK(f)'
    <3>1. /\ ~IsOriginal(u.branch) /\ Told(u.branch) /\ EffectOK(f)
      BY <1>4, <1>5, StoryFacts DEF Posting, Applied
    <3>2. checkpoints[staged_effects[f].checkpoint].branch = u.branch
      BY <3>1, <1>5 DEF EffectOK
    <3>3. ~IsOriginal(u.branch)' /\ Told(u.branch)'
      BY <3>1, <1>7, <1>9 DEF IsOriginal
    <3>4. staged_effects'[f].branch = u.branch
      BY <1>5, <1>7
    <3> QED
      BY <3>2, <3>3, <3>4, <1>6, <1>7 DEF AnnouncedOK
  <2> QED
    BY <2>1, <2>2, <1>7, AnnouncementsAreOK
<1>13. /\ t \in PostTicks(BranchIds, CheckpointIds, EffectIds)
       /\ t.pc = "mark" /\ t.branch = u.branch /\ t.head = u.head /\ t.step = u.step
       /\ t.todo = u.todo
  BY <1>3, <1>4 DEF PostTicks
<1>14. TickOK(t)'
  <2>1. Applied(t)'
    <3>1. Applied(t) /\ t.branch \in BranchIds
      BY <1>4, <1>13 DEF Posting, Applied, PostTicks
    <3> QED
      BY <3>1, <1>7, <1>9, BranchesStay, <1>8 DEF Applied
  <2>2. IsOriginal(t.branch)' = IsOriginal(t.branch) /\ StepsOf(t.branch)' = StepsOf(t.branch)
    BY <1>8, <1>13, BranchesStay DEF PostTicks
  <2>3. \A e \in t.todo : announced'[e] = IF e = First(t.todo) THEN 1 ELSE 0
    <3>1. t.todo \subseteq 1 .. MaxEffects
      BY <1>13, StoryFacts DEF PostTicks
    <3>2. \A e \in t.todo : announced[e] = 0
      BY <1>4, <1>13 DEF Posting
    <3> QED
      BY <1>2, <1>6, <1>13, <3>1, <3>2
  <2>4. Posting(t)'
    BY <1>4, <1>7, <1>9, <1>13, <2>1, <2>2, <2>3 DEF Posting, First
  <2> QED
    BY <1>4, <1>13, <2>2, <2>4 DEF TickOK
<1>15. ASSUME NEW q \in Tickers, q # p  PROVE TickOK(ticks[q])'
  <2>1. PICK x : x = ticks[q]
    OBVIOUS
  <2>2. TickOK(x)
    BY <2>1 DEF StoryInv
  <2>3. x # Waiting /\ x.pc # "apply" /\ x.step = StepsOf(x.branch) => Hushed(x.branch)
    <3>1. SUFFICES ASSUME x # Waiting, x.pc # "apply", x.step = StepsOf(x.branch)
                   PROVE  Hushed(x.branch)
      OBVIOUS
    <3>2. x.branch # u.branch
      BY <1>1, <1>4, <1>15, <2>1, <3>1, OthersHaveOtherBranches
    <3> QED
      BY <3>2, <1>5, <1>6, <1>7, StoryFacts DEF Hushed
  <2>4. TickOK(x)'
    BY <1>8, <1>9, <2>2, <2>3, TickStays
  <2>5. x = ticks'[q]
    BY <1>4, <1>15, <2>1 DEF StoryInv
  <2> QED
    BY <2>4, <2>5, TickBridge
<1>16. DOMAIN ticks' = Tickers /\ (\A q \in Tickers : TickOK(ticks[q])') /\ OneEach'
  <2>1. TickMoves(p, t)
    BY <1>4, TicksMove
  <2>2. \A q \in Tickers : q # p /\ HasApplied(q) => ticks[q].head # t.head
    BY <1>1, <1>4, <1>13, SameHead
  <2> QED
    BY <1>14, <1>15, <2>1, <2>2, TickersKeep
<1> QED
  BY <1>8, <1>10, <1>11, <1>12, <1>16 DEF StoryInv

LEMMA MarkMessageKeeps ==
  ASSUME StoryInv, NEW p \in Tickers, MarkMessage(p)
  PROVE  StoryInv'
<1>1. PICK u : u = ticks[p]
  OBVIOUS
<1>2. PICK f : f = First(u.todo)
  OBVIOUS
<1>3. PICK rest : rest = u.todo \ {f}
  OBVIOUS
<1>4. /\ Posting(u) /\ HasApplied(p) /\ u.step \in 1 .. StepsOf(u.branch) /\ f \in u.todo
      /\ u \in PostTicks(BranchIds, CheckpointIds, EffectIds) /\ u.pc = "mark"
      /\ set_effect_status(f, "committed")
      /\ UNCHANGED <<agent_memory, labels, announced>>
      /\ IF rest = {} THEN GoIdle(p)
         ELSE ticks' = [ticks EXCEPT ![p].pc = "post", ![p].todo = rest]
  BY <1>1, <1>2, <1>3, PostingTick DEF MarkMessage, At
<1>5. f \in EffectIds /\ staged_effects[f].mode = "staged"
  BY <1>4, StoryFacts DEF PostTicks, EffectOK
<1>6. PostsNothing
  <2>1. EffectIds' = EffectIds /\ UNCHANGED history
    BY <1>4, <1>5, StoryFacts, SetStatusShape
  <2>2. StoreGrows
    BY <1>4, <1>5, StoryFacts, SetStatusGrows
  <2>3. [Next]_storeVars
    BY <1>4, <1>5 DEF Next, Flushed
  <2>4. MemoryInv'
    BY <2>3, <1>4, StoryFacts, StoreKeepsMemory
  <2>5. /\ LabelsGrow /\ ToldStays /\ CheckpointIds' = CheckpointIds
        /\ checkpoints' = checkpoints
    BY <2>1, <1>4, SameStore DEF history
  <2>6. Len(staged_effects') = Len(staged_effects)
    BY <1>4, StoryFacts, TypeOKIsTypes DEF set_effect_status, Types, TreeInv
  <2> QED
    BY <1>4, <2>1, <2>2, <2>4, <2>5, <2>6 DEF PostsNothing, StoryInv, RowsOK
<1>7. CASE rest = {}
  BY <1>4, <1>6, <1>7, GoesIdle
<1>8. CASE rest # {}
  <2>1. PICK t : t = [u EXCEPT !.pc = "post", !.todo = rest]
    OBVIOUS
  <2>2. ticks' = [ticks EXCEPT ![p] = t]
    BY <1>1, <1>4, <1>8, <2>1
  <2>3. /\ t \in PostTicks(BranchIds, CheckpointIds, EffectIds)
        /\ t.pc = "post" /\ t.branch = u.branch /\ t.head = u.head /\ t.step = u.step
        /\ t.todo = rest
    BY <1>3, <1>4, <2>1 DEF PostTicks
  <2>4. /\ Applied(t) /\ t.step = StepsOf(t.branch) /\ ~IsOriginal(t.branch)
        /\ \A e \in rest : staged_effects[e].branch = t.branch /\ announced[e] = 0
    BY <1>2, <1>3, <1>4, <2>3 DEF Posting, Applied
  <2>5. TickOK(t)
    BY <1>4, <1>8, <2>3, <2>4 DEF TickOK, Posting
  <2> QED
    BY <1>1, <1>4, <1>6, <2>2, <2>3, <2>5, TicksMove, SameHead, QuietMove
<1> QED
  BY <1>7, <1>8

-----------------------------------------------------------------------------
(* The commit of a step.                                                   *)

LEMMA DecidingTick ==
  ASSUME StoryInv, NEW p \in Tickers, ticks[p].pc = "apply"
  PROVE  /\ Deciding(ticks[p]) /\ ticks[p] \in Ticks({"apply"}, BranchIds, CheckpointIds)
         /\ ticks[p].step \in 1 .. StepsOf(ticks[p].branch)
<1>1. TickOK(ticks[p])
  BY DEF StoryInv
<1> QED
  BY <1>1 DEF TickOK, Waiting, Deciding, Posting, Telling, Ticks, PostTicks

(* A step that is still to be applied at the head of its branch is part of *)
(* a story that has not been told.                                         *)
LEMMA NotToldYet ==
  ASSUME StoryInv, NEW t, Deciding(t), t.step \in 1 .. StepsOf(t.branch),
         branches[t.branch].head = t.head
  PROVE  ~Told(t.branch) /\ Silent(t.branch)
<1>1. PICK b, h, k : b = t.branch /\ h = t.head /\ k = t.step
  OBVIOUS
<1>2. b \in BranchIds /\ h \in CheckpointIds /\ k + Base(b) = checkpoints[h].step + 1
  BY <1>1 DEF Deciding, Ticks
<1>3. ~Told(b)
  <2>1. SUFFICES ASSUME Told(b)  PROVE FALSE
    OBVIOUS
  <2>2. checkpoints[h].branch = b /\ labels[h].step = StepsOf(b)
    BY <1>1, <2>1 DEF Told
  <2>3. checkpoints[h].step = StepsOf(b) + Base(b)
    BY <1>2, <2>2, StoryFacts DEF LabelOK
  <2>4. Base(b) \in Nat /\ StepsOf(b) \in Nat /\ k \in Nat /\ k <= StepsOf(b)
    BY <1>1, <1>2, BaseIsNat, StoriesHaveSteps
  <2> QED
    BY <1>2, <2>3, <2>4
<1>4. \A e \in EffectIds : staged_effects[e].branch = b => announced[e] = 0
  BY <1>3, StoryFacts DEF StoryInv, OnlyRecoveryIsAnnounced
<1> QED
  BY <1>1, <1>3, <1>4 DEF Silent

LEMMA ApplyStepKeeps ==
  ASSUME StoryInv, NEW p \in Tickers, ApplyStep(p)
  PROVE  StoryInv'
<1>1. PICK u, b, h, k, n : /\ u = ticks[p] /\ b = u.branch /\ h = u.head /\ k = u.step
                           /\ n = Len(checkpoints) + 1
  OBVIOUS
<1>2. PICK t : t = [u EXCEPT !.pc = "remember", !.head = n]
  OBVIOUS
<1>3. /\ Deciding(u) /\ u \in Ticks({"apply"}, BranchIds, CheckpointIds)
      /\ k \in 1 .. StepsOf(b) /\ b \in BranchIds /\ h \in CheckpointIds
      /\ k + Base(b) = checkpoints[h].step + 1
  BY <1>1, DecidingTick DEF ApplyStep, Commit, At, Deciding, Ticks
<1>4. /\ create_checkpoint(b, NoRows(Keys), NoRows(Paths), h)
      /\ labels' = Append(labels, [story |-> Story(b), step |-> k])
      /\ ticks' = [ticks EXCEPT ![p] = t]
      /\ UNCHANGED <<agent_memory, announced, crashes>>
  BY <1>1, <1>2 DEF ApplyStep, Commit
<1>5. branches[b].head = h /\ h # NULL
  BY <1>3, <1>4, StoryFacts DEF create_checkpoint, CheckpointIds, NULL
<1>6. /\ NewCheckpoint(n, [run |-> branches[b].run, branch |-> b, parent |-> branches[b].head,
                           step |-> checkpoints[branches[b].head].step + 1],
                       NoRows(Keys), NoRows(Paths))
      /\ BranchIds' = BranchIds /\ staged_effects' = staged_effects
      /\ \A a \in BranchIds :
            /\ branches'[a].fork = branches[a].fork
            /\ branches'[a].head = IF a = b THEN n ELSE branches[a].head
  BY <1>1, <1>3, <1>4, StoryFacts, CommitShape
<1>7. /\ CheckpointIds' = CheckpointIds \cup {n} /\ n \notin CheckpointIds
      /\ Len(checkpoints') = n /\ n \in Nat
      /\ checkpoints'[n].branch = b /\ checkpoints'[n].parent = h
      /\ checkpoints'[n].step = checkpoints[h].step + 1
  BY <1>1, <1>5, <1>6, StoryFacts DEF NewCheckpoint
<1>8. MemoryInv' /\ StoreGrows
  <2>1. Checkpoint(b)
    BY <1>3, <1>4, NoRowsAreRows, FilesOnlyCheckpoint
  <2>2. [Next]_storeVars
    BY <1>3, <2>1 DEF Next
  <2> QED
    BY <2>2, <1>4, StoryFacts, StoreKeepsMemory, StoreStepGrows
<1>9. /\ labels' \in Seq(LabelRows) /\ Len(labels') = n
      /\ labels'[n].story = Story(b) /\ labels'[n].step = k /\ LabelsGrow
  <2>1. PICK S, l : S = LabelRows /\ l = [story |-> Story(b), step |-> k]
    OBVIOUS
  <2>2. l \in S /\ l.story = Story(b) /\ l.step = k
    BY <1>3, <2>1, StoriesHaveSteps DEF LabelRows
  <2>3. labels \in Seq(S) /\ Len(labels) = Len(checkpoints) /\ labels' = Append(labels, l)
    BY <1>4, <2>1 DEF StoryInv, RowsOK
  <2>4. /\ labels' \in Seq(S) /\ Len(labels') = n /\ labels'[n] = l
        /\ \A c \in CheckpointIds : labels'[c] = labels[c]
    BY <1>1, <2>2, <2>3, AppendSeq DEF CheckpointIds
  <2> QED
    BY <2>1, <2>2, <2>4 DEF LabelsGrow
<1>10. ~Told(b) /\ Silent(b)
  BY <1>1, <1>3, <1>5, NotToldYet
<1>11. ToldStays
  <2>1. SUFFICES ASSUME NEW a \in BranchIds, Told(a)  PROVE Told(a)'
    BY DEF ToldStays
  <2>2. a # b
    BY <1>10, <2>1
  <2>3. PICK c \in CheckpointIds : c = branches[a].head
    BY StoryFacts, StoreFacts
  <2>4. checkpoints'[c] = checkpoints[c] /\ labels'[c] = labels[c] /\ branches'[a].head = c
    BY <1>6, <1>8, <1>9, <2>2, <2>3 DEF StoreGrows, OldCheckpointsStay, LabelsGrow
  <2> QED
    BY <1>8, <2>1, <2>3, <2>4, BranchesStay DEF Told
<1>12. /\ IsOriginal(b)' = IsOriginal(b) /\ Base(b)' = Base(b) /\ Story(b)' = Story(b)
       /\ StepsOf(b)' = StepsOf(b) /\ branches'[b].fork = branches[b].fork
  BY <1>3, <1>8, BranchesStay
<1>13. LabelOK(n)'
  <2>1. checkpoints'[n].step = labels'[n].step + Base(b)'
    BY <1>3, <1>7, <1>9, <1>12
  <2>2. branches[b].fork # NULL => branches[b].fork < n
    BY <1>1, <1>3, StoryFacts, StoreFacts DEF CheckpointIds
  <2>3. checkpoints[h].branch = b \/ h = branches[b].fork
    BY <1>3, <1>5, StoryFacts, HeadIsOwn
  <2>4. checkpoints'[h] = checkpoints[h]
    BY <1>3, <1>8 DEF StoreGrows, OldCheckpointsStay
  <2> QED
    BY <1>5, <1>7, <1>9, <1>12, <2>1, <2>2, <2>3, <2>4 DEF LabelOK
<1>14. PostsNothing
  <2>1. EffectIds' = EffectIds
    BY <1>6 DEF EffectIds
  <2> QED
    BY <1>4, <1>6, <1>7, <1>8, <1>9, <1>11, <1>13, <2>1 DEF PostsNothing, StoryInv, RowsOK
<1>15. /\ t \in Ticks({"remember", "stage", "flush"}, BranchIds', CheckpointIds')
       /\ t.pc = "remember" /\ t.branch = b /\ t.head = n /\ t.step = k
  BY <1>1, <1>2, <1>3, <1>6, <1>7 DEF Ticks
<1>16. TickOK(t)'
  <2>1. k = StepsOf(b) => Told(b)'
    BY <1>3, <1>6, <1>7, <1>9, <1>12 DEF Told
  <2>2. Silent(b)'
    BY <1>4, <1>6, <1>10 DEF Silent, EffectIds
  <2>3. Applied(t)'
    BY <1>7, <1>9, <1>12, <1>15, <2>1 DEF Applied
  <2>4. Telling(t)'
    BY <1>15, <2>2, <2>3 DEF Telling
  <2> QED
    BY <1>3, <1>12, <1>15, <2>4 DEF TickOK
<1>17. ASSUME NEW q \in Tickers, HasApplied(q)  PROVE ticks[q].head # n
  <2>1. TickOK(ticks[q]) /\ ticks[q].pc # "waiting" /\ ticks[q].pc # "apply"
    BY <1>17 DEF StoryInv, HasApplied
  <2>2. ticks[q].head \in CheckpointIds
    BY <2>1 DEF TickOK, Waiting, Deciding, Telling, Posting, Ticks, PostTicks
  <2> QED
    BY <2>2, <1>7
<1> QED
  BY <1>4, <1>14, <1>15, <1>16, <1>17, TicksMove, QuietMove

-----------------------------------------------------------------------------
(* Runs and rewinds.                                                       *)

LEMMA startKeeps ==
  ASSUME StoryInv, start
  PROVE  StoryInv'
<1>1. PICK n, m : n = Len(checkpoints) + 1 /\ m = Len(branches) + 1
  OBVIOUS
<1>2. /\ create_run /\ labels' = Append(labels, [story |-> "genesis", step |-> 0])
      /\ UNCHANGED <<agent_memory, ticks, announced, crashes>>
  BY DEF start
<1>3. /\ NewCheckpoint(n, [run |-> runs + 1, branch |-> m, parent |-> NULL, step |-> 0],
                       NoRows(Keys), NoRows(Paths))
      /\ NewBranch(m, [run |-> runs + 1, status |-> "active", head |-> n,
                       fork |-> NULL, of |-> NULL])
      /\ (\A b \in BranchIds : branches'[b] = branches[b]) /\ staged_effects' = staged_effects
  BY <1>1, <1>2, StoryFacts, CreateRunShape
<1>4. /\ CheckpointIds' = CheckpointIds \cup {n} /\ Len(checkpoints') = n
      /\ checkpoints'[n].branch = m /\ checkpoints'[n].parent = NULL
      /\ checkpoints'[n].step = 0 /\ branches'[m].fork = NULL
  BY <1>3 DEF NewCheckpoint, NewBranch
<1>5. MemoryInv' /\ StoreGrows
  BY <1>2, StoryFacts, StoreKeepsMemory, StoreStepGrows DEF Next
<1>6. labels' \in Seq(LabelRows) /\ Len(labels') = n /\ labels'[n].step = 0 /\ LabelsGrow
  <2>1. PICK S, l : S = LabelRows /\ l = [story |-> "genesis", step |-> 0]
    OBVIOUS
  <2>2. l \in S /\ l.step = 0
    BY <2>1 DEF LabelRows
  <2>3. labels \in Seq(S) /\ Len(labels) = Len(checkpoints) /\ labels' = Append(labels, l)
    BY <1>2, <2>1 DEF StoryInv, RowsOK
  <2>4. /\ labels' \in Seq(S) /\ Len(labels') = n /\ labels'[n] = l
        /\ \A c \in CheckpointIds : labels'[c] = labels[c]
    BY <1>1, <2>2, <2>3, AppendSeq DEF CheckpointIds
  <2> QED
    BY <2>1, <2>2, <2>4 DEF LabelsGrow
<1>7. ToldStays
  <2>1. SUFFICES ASSUME NEW a \in BranchIds, Told(a)  PROVE Told(a)'
    BY DEF ToldStays
  <2>2. PICK c \in CheckpointIds : c = branches[a].head
    BY StoryFacts, StoreFacts
  <2>3. checkpoints'[c] = checkpoints[c] /\ labels'[c] = labels[c] /\ branches'[a].head = c
    BY <1>3, <1>5, <1>6, <2>2 DEF StoreGrows, OldCheckpointsStay, LabelsGrow
  <2> QED
    BY <1>5, <2>1, <2>2, <2>3, BranchesStay DEF Told
<1>8. LabelOK(n)'
  BY <1>4, <1>6 DEF LabelOK, Base, IsOriginal
<1>9. PostsNothing
  <2>1. EffectIds' = EffectIds
    BY <1>3 DEF EffectIds
  <2> QED
    BY <1>2, <1>3, <1>4, <1>5, <1>6, <1>7, <1>8, <2>1 DEF PostsNothing, StoryInv, RowsOK
<1> QED
  BY <1>2, <1>9, QuietStill

LEMMA OperatorRewindsKeeps ==
  ASSUME StoryInv, OperatorRewinds
  PROVE  StoryInv'
<1>1. PICK b \in BranchIds, target \in CheckpointIds : rewind(b, target)
  BY DEF OperatorRewinds
<1>2. UNCHANGED <<agent_memory, labels, ticks, announced>>
  BY DEF OperatorRewinds
<1>3. PICK m : m = Len(branches) + 1
  OBVIOUS
<1>4. /\ checkpoints' = checkpoints /\ CheckpointIds' = CheckpointIds
      /\ \A a \in BranchIds : branches'[a].head = branches[a].head
  BY <1>1, <1>3, StoryFacts, RewindShape
<1>5. MemoryInv' /\ StoreGrows
  BY <1>1, <1>2, StoryFacts, StoreKeepsMemory, StoreStepGrows DEF Next
<1>6. LabelsGrow /\ ToldStays
  BY <1>2, <1>4, <1>5, BranchesStay DEF LabelsGrow, ToldStays, Told
<1>7. EffectIds' = EffectIds /\ Len(staged_effects') = Len(staged_effects)
  <2>1. DOMAIN staged_effects' = EffectIds
    BY <1>1 DEF rewind
  <2>2. staged_effects' \in Seq(EffectRows(Len(branches'), Len(checkpoints')))
    BY <1>5, TypeOKPrime DEF MemoryInv, StoreInv, TreeInv, Types
  <2>3. Len(staged_effects') \in Nat /\ 1 .. Len(staged_effects') = 1 .. Len(staged_effects)
    BY <2>1, <2>2 DEF EffectIds
  <2> QED
    BY <2>3, StoryFacts DEF EffectIds
<1>8. PostsNothing
  BY <1>2, <1>4, <1>5, <1>6, <1>7 DEF PostsNothing, StoryInv, RowsOK
<1> QED
  BY <1>2, <1>8, QuietStill

-----------------------------------------------------------------------------
(* The invariant and what it implies.                                      *)

LEMMA StoryInitial == StoryInit => StoryInv
<1> SUFFICES ASSUME StoryInit  PROVE StoryInv
  OBVIOUS
<1>1. /\ MemoryInv /\ labels = <<>> /\ ticks = [p \in Tickers |-> Waiting]
      /\ announced = [e \in 1 .. MaxEffects |-> 0]
      /\ checkpoints = <<>> /\ staged_effects = <<>>
  BY MemoryInitial DEF StoryInit, MemoryInit, Init
<1>2. CheckpointIds = {} /\ EffectIds = {} /\ Len(staged_effects) = 0
  BY <1>1, EmptySeq DEF CheckpointIds, EffectIds
<1>3. RowsOK
  BY <1>1, <1>2, EmptySeq, BoundsAreNumbers DEF RowsOK
<1>4. \A p \in Tickers : TickOK(ticks[p]) /\ ~HasApplied(p)
  BY <1>1 DEF TickOK, HasApplied, Waiting
<1> QED
  BY <1>1, <1>2, <1>3, <1>4 DEF StoryInv, OneEach, OnlyRecoveryIsAnnounced

LEMMA StoryStep == StoryInv /\ [StoryNext]_storyVars => StoryInv'
<1> SUFFICES ASSUME StoryInv, [StoryNext]_storyVars  PROVE StoryInv'
  OBVIOUS
<1>1. CASE UNCHANGED storyVars
  BY <1>1, SameMemoryIsQuiet, QuietStill DEF storyVars
<1>2. CASE start
  BY <1>2, startKeeps
<1>3. CASE OperatorRewinds
  BY <1>3, OperatorRewindsKeeps
<1>4. ASSUME NEW p \in Tickers, Tick(p) \/ Crash(p)
      PROVE  StoryInv'
  <2>1. ASSUME NEW r \in 1 .. runs, NEW b \in BranchIds, Decide(p, r, b)  PROVE StoryInv'
    BY <2>1, DecideKeeps
  <2>2. CASE ApplyStep(p)
    BY <2>2, ApplyStepKeeps
  <2>3. CASE LoseRace(p) \/ Crash(p)
    BY <2>3, IdleKeeps
  <2>4. CASE RememberStep(p)
    BY <2>4, RememberStepKeeps
  <2>5. CASE StageMessage(p)
    BY <2>5, StageMessageKeeps
  <2>6. CASE ListMessages(p)
    BY <2>6, ListMessagesKeeps
  <2>7. CASE PostMessage(p)
    BY <2>7, PostMessageKeeps
  <2>8. CASE MarkMessage(p)
    BY <2>8, MarkMessageKeeps
  <2> QED
    BY <1>4, <2>1, <2>2, <2>3, <2>4, <2>5, <2>6, <2>7, <2>8 DEF Tick
<1> QED
  BY <1>1, <1>2, <1>3, <1>4 DEF StoryNext

LEMMA StoryInvariant == StorySpec => []StoryInv
  BY StoryInitial, StoryStep, PTL DEF StorySpec

(* A tick in progress always names a branch, a head and a step that exist, *)
(* and effects still to be posted.                                         *)
THEOREM StoryTypeCorrectness == StorySpec => []StoryTypeOK
<1>1. StoryInv => StoryTypeOK
  <2> SUFFICES ASSUME StoryInv  PROVE StoryTypeOK
    OBVIOUS
  <2>1. MemoryTypeOK /\ announced \in [1 .. MaxEffects -> Nat]
    BY DEF StoryInv, MemoryInv, RowsOK
  <2>2. /\ labels \in Seq([story : Stories \cup {"genesis"}, step : Nat])
        /\ Len(labels) = Len(checkpoints)
    BY DEF StoryInv, RowsOK, LabelRows
  <2>3. ASSUME NEW p \in Tickers, ticks[p] # Waiting
        PROVE  /\ ticks[p].branch \in BranchIds
               /\ ticks[p].step \in 1 .. StepsOf(ticks[p].branch)
               /\ ticks[p].head \in CheckpointIds
               /\ At(p, "post") \/ At(p, "mark") => ticks[p].todo \in (SUBSET EffectIds) \ {{}}
    <3>1. TickOK(ticks[p])
      BY DEF StoryInv
    <3>2. CASE Posting(ticks[p])
      BY <3>1, <3>2, <2>3 DEF TickOK, Posting, PostTicks
    <3>3. CASE Deciding(ticks[p]) \/ Telling(ticks[p])
      BY <3>1, <3>3, <2>3 DEF TickOK, Deciding, Telling, Ticks, At
    <3> QED
      BY <3>1, <3>2, <3>3, <2>3 DEF TickOK
  <2> QED
    BY <2>1, <2>2, <2>3 DEF StoryTypeOK, StoryInv
<1> QED
  BY <1>1, StoryInvariant, PTL

(* Whatever tickers race and whichever of them die, every branch tells the *)
(* steps of its story one after the other, each in one commit.             *)
THEOREM StoriesAreToldInOrder == StorySpec => []StoryInOrder
<1>1. StoryInv => StoryInOrder
  <2> SUFFICES ASSUME StoryInv, NEW c \in CheckpointIds, NEW b, NEW d,
                      b = checkpoints[c].branch, d = checkpoints[c].parent, d # NULL
               PROVE  /\ labels[c].story = Story(b)
                      /\ labels[c].step = IF checkpoints[d].branch = b
                                          THEN labels[d].step + 1 ELSE 1
    BY DEF StoryInOrder
  <2>1. /\ b \in BranchIds /\ d \in CheckpointIds /\ LabelOK(c) /\ LabelOK(d)
        /\ labels[c].step \in Nat /\ labels[d].step \in Nat /\ Base(b) \in Nat
        /\ checkpoints[d].step \in Nat
    BY StoryFacts, BaseIsNat
  <2>2. /\ labels[c].story = Story(b) /\ checkpoints[c].step = checkpoints[d].step + 1
        /\ checkpoints[c].step = labels[c].step + Base(b)
        /\ checkpoints[d].branch = b \/ d = branches[b].fork
    BY <2>1 DEF LabelOK
  <2>3. CASE checkpoints[d].branch = b
    BY <2>1, <2>2, <2>3 DEF LabelOK
  <2>4. CASE checkpoints[d].branch # b
    <3>1. Base(b) = checkpoints[d].step
      BY <2>2, <2>4 DEF Base, IsOriginal
    <3> QED
      BY <2>1, <2>2, <2>4, <3>1
  <2> QED
    BY <2>3, <2>4
<1> QED
  BY <1>1, StoryInvariant, PTL

(* No message of the poisoned branch ever leaves the sandbox, and one of a *)
(* recovery leaves it once, when the recovery has been told to its end.    *)
THEOREM RecoveriesAreAnnounced == StorySpec => []OnlyRecoveryIsAnnounced
<1>1. StoryInv => OnlyRecoveryIsAnnounced
  BY DEF StoryInv
<1> QED
  BY <1>1, StoryInvariant, PTL

-----------------------------------------------------------------------------
(* The storyboard uses the store and the memory as their modules say.      *)

LEMMA StoryMemoryStep ==
  ASSUME StoryInv, [StoryNext]_storyVars
  PROVE  [MemoryNext]_memoryVars
<1>1. CASE UNCHANGED storyVars
  BY <1>1 DEF storyVars
<1>2. CASE start
  BY <1>2 DEF start, MemoryNext, Next
<1>3. CASE OperatorRewinds
  BY <1>3 DEF OperatorRewinds, MemoryNext, Next
<1>4. ASSUME NEW p \in Tickers, ApplyStep(p)  PROVE [MemoryNext]_memoryVars
  <2>1. PICK b, h : b = ticks[p].branch /\ h = ticks[p].head
    OBVIOUS
  <2>2. b \in BranchIds /\ h \in CheckpointIds
    BY <1>4, <2>1, DecidingTick DEF ApplyStep, Commit, At, Deciding, Ticks
  <2>3. create_checkpoint(b, NoRows(Keys), NoRows(Paths), h) /\ agent_memory' = agent_memory
    BY <1>4, <2>1 DEF ApplyStep, Commit
  <2>4. Checkpoint(b)
    BY <2>2, <2>3, NoRowsAreRows, FilesOnlyCheckpoint
  <2> QED
    BY <2>2, <2>3, <2>4 DEF MemoryNext, Next
<1>5. ASSUME NEW p \in Tickers, RememberStep(p)  PROVE [MemoryNext]_memoryVars
  BY <1>5, TellingTick DEF RememberStep, At, Ticks, MemoryNext
<1>6. ASSUME NEW p \in Tickers, StageMessage(p)  PROVE [MemoryNext]_memoryVars
  <2>1. ticks[p].branch \in BranchIds
    BY <1>6, TellingTick DEF StageMessage, At, Ticks
  <2> QED
    BY <1>6, <2>1 DEF StageMessage, MemoryNext, Next, Record, memoryVars
<1>7. ASSUME NEW p \in Tickers, MarkMessage(p)  PROVE [MemoryNext]_memoryVars
  <2>1. PICK f : f = FirstListed(p)
    OBVIOUS
  <2>2. f = First(ticks[p].todo)
    BY <2>1 DEF FirstListed, First
  <2>3. f \in ticks[p].todo /\ ticks[p].todo \subseteq EffectIds
    BY <1>7, <2>2, PostingTick DEF MarkMessage, At, PostTicks
  <2>4. f \in EffectIds /\ staged_effects[f].mode = "staged"
    BY <2>3, StoryFacts DEF EffectOK
  <2>5. set_effect_status(f, "committed") /\ agent_memory' = agent_memory
    BY <1>7, <2>1 DEF MarkMessage
  <2> QED
    BY <2>4, <2>5 DEF MemoryNext, Next, Flushed
<1>8. ASSUME NEW p \in Tickers, NEW r \in 1 .. runs, NEW b \in BranchIds, Decide(p, r, b)
      PROVE  UNCHANGED memoryVars
  BY <1>8 DEF Decide
<1>9. ASSUME NEW p \in Tickers, LoseRace(p) \/ ListMessages(p) \/ PostMessage(p) \/ Crash(p)
      PROVE  UNCHANGED memoryVars
  BY <1>9 DEF LoseRace, ListMessages, PostMessage, Crash
<1> QED
  BY <1>1, <1>2, <1>3, <1>4, <1>5, <1>6, <1>7, <1>8, <1>9 DEF StoryNext, Tick

(* Racing and dying tickers do to the store and to agent_memory only what  *)
(* VectorMemory allows: what is proved of memories and of the store holds  *)
(* of the story.                                                           *)
THEOREM StoryRunsTheStore == StorySpec => MemorySpec /\ Spec
<1>1. StoryInit => MemoryInit
  BY DEF StoryInit
<1>2. StoryInv /\ [StoryNext]_storyVars => [MemoryNext]_memoryVars
  BY StoryMemoryStep
<1>3. StorySpec => MemorySpec
  BY <1>1, <1>2, StoryInvariant, PTL DEF StorySpec, MemorySpec
<1> QED
  BY <1>3, MemoryRunsTheStore
=============================================================================
