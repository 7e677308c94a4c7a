------------------------- MODULE VectorMemoryProofs -------------------------
(***************************************************************************)
(* Proofs about VectorMemory, for every store, every set of facts and      *)
(* every k: nothing that is remembered is lost to its branch, nothing is   *)
(* recalled from elsewhere, and the indexed search agrees with the exact   *)
(* one where its index misses no best answer.                              *)
(***************************************************************************)
EXTENDS VectorMemory, RewindStoreProofs, FiniteSetTheorems

MemoryRows(B, C) == [branch : B, checkpoint : C, fact : Facts]

(* A row of agent_memory hangs on a head that its branch had at some time. *)
RowsAtHeads == \A m \in MemoryIds : agent_memory[m].checkpoint \in PastHeads(agent_memory[m].branch)

MemoryInv == MemoryTypeOK /\ StoreInv /\ RowsAtHeads

LEMMA MemoryRowTypes ==
  ASSUME MemoryTypeOK
  PROVE  /\ agent_memory \in Seq(MemoryRows(BranchIds, CheckpointIds))
         /\ Len(agent_memory) \in Nat
         /\ \A m \in MemoryIds : /\ agent_memory[m] \in MemoryRows(BranchIds, CheckpointIds)
                                 /\ agent_memory[m].branch \in BranchIds
                                 /\ agent_memory[m].checkpoint \in CheckpointIds
                                 /\ agent_memory[m].fact \in Facts
<1>1. agent_memory \in Seq(MemoryRows(BranchIds, CheckpointIds))
  BY DEF MemoryTypeOK, MemoryRows
<1>2. \A m \in MemoryIds : agent_memory[m] \in MemoryRows(BranchIds, CheckpointIds)
  BY <1>1 DEF MemoryIds
<1> QED
  BY <1>1, <1>2 DEF MemoryRows

LEMMA StoreKeepsMemory ==
  ASSUME MemoryInv, [Next]_storeVars, UNCHANGED agent_memory
  PROVE  MemoryInv'
<1>1. StoreInv' /\ StoreGrows
  BY StoreStep, StoreStepGrows DEF MemoryInv, StoreInv
<1>2. MemoryTypeOK'
  <2>1. MemoryRows(BranchIds, CheckpointIds) \subseteq MemoryRows(BranchIds', CheckpointIds')
    BY <1>1 DEF StoreGrows, MemoryRows
  <2>2. agent_memory' \in Seq(MemoryRows(BranchIds', CheckpointIds'))
    BY <2>1, MemoryRowTypes DEF MemoryInv, MemoryIds
  <2> QED
    BY <1>1, <2>2 DEF MemoryTypeOK, MemoryRows, StoreInv, TreeInv
<1>3. RowsAtHeads'
  <2>1. MemoryIds' = MemoryIds
    BY DEF MemoryIds
  <2>2. ASSUME NEW m \in MemoryIds
        PROVE  agent_memory'[m].checkpoint \in PastHeads(agent_memory[m].branch)'
    <3>1. PICK b \in BranchIds : b = agent_memory[m].branch
      BY MemoryRowTypes DEF MemoryInv
    <3>2. agent_memory[m].checkpoint \in PastHeads(b)
      BY <3>1 DEF MemoryInv, RowsAtHeads
    <3>3. agent_memory[m].checkpoint \in PastHeads(b)'
      BY <3>2, <1>1, PastHeadsStay DEF MemoryInv
    <3> QED
      BY <3>1, <3>3 DEF PastHeads
  <2> QED
    BY <2>1, <2>2 DEF RowsAtHeads
<1> QED
  BY <1>1, <1>2, <1>3 DEF MemoryInv

LEMMA RememberKeepsMemory ==
  ASSUME MemoryInv, NEW b \in BranchIds, NEW c \in CheckpointIds, NEW fact \in Facts,
         remember(b, c, fact)
  PROVE  MemoryInv'
<1> DEFINE row == [branch |-> b, checkpoint |-> c, fact |-> fact]
           n == Len(agent_memory) + 1
<1>1. /\ c \in PastHeads(b) /\ agent_memory' = Append(agent_memory, row) /\ UNCHANGED storeVars
  BY DEF remember
<1>2. row \in MemoryRows(BranchIds, CheckpointIds) /\ row.branch = b /\ row.checkpoint = c
  BY DEF MemoryRows
<1> HIDE DEF row
<1>3. /\ agent_memory' \in Seq(MemoryRows(BranchIds, CheckpointIds))
      /\ MemoryIds' = MemoryIds \cup {n} /\ agent_memory'[n] = row
      /\ \A m \in MemoryIds : agent_memory'[m] = agent_memory[m]
  BY <1>1, <1>2, MemoryRowTypes DEF MemoryInv, MemoryIds
<1>4. StoreInv' /\ BranchIds' = BranchIds /\ CheckpointIds' = CheckpointIds
  BY <1>1, StoreStep DEF MemoryInv, storeVars, BranchIds, CheckpointIds
<1>5. MemoryTypeOK'
  BY <1>3, <1>4 DEF MemoryTypeOK, MemoryRows, StoreInv, TreeInv
<1>6. \A a : PastHeads(a)' = PastHeads(a)
  BY <1>1, <1>4 DEF PastHeads, storeVars
<1>7. RowsAtHeads'
  BY <1>1, <1>2, <1>3, <1>6 DEF MemoryInv, RowsAtHeads
<1> QED
  BY <1>4, <1>5, <1>7 DEF MemoryInv

LEMMA MemoryInitial == MemoryInit => MemoryInv
<1> SUFFICES ASSUME MemoryInit  PROVE MemoryInv
  OBVIOUS
<1>1. StoreInv /\ agent_memory = <<>>
  BY StoreInit DEF MemoryInit
<1>2. MemoryIds = {}
  BY <1>1, EmptySeq DEF MemoryIds
<1> QED
  BY <1>1, <1>2 DEF MemoryInv, MemoryTypeOK, RowsAtHeads, StoreInv, TreeInv

LEMMA MemoryStep == MemoryInv /\ [MemoryNext]_memoryVars => MemoryInv'
<1>1. ASSUME MemoryInv, UNCHANGED memoryVars
      PROVE  MemoryInv'
  BY <1>1, StoreKeepsMemory DEF memoryVars
<1> QED
  BY <1>1, StoreKeepsMemory, RememberKeepsMemory DEF MemoryNext

LEMMA MemoryInvariant == MemorySpec => []MemoryInv
  BY MemoryInitial, MemoryStep, PTL DEF MemorySpec

(* The rows of agent_memory and of the store have their types: a memory    *)
(* always belongs to a branch and a checkpoint that exist.                 *)
THEOREM MemoryTypeCorrectness == MemorySpec => []MemoryTypeOK
<1>1. MemoryInv => MemoryTypeOK
  BY DEF MemoryInv
<1> QED
  BY <1>1, MemoryInvariant, PTL

-----------------------------------------------------------------------------
(* What a branch recalls.                                                  *)

LEMMA RowIsOnLineage ==
  ASSUME MemoryInv, NEW m \in MemoryIds
  PROVE  /\ agent_memory[m].branch \in BranchIds /\ agent_memory[m].checkpoint \in CheckpointIds
         /\ agent_memory[m].checkpoint \in lineage[branches[agent_memory[m].branch].head]
         /\ RunOf(agent_memory[m].checkpoint) = branches[agent_memory[m].branch].run
<1>1. agent_memory[m].branch \in BranchIds
  BY MemoryRowTypes DEF MemoryInv
<1>2. agent_memory[m].checkpoint \in PastHeads(agent_memory[m].branch)
  BY DEF MemoryInv, RowsAtHeads
<1> QED
  BY <1>1, <1>2, PastHeadsAreAncestors DEF MemoryInv

(* remember attaches a memory to a head read before the embedder ran; it   *)
(* can be recalled at the branch's head all the same, for good.            *)
THEOREM MemoriesAreKept == MemorySpec => []NothingForgotten
<1>1. MemoryInv => NothingForgotten
  BY RowIsOnLineage DEF NothingForgotten, memories_at
<1> QED
  BY <1>1, MemoryInvariant, PTL

(* No branch recalls what another learned beyond the checkpoints that both *)
(* share: a rewind makes the agent forget.                                 *)
THEOREM MemoriesComeFromAncestors == MemorySpec => []MemoriesAreInherited
<1>1. MemoryInv => MemoriesAreInherited
  <2> SUFFICES ASSUME MemoryInv, NEW b \in BranchIds, NEW m \in memories_at(branches[b].head)
               PROVE  LET row == agent_memory[m]
                      IN  \/ row.branch = b
                          \/ branches[b].fork # NULL /\ row.checkpoint \in lineage[branches[b].fork]
                          \/ /\ row.checkpoint = branches[row.branch].fork
                             /\ checkpoints[row.checkpoint].branch = b
    BY DEF MemoriesAreInherited
  <2>1. /\ m \in MemoryIds /\ agent_memory[m].checkpoint \in lineage[branches[b].head]
    BY DEF memories_at
  <2>2. \/ checkpoints[agent_memory[m].checkpoint].branch = b
        \/ branches[b].fork # NULL /\ agent_memory[m].checkpoint \in lineage[branches[b].fork]
    BY <2>1 DEF MemoryInv, StoreInv, OwnLineage
  <2>3. \/ agent_memory[m].checkpoint = branches[agent_memory[m].branch].fork
        \/ checkpoints[agent_memory[m].checkpoint].branch = agent_memory[m].branch
    BY <2>1 DEF MemoryInv, RowsAtHeads, PastHeads
  <2> QED
    BY <2>2, <2>3
<1> QED
  BY <1>1, MemoryInvariant, PTL

-----------------------------------------------------------------------------
(* The indexed search.                                                     *)

LEMMA NearestFacts ==
  ASSUME NEW S, IsFiniteSet(S), NEW q, NEW n \in Nat, NEW T \in Nearest(S, q, n)
  PROVE  /\ T \subseteq S /\ IsFiniteSet(T)
         /\ Cardinality(S) \in Nat /\ Cardinality(T) \in Nat
         /\ Cardinality(T) = IF Cardinality(S) < n THEN Cardinality(S) ELSE n
         /\ \A t \in T, s \in S \ T : Distance(t, q) <= Distance(s, q)
<1>1. T \subseteq S
  BY DEF Nearest
<1> QED
  BY <1>1, FS_Subset, FS_CardinalityType DEF Nearest

LEMMA DistancesAreNumbers ==
  ASSUME MemoryInv, NEW m \in MemoryIds, NEW q \in Facts
  PROVE  Distance(m, q) \in Nat
<1>1. agent_memory[m].fact \in Nat /\ q \in Nat
  BY MemoryRowTypes, FactsAreNumbers DEF MemoryInv
<1> QED
  BY <1>1 DEF Distance

(* A best answer that was fetched outranks whatever else was fetched: the  *)
(* k nearest of the fetched rows are a best answer too.                    *)
LEMMA BestIsReturned ==
  ASSUME NEW M, IsFiniteSet(M), NEW q, NEW k \in Nat, NEW rows,
         \A m \in M : Distance(m, q) \in Nat,
         NEW best \in Nearest(M, q, k), best \subseteq rows,
         NEW hits \in Nearest(rows \cap M, q, k)
  PROVE  hits \in Nearest(M, q, k)
<1>1. PICK F : F = rows \cap M
  OBVIOUS
<1>2. /\ F \subseteq M /\ IsFiniteSet(F) /\ best \subseteq F
      /\ Cardinality(F) \in Nat /\ Cardinality(M) \in Nat /\ Cardinality(F) <= Cardinality(M)
  BY <1>1, FS_Subset, FS_CardinalityType, NearestFacts
<1>3. /\ Cardinality(best) \in Nat /\ best \subseteq M
      /\ Cardinality(best) = IF Cardinality(M) < k THEN Cardinality(M) ELSE k
      /\ \A t \in best, s \in M \ best : Distance(t, q) <= Distance(s, q)
  BY NearestFacts
<1>4. /\ hits \subseteq F /\ IsFiniteSet(hits)
      /\ Cardinality(hits) = IF Cardinality(F) < k THEN Cardinality(F) ELSE k
      /\ \A t \in hits, s \in F \ hits : Distance(t, q) <= Distance(s, q)
  <2>1. hits \in Nearest(F, q, k)
    BY <1>1
  <2> QED
    BY <2>1, <1>2, NearestFacts
<1>5. Cardinality(best) <= Cardinality(F)
  BY <1>2, FS_Subset
<1>6. Cardinality(hits) = Cardinality(best)
  BY <1>2, <1>3, <1>4, <1>5
<1>7. ASSUME NEW t \in hits, NEW s \in M \ hits
      PROVE  Distance(t, q) <= Distance(s, q)
  <2>1. CASE s \in F
    BY <2>1, <1>4
  <2>2. CASE s \notin F /\ t \in best
    BY <2>2, <1>2, <1>3
  <2>3. CASE s \notin F /\ t \notin best
    <3>1. ~(best \subseteq hits)
      <4>1. SUFFICES ASSUME best \subseteq hits  PROVE FALSE
        OBVIOUS
      <4>2. best = hits
        BY <4>1, <1>4, <1>6, FS_Subset
      <4> QED
        BY <4>2, <2>3
    <3>2. PICK x \in best : x \notin hits
      BY <3>1
    <3>3. Distance(t, q) <= Distance(x, q) /\ Distance(x, q) <= Distance(s, q)
      BY <3>2, <2>3, <1>2, <1>3, <1>4
    <3>4. Distance(t, q) \in Nat /\ Distance(x, q) \in Nat /\ Distance(s, q) \in Nat
      BY <3>2, <1>2, <1>3, <1>4
    <3> QED
      BY <3>3, <3>4
  <2> QED
    BY <2>1, <2>2, <2>3
<1> QED
  BY <1>2, <1>3, <1>4, <1>6, <1>7 DEF Nearest

(* A search that ranks a set R exactly returns the k best of a part M of R *)
(* when the rest of R leaves room for k rows among the f fetched.          *)
LEMMA NothingIsCrowdedOut ==
  ASSUME NEW R, IsFiniteSet(R), NEW M \in SUBSET R, NEW q, NEW f \in Nat, NEW k \in Nat,
         Cardinality(R \ M) + k <= f,
         NEW rows \in Nearest(R, q, f), NEW hits \in Nearest(rows \cap M, q, k)
  PROVE  hits \in Nearest(M, q, k)
<1>1. /\ rows \subseteq R /\ IsFiniteSet(rows) /\ Cardinality(R) \in Nat
      /\ Cardinality(rows) \in Nat
      /\ Cardinality(rows) = IF Cardinality(R) < f THEN Cardinality(R) ELSE f
      /\ \A t \in rows, s \in R \ rows : Distance(t, q) <= Distance(s, q)
  BY NearestFacts
<1>2. CASE Cardinality(R) < f
  <2>1. rows = R
    BY <1>1, <1>2, FS_Subset
  <2>2. rows \cap M = M
    BY <2>1
  <2> QED
    BY <2>2
<1>3. CASE ~(Cardinality(R) < f)
  <2>1. PICK F : F = rows \cap M
    OBVIOUS
  <2>2. /\ IsFiniteSet(F) /\ IsFiniteSet(M) /\ F \subseteq M
        /\ Cardinality(F) \in Nat /\ Cardinality(M) \in Nat
        /\ Cardinality(F) <= Cardinality(M)
    <3>1. IsFiniteSet(M) /\ F \subseteq M
      BY <2>1, FS_Subset
    <3> QED
      BY <3>1, FS_Subset, FS_CardinalityType
  <2>3. k <= Cardinality(F)
    <3>1. Cardinality(rows \ M) = Cardinality(rows) - Cardinality(F)
      BY <1>1, <2>1, FS_Difference
    <3>2. /\ IsFiniteSet(R \ M) /\ Cardinality(R \ M) \in Nat
          /\ Cardinality(rows \ M) <= Cardinality(R \ M)
      <4>1. IsFiniteSet(R \ M) /\ rows \ M \subseteq R \ M
        BY <1>1, FS_Difference
      <4> QED
        BY <4>1, FS_Subset, FS_CardinalityType
    <3> QED
      BY <3>1, <3>2, <2>2, <1>1, <1>3
  <2>4. /\ hits \subseteq F
        /\ Cardinality(hits) = IF Cardinality(F) < k THEN Cardinality(F) ELSE k
        /\ \A t \in hits, s \in F \ hits : Distance(t, q) <= Distance(s, q)
    <3>1. hits \in Nearest(F, q, k)
      BY <2>1
    <3> QED
      BY <3>1, <2>2, NearestFacts
  <2>5. Cardinality(hits) = IF Cardinality(M) < k THEN Cardinality(M) ELSE k
    BY <2>2, <2>3, <2>4
  <2>6. \A t \in hits, s \in M \ hits : Distance(t, q) <= Distance(s, q)
    BY <1>1, <2>1, <2>4
  <2> QED
    BY <2>2, <2>4, <2>5, <2>6 DEF Nearest
<1> QED
  BY <1>2, <1>3

(* The memories of a lineage are memories of its run.                      *)
LEMMA LineageIsOfRun ==
  ASSUME MemoryInv, NEW c \in CheckpointIds
  PROVE  memories_at(c) \subseteq OfRun(RunOf(c))
<1> SUFFICES ASSUME NEW m \in MemoryIds, agent_memory[m].checkpoint \in lineage[c]
             PROVE  branches[agent_memory[m].branch].run = RunOf(c)
  BY DEF memories_at, OfRun
<1>1. RunOf(agent_memory[m].checkpoint) = RunOf(c)
  BY DEF MemoryInv, StoreInv, TreeInv, LineageIsChain
<1> QED
  BY <1>1, RowIsOnLineage

(* The indexed search stays on the lineage, and agrees with the exact one  *)
(* whenever its approximate index did not miss a best answer, or an exact  *)
(* ranking of the run left room for k rows of the lineage.                 *)
THEOREM IndexedSearchIsSound == MemorySpec => []IndexedRecallAgrees
<1>1. MemoryInv => IndexedRecallAgrees
  <2> SUFFICES ASSUME MemoryInv, NEW c \in CheckpointIds, NEW q \in Facts,
                      NEW rows \in Fetched(RunOf(c)), NEW hits \in recall_indexed(rows, c, q)
               PROVE  /\ hits \subseteq memories_at(c)
                      /\ (\E best \in recall_in_process(c, q) : best \subseteq rows) =>
                            hits \in recall_in_process(c, q)
                      /\ rows \in ExactlyFetched(RunOf(c), q)
                            /\ Cardinality(OfRun(RunOf(c)) \ memories_at(c)) + K <= OverFetch =>
                            hits \in recall_in_process(c, q)
    BY DEF IndexedRecallAgrees
  <2>1. hits \in Nearest(rows \cap memories_at(c), q, K)
    BY DEF recall_indexed
  <2>2. IsFiniteSet(OfRun(RunOf(c))) /\ IsFiniteSet(memories_at(c))
    <3>1. IsFiniteSet(MemoryIds)
      BY MemoryRowTypes, FS_Interval DEF MemoryInv, MemoryIds
    <3> QED
      BY <3>1, FS_Subset DEF OfRun, memories_at
  <2>3. memories_at(c) \subseteq OfRun(RunOf(c))
    BY LineageIsOfRun
  <2>4. \A m \in memories_at(c) : Distance(m, q) \in Nat
    BY DistancesAreNumbers DEF memories_at
  <2>5. hits \subseteq memories_at(c)
    BY <2>1 DEF Nearest
  <2>6. ASSUME NEW best \in recall_in_process(c, q), best \subseteq rows
        PROVE  hits \in recall_in_process(c, q)
    BY <2>1, <2>2, <2>4, <2>6, OverFetchCoversK, BestIsReturned DEF recall_in_process
  <2>7. ASSUME rows \in ExactlyFetched(RunOf(c), q),
               Cardinality(OfRun(RunOf(c)) \ memories_at(c)) + K <= OverFetch
        PROVE  hits \in recall_in_process(c, q)
    BY <2>1, <2>2, <2>3, <2>7, OverFetchCoversK, NothingIsCrowdedOut
       DEF recall_in_process, ExactlyFetched
  <2> QED
    BY <2>5, <2>6, <2>7
<1> QED
  BY <1>1, MemoryInvariant, PTL

-----------------------------------------------------------------------------
(* Memories are rows of their own: beneath them the store runs as it is,   *)
(* and the theorems of RewindStoreProofs hold.                             *)
THEOREM MemoryRunsTheStore == MemorySpec => Spec
<1>1. MemoryInit => Init
  BY DEF MemoryInit
<1>2. [MemoryNext]_memoryVars => [Next]_storeVars
  BY DEF MemoryNext, remember, memoryVars
<1> QED
  BY <1>1, <1>2, PTL DEF MemorySpec, Spec
=============================================================================
