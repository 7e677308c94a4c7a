--------------------------- MODULE VectorMemory ---------------------------
(***************************************************************************)
(* The agent's long-term memory (src/src/rewind/memory.py) over the store. *)
(*                                                                         *)
(* A fact stands for a text and its embedding: facts are numbers and the   *)
(* distance between two embeddings is the distance between the numbers.    *)
(* recall only reads; it is an operator that gives the set of results the  *)
(* database may return, ties being broken either way.                      *)
(***************************************************************************)
EXTENDS RewindStore, FiniteSets

CONSTANTS
    Facts,          \* what the agent remembers, and what it asks
    K,              \* hits asked for (k)
    OverFetch,      \* rows the indexed search fetches (max(k * 8, 32))
    MaxMemories     \* bound on the rows of agent_memory

ASSUME FactsAreNumbers == Facts \subseteq Nat
ASSUME OverFetchCoversK == K \in Nat /\ OverFetch \in Nat /\ K <= OverFetch

VARIABLE agent_memory   \* Seq of [branch, checkpoint, fact]

memoryVars == <<storeVars, agent_memory>>

MemoryIds == 1 .. Len(agent_memory)

MemoryTypeOK ==
    /\ TypeOK
    /\ agent_memory \in Seq([branch : BranchIds, checkpoint : CheckpointIds, fact : Facts])

-----------------------------------------------------------------------------
(* remember reads the head, calls the embedder, which may take its time on *)
(* a network, and inserts: by then the head c may be an old one and the    *)
(* branch abandoned.  Nothing looks again.                                 *)
remember(b, c, fact) ==
    /\ c \in PastHeads(b)
    /\ Len(agent_memory) < MaxMemories
    /\ agent_memory' = Append(agent_memory, [branch |-> b, checkpoint |-> c, fact |-> fact])
    /\ UNCHANGED storeVars

(* Mutant: memories are scoped by step instead of by lineage.              *)
memories_at_ByStep(c) ==
    {m \in MemoryIds : LET d == agent_memory[m].checkpoint
                       IN  RunOf(d) = RunOf(c) /\ checkpoints[d].step <= checkpoints[c].step}

memories_at(c) == {m \in MemoryIds : agent_memory[m].checkpoint \in lineage[c]}

Distance(m, q) ==
    LET f == agent_memory[m].fact IN IF f < q THEN q - f ELSE f - q

(* The possible answers to ORDER BY distance LIMIT n over the rows S.      *)
Nearest(S, q, n) ==
    {T \in SUBSET S :
        /\ Cardinality(T) = IF Cardinality(S) < n THEN Cardinality(S) ELSE n
        /\ \A t \in T, s \in S \ T : Distance(t, q) <= Distance(s, q)}

recall_in_process(c, q) == Nearest(memories_at(c), q, K)

OfRun(r) == {m \in MemoryIds : branches[agent_memory[m].branch].run = r}

(* What the database may fetch for the indexed search, among all memories  *)
(* of run r.  The vector index answers approximately: any row may be       *)
(* missing.  An exact search fetches the nearest ones.                     *)
Fetched(r) == {rows \in SUBSET OfRun(r) : Cardinality(rows) <= OverFetch}
ExactlyFetched(r, q) == Nearest(OfRun(r), q, OverFetch)

(* Mutant: the first K rows are taken before those off the lineage are     *)
(* left out.                                                               *)
recall_indexed_CutFirst(rows, c, q) ==
    {hits \cap memories_at(c) : hits \in Nearest(rows, q, K)}

(* Of the fetched rows, sorted by distance, the first K on the lineage.    *)
recall_indexed(rows, c, q) == Nearest(rows \cap memories_at(c), q, K)

-----------------------------------------------------------------------------
MemoryInit == Init /\ agent_memory = <<>>

MemoryNext ==
    \/ Next /\ UNCHANGED agent_memory
    \/ \E b \in BranchIds, c \in CheckpointIds, fact \in Facts : remember(b, c, fact)

MemorySpec == MemoryInit /\ [][MemoryNext]_memoryVars

-----------------------------------------------------------------------------
(* Properties.                                                             *)

(* However late the embedder answers, what an agent remembers on a branch  *)
(* can be recalled at that branch's head from then on.                     *)
NothingForgotten ==
    \A m \in MemoryIds : m \in memories_at(branches[agent_memory[m].branch].head)

(* A branch recalls its own memories, those formed up to the point it was  *)
(* forked from, and what a branch forked off one of its checkpoints        *)
(* remembers there before its first commit: never what another branch      *)
(* learned beyond the checkpoints the two share.                           *)
MemoriesAreInherited ==
    \A b \in BranchIds : \A m \in memories_at(branches[b].head) :
        LET row == agent_memory[m]
        IN  \/ row.branch = b
            \/ branches[b].fork # NULL /\ row.checkpoint \in lineage[branches[b].fork]
            \/ row.checkpoint = branches[row.branch].fork /\ checkpoints[row.checkpoint].branch = b

(* What the indexed search returns is on the lineage.  It is an answer of  *)
(* the exact search as soon as the index did not miss it, and that is      *)
(* certain when the index is exact and too few memories of the run are off *)
(* the lineage to crowd the right ones out of the fetched rows.            *)
IndexedRecallAgrees ==
    \A c \in CheckpointIds, q \in Facts :
    \A rows \in Fetched(RunOf(c)) : \A hits \in recall_indexed(rows, c, q) :
        /\ hits \subseteq memories_at(c)
        /\ (\E best \in recall_in_process(c, q) : best \subseteq rows) =>
              hits \in recall_in_process(c, q)
        /\ rows \in ExactlyFetched(RunOf(c), q)
              /\ Cardinality(OfRun(RunOf(c)) \ memories_at(c)) + K <= OverFetch =>
              hits \in recall_in_process(c, q)
=============================================================================
