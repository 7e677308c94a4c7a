# Rewind in TLA+

Specifications, model-checking runs and proofs for Rewind (`src/src/rewind`):
version control for the state, the files, the memory and the side effects of
an AI agent. Paths below are relative to `src/src/rewind` unless they start
with `src/`.

## The system

| Part | State it keeps | Operations | Interacts with |
| --- | --- | --- | --- |
| Versioned store (`store.py`, `models.py`) | tables `runs`, `branches`, `checkpoints`, `state_kv`, `vfs_objects`, `staged_effects`; only branch heads, branch statuses and effect statuses are ever updated | `create_run`, `create_checkpoint`, `rewind`, `record_effect`, `set_effect_status`; reads `lineage`, `get_state`, `active_branch`, `get_tree` | everything else calls it |
| Tool proxy (`proxy.py`) | rows of `staged_effects`, and the outside world | `call` (staged, idempotent, dry_run), `pending`, `flush` | store; executors |
| Vector memory (`memory.py`) | table `agent_memory` | `remember`, `memories_at`, `recall` (in process, or in the database with a limit) | store; an embedder, which may be a network call |
| Virtual files (`vfs.py`) | table `vfs_objects`, S3 objects | `write`, `delete`, `write_blob_s3`, `read`, `list` | store; S3 |
| Demo storyboard (`demo.py`) | none: progress is read off the tree | `start`, `tick`, called by every poll of every browser | store, memory, proxy |
| LangGraph saver (`checkpointer.py`) | in-process pending writes; one store run per thread | `put`, `put_writes`, `get_tuple`, `list` | store; LangGraph; operators' rewinds |
| Database layer (`db.py`) | connection, lock, nesting depth | `transaction`, `execute`, `query` | SQLite, PostgreSQL, CockroachDB |
| HTTP API (`api.py`), dashboard (`App.jsx`) | the last tree fetched, the open dialog | polls, rewind requests | store, demo |
| Schema, Bedrock, environment, MCP snippet, deployment, examples | none | DDL, one AWS call, scripts | |

The store is the centre. History is append-only: a checkpoint has a parent,
the first checkpoint of a fork has the fork point as its parent, and what the
agent knows at a checkpoint is the replay of the rows along its *lineage*. A
rewind abandons one branch, discards the side effects that branch staged
beyond the rewind point, and starts a new branch there.

### What is hard

* **Trees and lineages.** Forks of forks, rewinds of branches that are already
  abandoned, commits racing with rewinds: does every lineage stay a chain, does
  every commit stay reachable, does a replay mean what a snapshot would?
* **Side effects and rewinds.** An effect belongs to the branch that staged it
  and to the checkpoint it hangs on, and the two can be rewound separately.
* **Check, act, record.** `ToolProxy.call`, `flush`, `remember`,
  `write_blob_s3` and `tick` read, do something slow outside the database, and
  then write; nothing is locked and the world may have changed.
* **Partial failure.** An executor fires and its row is never marked; a blob
  write stops between its steps; a ticker dies between the commit of a step and
  the message of that step.
* **Order.** Rows of one checkpoint have no order on CockroachDB. A search
  ranks first and filters by lineage afterwards.
* **Progress.** The storyboard has no scheduler: whoever polls takes a step,
  and the losers of a race give up. A dashboard polls without waiting and its
  answers overtake each other.
* **Two trees.** LangGraph keeps its own tree of checkpoints; the saver maps it
  onto branches that operators rewind and tools commit to, in several
  transactions per `put`.
* **One connection.** All threads of a process share one connection, a lock and
  a depth counter; a COMMIT may itself raise.

### What makes each part correct

| Part | Properties |
| --- | --- |
| Store | lineages are chains; no commit is lost; every run has an active branch; a rewind keeps what was staged on the clean prefix and discards only what the rewound branch itself staged beyond it; replay along lineages implements immutable snapshots |
| Proxy | a recorded key is never executed again; an effect fires, and a key is charged, once per process and interruption at most; a discarded effect stays silent; a flush stays on its lineage; rows and world agree up to the calls in flight and the ones interrupted |
| Memory | what was remembered on a branch is recalled there; a branch recalls only what it inherited; the indexed search never returns foreign hits, and returns what the exact one would unless the index missed it or it was crowded out |
| Files | no pointer to a missing object; late rows disturb no other write; a blob write that returned stays, where the database keeps the order of rows |
| Storyboard | each branch tells its story in order, once, to the end; only a told recovery is announced, each message once |
| Saver | a LangGraph parent is the nearest LangGraph ancestor in the store; completed puts are found again; a resumption at the head gets no writes from before a rewind to it |
| Database | blocks run one at a time, are durable as a whole when they return and not at all when they raise; nobody reads a part of one |
| Dashboard | a fetched tree can be drawn; a confirmed rewind discards nothing of what was shown and not counted; the screen catches up |

## The modules

| Module | Models | Uses |
| --- | --- | --- |
| `SnapshotStore` | the abstract specification: a store of whole, immutable snapshots | |
| `RewindStore` | `store.py`, and the reads of `proxy.pending` and `vfs._resolve` | refines `SnapshotStore` |
| `RewindStoreProofs` | theorems about `RewindStore` | `RewindStore`, TLAPS |
| `ToolProxy` | `proxy.py` for several processes | `RewindStore` |
| `ToolProxyProofs` | theorems about `ToolProxy` | `RewindStoreProofs` |
| `VectorMemory` | `memory.py` | `RewindStore` |
| `VectorMemoryProofs` | theorems about `VectorMemory` | `RewindStoreProofs` |
| `VirtualFiles` | `vfs.py` and S3 | `RewindStore` |
| `VirtualFilesProofs` | theorems about `VirtualFiles` | `RewindStoreProofs` |
| `Storyboard` | `demo.py` for several tickers | `VectorMemory` |
| `StoryboardProofs` | theorems about `Storyboard` | `VectorMemoryProofs` |
| `RewindSaver` | `checkpointer.py` for several invocations of one thread | `RewindStore` |
| `RewindSaverProofs` | theorems about `RewindSaver` | `RewindStoreProofs` |
| `AtomicBlocks` | the abstract specification of a database connection: serial units that are durable as a whole or not at all | |
| `Database` | `db.py`, both drivers | refines `AtomicBlocks` |
| `DatabaseProofs` | theorems about `Database` | `AtomicBlocks`, TLAPS |
| `Dashboard` | `api.py` and `App.jsx`: polls and the rewind dialog | `RewindStore` |
| `DashboardProofs` | theorems about `Dashboard` | `RewindStoreProofs` |
| `MC_*` | symmetry sets and the short script for TLC | the module they name |

### RewindStore

A table is a sequence of rows in insertion order; the index of a row is its id,
so `ORDER BY created_at` is the order of ids, and `NULL` is 0. `lineage[c]` is
the set of ids from genesis to `c`: the code's list is that set ordered by
`step_index` (that this is an order is `LineageIsChain`). `state_kv[c][k]` and
`vfs_objects[c][p]` are what checkpoint `c` wrote: a value, `Tombstone`, or
`Unwritten`.

| Action | Code |
| --- | --- |
| `create_run` | `store.py` 56-79, one transaction: run, branch, genesis, head |
| `create_checkpoint(b, kv, files, expected)` | 141-216; `expected` is `expected_head` |
| `rewind(b, target)` | 275-327: discard, abandon, fork |
| `record_effect(b, c, ...)` | 352-393; two statements, so `c` is any head the branch has had (`PastHeads`) |
| `set_effect_status(e, s)` | 413-422, unconditional |

Two choices deserve a word.

* *Stale heads.* A caller that reads a head and inserts later may act on any
  head the branch has had. Instead of a program counter for every such read,
  the insert picks one from `PastHeads(b)`. With several processes these are
  exactly the outcomes; with one they are a superset, which only makes the
  passing runs stronger.
* *Rows without an order.* A key both updated and deleted in one commit has two
  rows at one checkpoint, read back without `ORDER BY`. `KvRows` lets either be
  the last one.

`branches[b].of` is history, not a column: the branch whose rewind made `b`.
With it `DiscardsOnlyTheAbandoned` can ask that every discarded effect be
accounted for by a rewind of the very branch that staged it.

Names, labels, timestamps, payloads and sizes are left out: no guard reads
them. A method that raises changes nothing and is the absence of a step.

### ToolProxy

`calls[p]` is what process `p` carries between the steps of one proxy call;
`sent` and `charged` count what the world has seen. `LookUp`, `Execute`,
`RecordResult` are the idempotent mode; `StartFlush`, `FlushExecute`,
`FlushMark` are `flush`; `Interrupt` is an executor that raises or a process
that dies, at any step; staged and dry-run calls run no executor and are
`record_effect`.

### VectorMemory

`remember` is an insert at some head the branch has had, because the embedder
runs between the read and the insert. A fact is a number and the distance of
two embeddings is the distance of the numbers. `recall_in_process` and
`recall_indexed` are the sets of answers the two code paths may give, ties
going either way. CockroachDB's vector index is approximate, so the rows the
indexed search filters are any rows of the run within the limit (`Fetched`): any
near one may be missing. `IndexedRecallAgrees` claims only what survives that.
Hits are on the lineage; an answer of the exact search is given when the index
did fetch one; and it is certain when the index is exact (`ExactlyFetched`) and
the memories off the lineage are too few to crowd out `K` others.

### VirtualFiles

A blob write is `PutObject`, `CommitCheckpoint` (a tombstone row) and
`InsertBlobRow`, with `Fail` possible before each of the last two. Both rows are
at one checkpoint and are read without `ORDER BY`. `ordered` says which database
there is: SQLite returns them as they were inserted, so the blob wins;
CockroachDB returns them in the order of their random ids, so either may. TLC
and the proofs cover both, and `BlobWritesStay` holds, and is claimed, only of
the first. S3 objects are overwritten in place. Ordinary writes and deletes are
checkpoints.

### Storyboard

`ticks[p]` is the tick process `p` is in: `Decide` (what `tick` reads),
`ApplyStep` (the guarded commit) or `LoseRace`, `RememberStep`,
`StageMessage`, and after the last step of a recovery `ListMessages`,
`PostMessage`, `MarkMessage`. `labels[c]` is the step a checkpoint applied. The
script is a parameter. The pause between steps only delays a tick and is left
out, so every schedule it allows is covered, and some that need a ticker slower
than the pause: a slow embedder is enough for that. Operators rewind any branch,
because the dashboard's picture of the active branch may be old.

### RewindSaver

`agents[p]` is an invocation of the thread and the `put` it is in. A LangGraph
checkpoint is a number, which is also the value written at `STATE_KEY`, so
`payload_at` is the store's own replay. `ResumeLatest`, `ResumeAt` and
`Inspect` are `get_tuple` (without an id, with one, and without an invocation
that follows); `put` is `PutFindsNoRun` and `PutCreatesRun` for the first put of
a thread, `PutReadsBranch` (the active branch, its head and the decision to
fork), `PutForks` and `PutCommits` or `PutFails`, each one transaction or one
group of reads. `OperatorRewinds`, `Edit` and `Restart` (which takes `_writes`
along) may come between any two. `payloads[id].put` is history: whether a put
was *alone*, *raced* by another commit on its branch, or *overtaken* by a
rewind; the properties say what each of them still gets. A pending write is
marked `past` once a rewind went to its checkpoint. `ResumeIsClean` is about any
resumption at the head, by id or not. It is not about one after an edit moved
the head past the rewind point, nor one by an id below the head: `get_tuple`
drops writes only at a head parked at its own fork, and otherwise does hand over
those of the abandoned future. The `before` and `limit` of `list` select from
what the model's `list` returns for some head.

### Database and AtomicBlocks

`depth`, `owner` and `autocommit` are the driver's; `transaction`, `buffer` and
`durable` are the connection's and the server's. `Begin`, `Commit`, `Rollback`
and `CommitError` are what the two drivers do at depth 0; `Enter`, `ExitInner`,
`Exit`, `ExitFails` and `Raise` are the paths through `transaction()`. No caller
in the repository catches an exception inside a block, so `Raise` leaves all of
them at once. That setting `autocommit` inside a transaction raises, that BEGIN
inside one does, and that a refused COMMIT ends a PostgreSQL transaction but a
busy one leaves SQLite's open, is how the libraries behave.

`AtomicBlocks` is what the other modules assume when they make a transaction
one action. Its `doubt` is the one weakness the code has: after a COMMIT that
raised, and until a later block commits or the process restarts, a statement on
its own may return without being durable. That blocks which return are always
durable, even then, is part of the refinement.

### Dashboard

`get_tree(q)` is one query of the poll `q`, in the order of `store.get_tree`;
`ShowTree` is `setTree`, `PollFails` the swallowed error. Checkpoints are
immutable and numbered in order, so a tree holds how many it has; branches and
effects change, so it holds copies. The dialog is `openRewind`, `Cancel`,
`confirmRewind`; the POST is `ServerRewinds`, then `ShowResult` or `PostFails`,
which leaves the dialog open. A POST that reaches the server after the browser
gave it up is, to the browser, somebody else's rewind, which `OthersAct` has. The
tick a poll performs first is `Storyboard`'s; here it is one of the things
`OthersAct` may do. There is one run, the one the browser watches: the queries
of `get_tree` are `WHERE run_id = ?`.

## The runs

Contents, processes and object bodies are interchangeable where a cfg declares
symmetry; the runs with a liveness property have none. All runs bound the rows
of each table (`MaxRuns`, `MaxBranches`, `MaxCheckpoints`, `MaxEffects`,
`MaxMemories`) or the units of a database; these only grow, so a run ends when
they are full. Since callers may also simply stop calling, deadlock is not an
error of this system and is not checked, except in `db_blocks`, where a restart
is always possible.

| Run | Bounds | Shows |
| --- | --- | --- |
| `store` | 2 runs, 3 branches, 4 checkpoints, 1 effect, 1 key, 2 values | the safety of the tree and of staged effects across rewinds; `RewindStore` implements `SnapshotStore` |
| `proxy_concurrent` | 2 processes, 3 branches, 2 checkpoints, 2 effects, 1 interruption | what holds between rows and world when calls overlap and die |
| `memory_scope` | 3 branches, 3 checkpoints, 3 memories, 2 rows fetched, 1 hit asked | recall and the indexed search |
| `vfs_uploads` | 2 uploaders, 2 objects, 2 branches, 4 checkpoints | blob writes among other writes, rewinds and failures |
| `story_race` | 2 tickers, 1 crash, 3 branches, 2 + 2 steps | the story is told in order and to the end |
| `saver_agents` | 2 invocations, 2 runs, 3 branches, 4 checkpoints, writes of 1 id | LangGraph's tree and the store's agree |
| `db_blocks` | both drivers, 2 threads, depth 2, 4 units of 2 writes | `Database` implements `AtomicBlocks`; reads are whole |
| `dashboard` | 2 polls, 2 branches, 2 checkpoints, 1 effect | trees read table by table, the dialog, and catching up |
| `proxy_double_charge` | violation | two calls with one key both execute |
| `saver_fix_lost` | violation | a fix committed between two puts is abandoned by the second |
| `db_wedged` | violation | a statement that returned after a failed COMMIT is never durable |
| `dash_promise` | violation | an effect the dialog counted is still staged after the rewind |

Why the bounds are enough: three branches are a fork of a fork and two rewinds
of one branch. Three checkpoints are a genesis, a shared one and one of a
branch's own; with four a value is written, overwritten or deleted, and
inherited by a fork. Two processes are enough for every check-then-act race,
since each is between one reader and one writer. In `memory_scope` the limit on
fetched rows is below the number of memories, so crowding out does occur, and
the index may miss any row. The
story's checkpoints, effects and memories are bounded by what two stories of
two steps on three branches need, so that no bound stops a ticker. In
`saver_agents` one put, an edit or another put, and a third one fit after the
genesis, with two rewinds among them; the lists of writes under different ids
never meet, so one watched id stands for all. Four units are a block that
fails, two statements after it and a block after those. `dashboard` keeps to
one rewind, the browser's or somebody else's, because two overlapping polls
multiply its states, so a second confirmation is refused there for want of rows;
`RewindsAreExpected` is proved for any number of rewinds.

*Fairness* is assumed in two places. `StoryIsTold` needs
`WF(\E p \in Tickers : Tick(p))`: as long as a dashboard is open anywhere,
`App.jsx` polls and the poll endpoint calls `tick`. Nothing is assumed of a
particular ticker, of crashes (bounded) or of operators (who may rewind until
the branches run out). `ViewCatchesUp` needs `WF(get_tree(q))`, the interval
sends polls and the server answers them, and `SF(ShowTree(q))`: polls may fail
again and again, as the empty `catch` allows, but not all of them. Of the user
and the other clients nothing is assumed.

### Findings

1. `proxy.py:63`: look-up, execution and record are separate and the index on
   keys is not unique.
2. `checkpointer.py:130`: a parent that is not the head is taken for a time
   travel. But the head also moves when an operator injects a fix, or when a
   tool writes a file (`VFS.write` is a checkpoint): the agent resumes from it,
   and its next `put` forks at the old parent and abandons it.
3. `db.py:120`: after a COMMIT that raised, autocommit stays off (PostgreSQL) or
   the transaction stays open (SQLite, busy). Effects, memories and statuses are
   written by single statements, which then return and are lost with the
   process; and once one is pending every block raises when it begins.
4. `store.py:297` and `App.jsx:134`: the dialog counts staged effects on the
   abandoned lineage, the server discards those of the abandoned branch. An
   effect that a first rewind kept on the shared prefix is counted and stays
   staged; no active branch can flush it any more.

Seen while modelling and not given a run of their own:

* `rewind` does not look at the status of the branch (`store.py:287`), so two
  operators who rewind one branch leave the run with two active ones;
  `active_branch` takes the newest, the dashboard the first.
* `flush` does not look at an effect again before it fires (`proxy.py:108`): one
  that was discarded meanwhile fires all the same.
* `demo.py:223`: a step's message is staged after the step is committed and the
  flush happens once, so a slow ticker's message may never be sent.
* `remember` accepts an abandoned branch, whose memory is then recalled wherever
  its checkpoint is shared.
* `vfs.py:8-9` says that the latest write for a path wins. On CockroachDB the
  tombstone that `write_blob_s3` commits first can hide the row it inserts last,
  for good (the second disjunct of `InsertBlobRow`). A second blob write under
  one S3 key changes what old checkpoints read; a blob write that stops after
  its checkpoint deletes the file.
* `checkpointer.py:191-194` wants an agent that resumes after a rewind to resume
  "from the clean checkpoint, not a stale superstep". That is done only while the
  fork is parked at the rewind point: rewind, commit a fix, resume, and the
  writes of the abandoned future are handed over. So they are to whoever resumes
  by the id of a checkpoint below the head.
* The saver: two first puts of one thread may create two runs, and what is put
  in the newer one is not found again; an invocation that a rewind overtakes
  appends its state to the clean branch, since its parent is on no head's
  lineage; get_state right after a rewind also drops writes of the new future
  made before its first put; `checkpoint_ns` is ignored, so a subgraph reads and
  forks the tree of its parent graph.
* The dialog's branch is not kept: `confirmRewind` takes the branch that is
  active by then, and after a lost answer a second click rewinds again.

## The proofs

Every safety invariant, action property and refinement that a passing run
checks on a small instance is a theorem for every value of the constants: any
number of runs, branches, checkpoints, effects, processes, tickers, invocations,
threads and polls, any sets of keys, paths, contents and facts, any script. The
two liveness properties are not.

| Module | Theorem | Statement |
| --- | --- | --- |
| `RewindStoreProofs` | `TypeCorrectness` | `Spec => []TypeOK` |
| | `LineagesAreChains` | `Spec => []LineageIsChain` |
| | `CommitsAreNeverLost` | `Spec => []NoLostCommit` |
| | `RunsStayActive` | `Spec => []RunHasActiveBranch` |
| | `RewindsKeepPending` | `Spec => RewindKeepsPending` |
| | `DiscardsAreDeserved` | `Spec => []DiscardsOnlyTheAbandoned` |
| | `StoreImplementsSnapshots` | `Spec => ImplementsSnapshots` |
| `ToolProxyProofs` | `ProxyTypeCorrectness` | `ProxySpec => []ProxyTypeOK` |
| | `FlushesStayOnLineage` | `ProxySpec => []FlushStaysOnLineage` |
| | `RowsAgreeWithWorld` | `ProxySpec => []RowsMatchWorld` |
| | `FiringsAreBounded` | `ProxySpec => []FiresAreBounded` |
| | `RecordedKeysStaySilent` | `ProxySpec => ReplayNeverFires` |
| | `DiscardsAreFinal` | `ProxySpec => DiscardIsFinal` |
| | `OneProcessChargesOnce` | one process, no failures: `ProxySpec => []KeyFiresOnce` |
| | `ProxyRunsTheStore` | `ProxySpec => Spec` |
| `VectorMemoryProofs` | `MemoryTypeCorrectness` | `MemorySpec => []MemoryTypeOK` |
| | `MemoriesAreKept` | `MemorySpec => []NothingForgotten` |
| | `MemoriesComeFromAncestors` | `MemorySpec => []MemoriesAreInherited` |
| | `IndexedSearchIsSound` | `MemorySpec => []IndexedRecallAgrees` |
| | `MemoryRunsTheStore` | `MemorySpec => Spec` |
| `VirtualFilesProofs` | `FilesTypeCorrectness` | `FilesSpec => []FilesTypeOK` |
| | `BlobsNeverDangle` | `FilesSpec => []NoDanglingBlob` |
| | `BlobWritesAreKept` | `FilesSpec => []BlobWritesStay` |
| | `InlineFilesAreImmutable` | `FilesSpec => InlineFilesNeverChange` |
| | `LateRowsKeepTheTree` | `FilesSpec => [](LineageIsChain /\ NoLostCommit /\ RunHasActiveBranch)` |
| `StoryboardProofs` | `StoryTypeCorrectness` | `StorySpec => []StoryTypeOK` |
| | `StoriesAreToldInOrder` | `StorySpec => []StoryInOrder` |
| | `RecoveriesAreAnnounced` | `StorySpec => []OnlyRecoveryIsAnnounced` |
| | `StoryRunsTheStore` | `StorySpec => MemorySpec /\ Spec` |
| `RewindSaverProofs` | `SaverTypeCorrectness` | `SaverSpec => []SaverTypeOK` |
| | `ParentsAreAncestors` | `SaverSpec => []ParentIsAncestor` |
| | `CompletedPutsAreDurable` | `SaverSpec => []CompletedPutsAreFound` |
| | `ResumesAreClean` | `SaverSpec => ResumeIsClean` |
| | `OwnHeadsAreExtended` | `SaverSpec`: an invocation that resumed at LangGraph's own head extends it |
| | `SaverRunsTheStore` | `SaverSpec => Spec` |
| `DatabaseProofs` | `DatabaseTypeCorrectness` | `Spec => []DatabaseTypeOK` |
| | `DatabaseImplementsBlocks` | `Spec => ImplementsBlocks` |
| | `ReadsStayWhole` | `Spec => []ReadsAreWhole` |
| | `ReturnedBlocksAreDurable` | `Spec => []BlocksKept` |
| | `StatementsAreDurable` | `Spec /\ []~doubt => []ReturnedIsDurable` |
| `DashboardProofs` | `DashboardTypeCorrectness` | `DashboardSpec => []DashboardTypeOK` |
| | `ViewsAreClosed` | `DashboardSpec => []ViewIsClosed` |
| | `RewindsAreExpected` | `DashboardSpec => DiscardsAreExpected` |
| | `OwnEffectsAreDiscarded` | `DashboardSpec`: counted effects that the rewound branch staged are not staged afterwards |
| | `DashboardRunsTheStore` | `DashboardSpec => Spec` |

### Assumptions

The theorems rest on the named assumptions of the modules and nothing else:
markers (`Tombstone`, `Absent`, `NoKey`, `NoObject`, `Nobody`, `NULL` among the
agents) are not values, keys or processes, since in the code they are `None`,
the absence of a row or no one at all; keys and paths are different
cells, since they are rows of different tables; bounds are numbers; the
processes of a proxy are finitely many, which counting them needs; a number
stands for a fact, and the index fetches at least as many rows as it is asked
for (`memory.py:171`); a story has a step; the saver's key is a key and its
numbered payloads are values; blob references are contents of files.

Four theorems are the counterparts of the four violation runs: each adds the
hypothesis under which what the run refutes does hold.

* `OneProcessChargesOnce`, against `proxy_double_charge`: one process that is
  never interrupted.
* `StatementsAreDurable`, against `db_wedged`: no COMMIT ever raised.
* `OwnHeadsAreExtended`, against `saver_fix_lost`: the head the agent resumed
  from is LangGraph's own checkpoint. Then its next `put` extends that lineage
  whatever others commit meanwhile. So what it resumed from is lost only when
  that is somebody's edit on top of LangGraph's checkpoint, which is just what
  injecting a fix makes it.
* `OwnEffectsAreDiscarded`, against `dash_promise`: the rewound branch staged
  the effect itself. So the promise breaks only for what other branches staged
  on the shared prefix.

### The store

*The inductive invariant* is `TreeInv`: types; `Tree` (parents are older than
their children, the lineage equation has one solution, lineages contain their
checkpoint and nothing newer, heads and checkpoints stay in their run);
`LineageIsChain`; `NoLostCommit`; `RunHasActiveBranch`. None of the last three
is inductive alone: a commit extends the chain of its parent, so the parent's
lineage must be a chain of the same run, and that no commit is lost needs
lineages of old checkpoints not to change when a row is added. What the other
modules need besides is in `StoreInv`: the lineages of a checkpoint's ancestors
are contained in its own (`LineagesNest`), and a branch's own checkpoints go
back to its fork (`OwnLineage`). Any head a branch ever had is then on the lineage
of the head it has (`PastHeadsAreAncestors`), which is what makes stale heads
harmless.

*Lineage without induction.* `lineage` is a recursive function of the rows, and
what such a function computes would normally be proved by induction over the
rows. Here the system's own steps do the induction: `UniqueLineage(checkpoints)`,
"the equation has exactly one solution", is part of the invariant, and
`LineageOfAppend` shows that appending a row whose parent exists extends the
solution by one value and changes no other. `ChainExtends` then carries the
chain property to the new row, and `AppendCheckpoint` packages both for the two
actions that add checkpoints.

*Rewinds.* `RewindKeepsPending` follows from the types and one case split
(`StepIsRewindOrQuiet`): a step either is a rewind, described by `RewindStep`,
or adds no forked branch and discards nothing. `DiscardsOnlyTheAbandoned` is an
invariant of its own, `Accounted`: the branch a rewind makes names the branch it
was made of and its fork point, accounts for all that the rewind discards, and
neither field ever changes, nor does the lineage of the fork point.

*The refinement* maps a checkpoint to the replay of the rows along its lineage.
A replay is the last writer's value, and `LineageIsChain` makes the last writer
unique. For a commit, the new lineage is the parent's and one newer row, so the
replay is the parent's with that row laid over it; for old checkpoints neither
lineage nor rows change; a rewind adds no checkpoint and moves one head; effects
are a stutter.

### The components over the store

Each of these modules first shows that its store steps are steps of
`RewindStore` (`...RunsTheStore`), which yields `StoreInv` and `StoreGrows`: rows
are only added, the fields of old rows do not change but for heads and
statuses. What an actor read before is then still true in a weaker sense, and
that weaker sense is the invariant. `VirtualFiles` is the exception: its late
row is no transaction of the store, and `LateRowsKeepTheTree` says what remains.

* `ProxyInv`: what a call in flight carries is true of the store (`CallOK`);
  per effect, the executions so far plus the calls that may still fire it are at
  most the processes plus the failures (`EffectMatches`), and the same per key
  (`KeyMatches`). Bounding the executions alone is not inductive: the calls in
  flight must be counted in. Each action moves one process from one of these
  sets to another, and `OneMoves` says what that does to the cardinalities.
* `MemoryInv`: a memory hangs on a head its branch had at some time. That
  suffices for both recall theorems, by `PastHeadsAreAncestors`. The search
  follows from lemmas on sets alone: a best answer that was fetched outranks
  whatever else was (`BestIsReturned`), and when the rows off the lineage leave
  room for `K` among those fetched exactly, the best are fetched
  (`NothingIsCrowdedOut`).
* `FilesInv`: an upload that waits to insert its row owns the checkpoint of
  that row, whose only row for the path is a tombstone; every reference in a row
  was uploaded.
* `StoryInv`: the label of a checkpoint is its distance from the fork of its
  branch, so the guard on the head makes tickers take turns. The commit of the
  last step closes the branch; at most one ticker has made it (`OneEach`,
  `SameStepSameCommit`), so one ticker posts the branch's messages, and none was
  posted before. The theorems are about `StorySpec`: they need no fairness.
* `SaverInv`: labels and payloads name each other; the newest branch of a run is
  active; an invocation that no rewind overtook has its parent on the lineage
  of the active branch's head, and by the time it commits, on that of its own
  branch's. Writes of the past belong to a checkpoint a branch was forked at,
  so whoever resumes there at the head of the active branch, with or without its
  id, finds it parked.
* `DashInv`: an old answer is true in the sense of `KnownRows`; a tree that has
  read the checkpoints after the branches is closed; a plan's uncounted effects
  survive its rewind, because they are on the lineage that is kept, or were
  not staged any more; its counted ones lie off that lineage, so a rewind of the
  branch that staged them discards them.

### The database

`DbInv` is `LockInv` (the owner is inside as many blocks as the depth counts,
in the only open unit), `ConnectionInv` (inside a block, the transaction holds
that block's writes or, when the connection is lost, none; outside, without
doubt, nothing is pending) and `RowsInv` (nothing of the open unit is durable or
was seen by others; of every other unit all writes or none are). `DbStep` proves
at once that a step keeps `DbInv` and is a step of `AtomicBlocks` or a stutter.
The two theorems on what a caller may rely on then look only at abstract steps.

### Only model-checked

`StoryIsTold` and `ViewCatchesUp` are liveness under fairness, and the provers
have neither `WF`, `SF` nor `ENABLED`. The four violation runs are
counterexamples, which TLC finds and a proof would not add to.

## The plan

All modules of the plan are written, and every safety property the runs check
is proved. What is left:

* that the tree of the first put of a thread stays the only one when puts of a
  new thread do not overlap, the hypothesis of `CompletedPutsAreFound`;
* the safety half of the liveness properties: that an untold story always has an
  enabled tick or a ticker under way.

## Not modelled

* Isolation between connections. All modules take transactions as
  serializable. SQLite and CockroachDB are; a plain PostgreSQL server defaults to
  READ COMMITTED, where two commits on one head would both succeed and one be
  lost, and `db.py` does not ask for more.
* In the dashboard: choosing another run (the server refuses a rewind across
  runs, and late answers of the old run are dropped) and what is only drawn.
* The HTTP API adds no state: each endpoint is one call of the store, the proxy
  or the storyboard, and appears as that call. The schema appears through what
  it does not forbid.
* Bedrock, environment files, the MCP snippet, deployment scripts and the
  example: calls to services and scripts without state of the system.
* Clock skew between processes: rows are ordered by insertion. With skewed
  `created_at` values "newest" can differ from "last inserted".
