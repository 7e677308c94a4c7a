------------------------------ MODULE Database ------------------------------
(***************************************************************************)
(* The drivers of src/src/rewind/db.py: one connection and one re-entrant  *)
(* lock, shared by the threads of a process, on SQLite or on PostgreSQL    *)
(* and CockroachDB.  The connection is modelled from how psycopg and       *)
(* sqlite3 answer: a transaction that is open, that a failed statement has *)
(* broken, or whose connection is lost.  The database is a file or a       *)
(* server: one in memory does not survive Restart.  A call that raises and *)
(* changes nothing is the absence of a step.                               *)
(***************************************************************************)
EXTENDS Naturals, Sequences

CONSTANTS
    Threads,        \* threads of the process
    Nobody,         \* the lock is free
    Backends,       \* dialects to consider
    MaxDepth,       \* bound on nested transaction blocks
    MaxUnits,       \* bound on blocks and lone statements
    MaxWrites       \* bound on the statements of a block

ASSUME DatabaseConstants == Nobody \notin Threads /\ Backends \subseteq {"sqlite", "postgres"}
                            /\ MaxDepth \in Nat \ {0} /\ MaxWrites \in Nat \ {0}

VARIABLES
    backend,        \* dialect
    owner,          \* the thread that holds _lock
    depth,          \* _depth
    autocommit,     \* _conn.autocommit; sqlite3 has no such switch: TRUE
    transaction,    \* of the connection: idle, open, failed or lost
    buffer,         \* writes of the open transaction
    durable,        \* writes that are committed
    threads,        \* threads[t]: [level, unit], the blocks t is inside of
    units,          \* history: blocks and lone statements, and how they ended
    doubt,          \* history: a COMMIT raised and none has succeeded since
    seen            \* history: what the last query of each thread returned

connection == <<autocommit, transaction, buffer, durable>>
dbVars == <<backend, owner, depth, connection, threads, units, doubt, seen>>

Outside == [level |-> 0, unit |-> 0]
Writes == (1 .. Len(units)) \X (1 .. MaxWrites)

DatabaseTypeOK ==
    /\ backend \in Backends
    /\ owner \in Threads \cup {Nobody}
    /\ depth \in 0 .. MaxDepth
    /\ autocommit \in BOOLEAN /\ doubt \in BOOLEAN
    /\ transaction \in {"idle", "open", "failed", "lost"}
    /\ buffer \subseteq Writes /\ durable \subseteq Writes
    /\ threads \in [Threads -> [level : 0 .. MaxDepth, unit : 0 .. Len(units)]]
    /\ units \in Seq([kind : {"block", "lone"}, writes : 0 .. MaxWrites,
                      status : {"open", "returned", "raised"}])
    /\ seen \in [Threads -> SUBSET Writes]

-----------------------------------------------------------------------------
(* Mutant: the lock is forgotten.                                          *)
CanLock_Always(t) == TRUE

(* with self._lock: free, or already held by the same thread.              *)
CanLock(t) == owner \in {Nobody, t}

(* A statement: it opens a transaction if none is open and autocommit is   *)
(* off, and it is committed at once if none is and autocommit is on.       *)
Run(rows) ==
    /\ transaction \in {"idle", "open"}
    /\ IF transaction = "idle" /\ autocommit
       THEN durable' = durable \cup rows /\ UNCHANGED <<transaction, buffer>>
       ELSE transaction' = "open" /\ buffer' = buffer \cup rows /\ UNCHANGED durable
    /\ UNCHANGED autocommit

(* BEGIN inside a transaction raises on SQLite, and so does psycopg when   *)
(* autocommit is set inside one; both come before the depth is counted.    *)
Begin ==
    /\ transaction = "idle"
    /\ IF backend = "sqlite"
       THEN transaction' = "open" /\ UNCHANGED autocommit
       ELSE autocommit' = FALSE /\ UNCHANGED transaction
    /\ UNCHANGED <<buffer, durable>>

Commit ==
    /\ transaction \in {"idle", "open"}
    /\ durable' = durable \cup buffer
    /\ buffer' = {} /\ transaction' = "idle" /\ autocommit' = TRUE

(* rollback() on a lost connection raises as well, so autocommit stays.    *)
Rollback ==
    /\ buffer' = {}
    /\ IF transaction = "lost" THEN UNCHANGED <<transaction, autocommit>>
                               ELSE transaction' = "idle" /\ autocommit' = TRUE
    /\ UNCHANGED durable

(* SQLite: COMMIT finds the file busy and leaves the transaction open, or  *)
(* an I/O error rolls it back.  PostgreSQL: the server refuses (a          *)
(* serialization failure, a retry error), and autocommit is not set again; *)
(* or the connection is lost while the server's answer is on its way.      *)
CommitError ==
    \/ /\ backend = "sqlite" /\ buffer # {}
       /\ \/ UNCHANGED <<transaction, buffer>>
          \/ transaction' = "idle" /\ buffer' = {}
       /\ UNCHANGED <<autocommit, durable>>
    \/ /\ backend = "postgres" /\ transaction = "open"
       /\ buffer' = {}
       /\ \/ transaction' = "idle" /\ UNCHANGED durable
          \/ transaction' = "lost" /\ durable' \in {durable, durable \cup buffer}
       /\ UNCHANGED autocommit

-----------------------------------------------------------------------------
Enter(t) ==
    /\ CanLock(t) /\ threads[t].level < MaxDepth
    /\ IF depth = 0 THEN Begin ELSE UNCHANGED connection
    /\ owner' = t
    /\ depth' = depth + 1
    /\ IF threads[t].level = 0
       THEN /\ Len(units) < MaxUnits
            /\ units' = Append(units, [kind |-> "block", writes |-> 0, status |-> "open"])
            /\ threads' = [threads EXCEPT ![t] = [level |-> 1, unit |-> Len(units) + 1]]
       ELSE threads' = [threads EXCEPT ![t].level = @ + 1] /\ UNCHANGED units
    /\ UNCHANGED <<backend, doubt, seen>>

(* execute inside a block, and on its own.                                 *)
execute(t) ==
    /\ CanLock(t)
    /\ IF threads[t].level > 0
       THEN LET u == threads[t].unit
            IN  /\ units[u].writes < MaxWrites
                /\ Run({<<u, units[u].writes + 1>>})
                /\ units' = [units EXCEPT ![u].writes = @ + 1]
       ELSE /\ Len(units) < MaxUnits
            /\ Run({<<Len(units) + 1, 1>>})
            /\ units' = Append(units, [kind |-> "lone", writes |-> 1, status |-> "returned"])
    /\ UNCHANGED <<backend, owner, depth, threads, doubt, seen>>

query(t) ==
    /\ CanLock(t)
    /\ Run({})
    /\ seen' = [seen EXCEPT ![t] = durable \cup buffer]
    /\ UNCHANGED <<backend, owner, depth, threads, units, doubt>>

(* A statement outside any block raises: PostgreSQL breaks the transaction *)
(* it is in, if it is in one.                                              *)
StatementFails(t) ==
    /\ CanLock(t) /\ threads[t].level = 0
    /\ backend = "postgres"
    /\ transaction = "open" \/ (transaction = "idle" /\ ~autocommit)
    /\ transaction' = "failed" /\ buffer' = {}
    /\ UNCHANGED <<backend, owner, depth, autocommit, durable, threads, units, doubt, seen>>

(* The unit of t ends, and t gives the lock back.                          *)
Leave(t, status) ==
    /\ owner' = Nobody
    /\ threads' = [threads EXCEPT ![t] = Outside]
    /\ units' = [units EXCEPT ![threads[t].unit].status = status]
    /\ seen' = [seen EXCEPT ![t] = {}]
    /\ UNCHANGED backend

(* Mutant: an inner block commits.                                         *)
ExitInner_Commits(t) ==
    /\ threads[t].level > 1
    /\ Commit
    /\ depth' = depth - 1
    /\ threads' = [threads EXCEPT ![t].level = @ - 1]
    /\ UNCHANGED <<backend, owner, units, doubt, seen>>

ExitInner(t) ==
    /\ threads[t].level > 1
    /\ depth' = depth - 1
    /\ threads' = [threads EXCEPT ![t].level = @ - 1]
    /\ UNCHANGED <<backend, owner, connection, units, doubt, seen>>

Exit(t) ==
    /\ threads[t].level = 1
    /\ depth' = depth - 1
    /\ IF depth' = 0 THEN Commit /\ doubt' = FALSE ELSE UNCHANGED <<connection, doubt>>
    /\ Leave(t, "returned")

(* COMMIT itself raises: the depth is counted down by then.                *)
ExitFails(t) ==
    /\ threads[t].level = 1 /\ depth = 1
    /\ CommitError
    /\ depth' = 0
    /\ doubt' = TRUE
    /\ Leave(t, "raised")

(* Mutant: the count is not taken back when the block raises.              *)
Raise_KeepsDepth(t) ==
    /\ threads[t].level > 0
    /\ Rollback
    /\ Leave(t, "raised")
    /\ UNCHANGED <<depth, doubt>>

(* An exception, of the caller or of a statement, leaves every block the   *)
(* thread is in: no caller catches one halfway.                            *)
Raise(t) ==
    /\ threads[t].level > 0
    /\ depth' = depth - threads[t].level
    /\ IF depth' = 0 THEN Rollback ELSE UNCHANGED connection
    /\ Leave(t, "raised")
    /\ UNCHANGED doubt

ConnectionDrops ==
    /\ backend = "postgres" /\ transaction # "lost"
    /\ transaction' = "lost" /\ buffer' = {}
    /\ UNCHANGED <<backend, owner, depth, autocommit, durable, threads, units, doubt, seen>>

(* close(), or the process dies; then connect().                           *)
Restart ==
    /\ owner' = Nobody /\ depth' = 0
    /\ autocommit' = TRUE /\ transaction' = "idle" /\ buffer' = {}
    /\ threads' = [t \in Threads |-> Outside]
    /\ units' = [u \in DOMAIN units |->
                    IF units[u].status = "open" THEN [units[u] EXCEPT !.status = "raised"]
                                                ELSE units[u]]
    /\ doubt' = FALSE
    /\ seen' = [t \in Threads |-> {}]
    /\ UNCHANGED <<backend, durable>>

Init ==
    /\ backend \in Backends
    /\ owner = Nobody /\ depth = 0
    /\ autocommit = TRUE /\ transaction = "idle" /\ buffer = {} /\ durable = {}
    /\ threads = [t \in Threads |-> Outside]
    /\ units = <<>> /\ doubt = FALSE
    /\ seen = [t \in Threads |-> {}]

Next ==
    \/ \E t \in Threads :
          \/ Enter(t)
          \/ execute(t)
          \/ query(t)
          \/ StatementFails(t)
          \/ ExitInner(t)
          \/ Exit(t)
          \/ ExitFails(t)
          \/ Raise(t)
    \/ ConnectionDrops
    \/ Restart

Spec == Init /\ [][Next]_dbVars

-----------------------------------------------------------------------------
(* Properties.                                                             *)

(* db.py:26, "all writes inside the block commit atomically or not at      *)
(* all", for blocks of several threads, nested blocks, exceptions, failing *)
(* COMMITs, lost connections and crashes; and a statement on its own is    *)
(* durable when it returns unless a COMMIT has raised.                     *)
Blocks == INSTANCE AtomicBlocks
ImplementsBlocks == Blocks!Spec

(* A query never returns a part of what another thread's block wrote, nor  *)
(* anything of a block that has not ended: all threads share one           *)
(* connection, on which uncommitted rows are visible.                      *)
ReadsAreWhole ==
    \A t \in Threads, u \in DOMAIN units :
        seen[t] \cap Blocks!WritesOf(u) # {} /\ u # threads[t].unit =>
            Blocks!WritesOf(u) \subseteq seen[t] /\ units[u].status # "open"

(* db.py:47, "autocommit; we manage BEGIN explicitly": a statement outside *)
(* any block is committed when it returns.                                 *)
ReturnedIsDurable ==
    \A u \in DOMAIN units :
        units[u].status = "returned" => Blocks!WritesOf(u) \subseteq durable
=============================================================================
