--------------------------- MODULE DatabaseProofs ---------------------------
(***************************************************************************)
(* Proofs about Database, for any number of threads, nested blocks, units  *)
(* and writes, on both drivers: it implements AtomicBlocks, and what a     *)
(* query returns is whole.                                                 *)
(***************************************************************************)
EXTENDS Database, TLAPS, SequenceTheorems

blockVars == <<units, durable, doubt>>

UnitIds == 1 .. Len(units)
UnitRows == [kind : {"block", "lone"}, writes : 0 .. MaxWrites,
             status : {"open", "returned", "raised"}]

W(u) == Blocks!WritesOf(u)
IsOpen(u) == units[u].status = "open"
Whole(S, u) == W(u) \cap S = {} \/ W(u) \subseteq S
Written == UNION {W(u) : u \in UnitIds}

(* The lock's owner is inside as many blocks as the depth counts, in the   *)
(* only open unit there is; everybody else is outside.                     *)
LockInv ==
    /\ owner = Nobody => depth = 0
    /\ \A t \in Threads :
          IF t = owner
          THEN /\ threads[t].level = depth /\ depth > 0
               /\ threads[t].unit \in UnitIds /\ IsOpen(threads[t].unit)
          ELSE threads[t] = Outside
    /\ \A u \in UnitIds : IsOpen(u) => owner # Nobody /\ u = threads[owner].unit

(* Inside a block the transaction holds the writes of that block or, when  *)
(* the connection is lost, none; outside, statements are durable at once   *)
(* or raise, unless there is doubt.                                        *)
ConnectionInv ==
    /\ transaction # "open" => buffer = {}
    /\ depth = 0 /\ ~doubt => transaction = "lost" \/ (transaction = "idle" /\ autocommit)
    /\ depth > 0 => /\ transaction # "failed"
                    /\ transaction = "idle" => ~autocommit
                    /\ transaction \in {"idle", "open"} => buffer = W(threads[owner].unit)

(* Nothing of the open unit is durable or was seen by another thread; of   *)
(* any other unit all writes or none are.                                  *)
RowsInv ==
    /\ durable \subseteq Written /\ buffer \subseteq Written
    /\ \A t \in Threads : seen[t] \subseteq Written
    /\ \A u \in UnitIds :
          IF IsOpen(u)
          THEN durable \cap W(u) = {} /\ \A t \in Threads \ {owner} : seen[t] \cap W(u) = {}
          ELSE Whole(durable, u) /\ Whole(buffer, u) /\ \A t \in Threads : Whole(seen[t], u)

DbInv == DatabaseTypeOK /\ LockInv /\ ConnectionInv /\ RowsInv

-----------------------------------------------------------------------------
(* Units and their writes.                                                 *)

LEMMA WriteIds ==
  ASSUME NEW u, NEW x
  PROVE  x \in W(u) <=> \E n \in 1 .. units[u].writes : x = <<u, n>>
  BY DEF W, Blocks!WritesOf

LEMMA WriteIdsPrime ==
  ASSUME NEW u, NEW x
  PROVE  x \in W(u)' <=> \E n \in 1 .. units'[u].writes : x = <<u, n>>
  BY DEF W, Blocks!WritesOf

LEMMA UnitTypes ==
  ASSUME DatabaseTypeOK
  PROVE  /\ units \in Seq(UnitRows) /\ Len(units) \in Nat /\ DOMAIN units = UnitIds
         /\ \A u \in UnitIds : units[u] \in UnitRows
         /\ threads \in [Threads -> [level : 0 .. MaxDepth, unit : 0 .. Len(units)]]
         /\ MaxDepth \in Nat \ {0} /\ MaxWrites \in Nat \ {0} /\ Nobody \notin Threads
         /\ depth \in 0 .. MaxDepth /\ seen \in [Threads -> SUBSET Writes]
<1>1. units \in Seq(UnitRows)
  BY DEF DatabaseTypeOK, UnitRows
<1>2. /\ Len(units) \in Nat /\ DOMAIN units = UnitIds
      /\ \A u \in UnitIds : units[u] \in UnitRows
  BY <1>1 DEF UnitIds
<1> QED
  BY <1>1, <1>2, DatabaseConstants DEF DatabaseTypeOK

LEMMA SameUnits ==
  ASSUME units' = units
  PROVE  /\ UnitIds' = UnitIds /\ Written' = Written /\ Writes' = Writes
         /\ \A u : W(u)' = W(u) /\ (IsOpen(u)' <=> IsOpen(u))
  BY DEF UnitIds, Written, Writes, W, Blocks!WritesOf, IsOpen

(* A unit begins: it has a new number and changes no other.                *)
LEMMA AppendedUnit ==
  ASSUME DatabaseTypeOK, NEW r \in UnitRows, units' = Append(units, r),
         NEW n, n = Len(units) + 1
  PROVE  /\ units' \in Seq(UnitRows) /\ Len(units') = n /\ n \in Nat
         /\ UnitIds' = UnitIds \cup {n} /\ n \notin UnitIds /\ units'[n] = r
         /\ \A u \in UnitIds : /\ W(u)' = W(u) /\ (IsOpen(u)' <=> IsOpen(u))
                               /\ units'[u] = units[u]
         /\ r.writes = 0 => W(n)' = {} /\ Written' = Written
         /\ r.writes = 1 => W(n)' = {<<n, 1>>} /\ Written' = Written \cup {<<n, 1>>}
         /\ \A m : <<n, m>> \notin Written
<1>1. units \in Seq(UnitRows) /\ Len(units) \in Nat
  BY UnitTypes
<1>2. /\ units' \in Seq(UnitRows) /\ Len(units') = n /\ n \in Nat
      /\ UnitIds' = UnitIds \cup {n} /\ n \notin UnitIds /\ units'[n] = r
      /\ \A u \in UnitIds : units'[u] = units[u]
  BY <1>1 DEF UnitIds
<1>3. \A u \in UnitIds : W(u)' = W(u) /\ (IsOpen(u)' <=> IsOpen(u))
  BY <1>2 DEF W, Blocks!WritesOf, IsOpen
<1>4. r.writes = 0 => W(n)' = {}
  BY <1>2, WriteIdsPrime
<1>5. r.writes = 1 => W(n)' = {<<n, 1>>}
  <2>1. 1 .. 1 = {1}
    OBVIOUS
  <2> QED
    BY <1>2, <2>1 DEF W, Blocks!WritesOf
<1>6. \A m : <<n, m>> \notin Written
  BY <1>2, WriteIds DEF Written
<1>7. Written' = Written \cup W(n)'
  <2>1. \A x : x \in Written' <=> \E u \in UnitIds' : x \in W(u)'
    BY DEF Written
  <2>2. \A x : x \in Written <=> \E u \in UnitIds : x \in W(u)
    BY DEF Written
  <2> QED
    BY <2>1, <2>2, <1>2, <1>3
<1> QED
  BY <1>2, <1>3, <1>4, <1>5, <1>6, <1>7

(* A unit writes: it has one more write, of which nobody knows.            *)
LEMMA GrownUnit ==
  ASSUME DatabaseTypeOK, NEW u \in UnitIds, units[u].writes < MaxWrites,
         units' = [units EXCEPT ![u].writes = @ + 1]
  PROVE  LET x == <<u, units[u].writes + 1>>
         IN  /\ units' \in Seq(UnitRows) /\ Len(units') = Len(units) /\ UnitIds' = UnitIds
             /\ \A v \in UnitIds : IsOpen(v)' <=> IsOpen(v)
             /\ W(u)' = W(u) \cup {x} /\ \A v \in UnitIds \ {u} : W(v)' = W(v)
             /\ x \notin Written /\ Written' = Written \cup {x} /\ Writes' = Writes
<1> DEFINE k == units[u].writes
           x == <<u, k + 1>>
           r == [units[u] EXCEPT !.writes = k + 1]
<1>1. units \in Seq(UnitRows) /\ units[u] \in UnitRows /\ Len(units) \in Nat
  BY UnitTypes
<1>2. r \in UnitRows /\ r.writes = k + 1 /\ r.status = units[u].status /\ k \in Nat
  <2>1. k \in Nat /\ k + 1 \in 0 .. MaxWrites
    BY <1>1, UnitTypes DEF UnitRows
  <2> QED
    BY <2>1, <1>1 DEF UnitRows
<1>3. /\ units' = [units EXCEPT ![u] = r]
      /\ units' \in Seq(UnitRows) /\ Len(units') = Len(units) /\ UnitIds' = UnitIds
      /\ \A v \in UnitIds : units'[v] = IF v = u THEN r ELSE units[v]
  <2>1. units' = [units EXCEPT ![u] = r]
    OBVIOUS
  <2> HIDE DEF r
  <2>2. /\ units' \in Seq(UnitRows) /\ Len(units') = Len(units)
        /\ \A v \in 1 .. Len(units) : units'[v] = IF v = u THEN r ELSE units[v]
    BY <2>1, <1>1, <1>2, ExceptSeq DEF UnitIds
  <2> QED
    BY <2>1, <2>2 DEF UnitIds
<1> HIDE DEF r
<1>4. \A v \in UnitIds : IsOpen(v)' <=> IsOpen(v)
  BY <1>2, <1>3 DEF IsOpen
<1>5. \A v \in UnitIds \ {u} : W(v)' = W(v)
  BY <1>3 DEF W, Blocks!WritesOf
<1>6. W(u)' = W(u) \cup {x}
  <2>1. 1 .. k + 1 = (1 .. k) \cup {k + 1}
    BY <1>2
  <2>2. units'[u].writes = k + 1
    BY <1>2, <1>3
  <2> QED
    BY <2>1, <2>2 DEF W, Blocks!WritesOf
<1>7. x \notin Written
  <2>1. \A v \in UnitIds : x \in W(v) => v = u
    BY WriteIds
  <2>2. x \notin W(u)
    BY <1>2, WriteIds
  <2> QED
    BY <2>1, <2>2 DEF Written
<1>8. Written' = Written \cup {x}
  <2>1. \A y : y \in Written' <=> \E v \in UnitIds' : y \in W(v)'
    BY DEF Written
  <2>2. \A y : y \in Written <=> \E v \in UnitIds : y \in W(v)
    BY DEF Written
  <2> QED
    BY <2>1, <2>2, <1>3, <1>5, <1>6
<1> QED
  BY <1>3, <1>4, <1>5, <1>6, <1>7, <1>8 DEF Writes

(* A unit ends.                                                            *)
LEMMA EndedUnit ==
  ASSUME DatabaseTypeOK, NEW u \in UnitIds, NEW status \in {"returned", "raised"},
         units' = [units EXCEPT ![u].status = status]
  PROVE  /\ units' \in Seq(UnitRows) /\ Len(units') = Len(units) /\ UnitIds' = UnitIds
         /\ \A v \in UnitIds : W(v)' = W(v) /\ (IsOpen(v)' <=> IsOpen(v) /\ v # u)
         /\ Written' = Written /\ Writes' = Writes
<1> DEFINE r == [units[u] EXCEPT !.status = status]
<1>1. units \in Seq(UnitRows) /\ units[u] \in UnitRows /\ Len(units) \in Nat
  BY UnitTypes
<1>2. r \in UnitRows /\ r.status = status /\ r.writes = units[u].writes
  BY <1>1 DEF UnitRows
<1>3. /\ units' \in Seq(UnitRows) /\ Len(units') = Len(units) /\ UnitIds' = UnitIds
      /\ \A v \in UnitIds : units'[v] = IF v = u THEN r ELSE units[v]
  <2>1. units' = [units EXCEPT ![u] = r]
    OBVIOUS
  <2> HIDE DEF r
  <2> QED
    BY <2>1, <1>1, <1>2, ExceptSeq DEF UnitIds
<1> HIDE DEF r
<1>4. \A v \in UnitIds : W(v)' = W(v) /\ (IsOpen(v)' <=> IsOpen(v) /\ v # u)
  BY <1>2, <1>3 DEF IsOpen, W, Blocks!WritesOf
<1> QED
  BY <1>3, <1>4 DEF Written, Writes

-----------------------------------------------------------------------------
(* What the invariant says of a thread, inside a block and outside.        *)

LEMMA InsideOfBlock ==
  ASSUME DbInv, NEW t \in Threads, threads[t].level > 0
  PROVE  /\ owner = t /\ depth = threads[t].level /\ threads[t].unit \in UnitIds
         /\ \A u \in UnitIds : IsOpen(u) <=> u = threads[t].unit
         /\ \A s \in Threads \ {t} : threads[s] = Outside
  BY DEF DbInv, LockInv, Outside

LEMMA OutsideOfBlocks ==
  ASSUME DbInv, NEW t \in Threads, CanLock(t), threads[t].level = 0
  PROVE  /\ owner = Nobody /\ depth = 0
         /\ \A u \in UnitIds : ~IsOpen(u)
         /\ \A s \in Threads : threads[s] = Outside
<1>1. owner # t
  BY UnitTypes DEF DbInv, LockInv
<1>2. owner = Nobody
  BY <1>1 DEF CanLock
<1>3. Nobody \notin Threads
  BY DatabaseConstants
<1> QED
  BY <1>2, <1>3 DEF DbInv, LockInv

LEMMA OpenUnitIds ==
  ASSUME DatabaseTypeOK
  PROVE  \A u : u \in Blocks!OpenUnits <=> u \in UnitIds /\ IsOpen(u)
  BY UnitTypes DEF Blocks!OpenUnits, IsOpen

LEMMA DbTypes ==
  ASSUME DbInv
  PROVE  /\ DatabaseTypeOK
         /\ backend \in Backends /\ owner \in Threads \cup {Nobody}
         /\ autocommit \in BOOLEAN /\ doubt \in BOOLEAN
         /\ transaction \in {"idle", "open", "failed", "lost"}
         /\ seen \in [Threads -> SUBSET Written]
<1>1. seen \in [Threads -> SUBSET Written]
  BY DEF DbInv, RowsInv, DatabaseTypeOK
<1> QED
  BY <1>1 DEF DbInv, DatabaseTypeOK

(* The types follow from those of the control and from the rows.           *)
LEMMA TypesOfStep ==
  ASSUME MaxWrites \in Nat, units' \in Seq(UnitRows), RowsInv',
         backend' \in Backends, owner' \in Threads \cup {Nobody}, depth' \in 0 .. MaxDepth,
         autocommit' \in BOOLEAN, doubt' \in BOOLEAN,
         transaction' \in {"idle", "open", "failed", "lost"},
         threads' \in [Threads -> [level : 0 .. MaxDepth, unit : 0 .. Len(units')]],
         seen' \in [Threads -> SUBSET Written']
  PROVE  DatabaseTypeOK'
<1>1. Written' \subseteq Writes'
  <2> SUFFICES ASSUME NEW x \in Written'  PROVE x \in Writes'
    OBVIOUS
  <2>1. PICK u \in UnitIds' : x \in W(u)'
    BY DEF Written
  <2>2. PICK n \in 1 .. units'[u].writes : x = <<u, n>>
    BY <2>1, WriteIdsPrime
  <2>3. units'[u] \in UnitRows /\ u \in 1 .. Len(units')
    BY DEF UnitIds
  <2>4. n \in 1 .. MaxWrites
    BY <2>2, <2>3 DEF UnitRows
  <2> QED
    BY <2>2, <2>3, <2>4 DEF Writes
<1>2. buffer' \subseteq Writes' /\ durable' \subseteq Writes' /\ seen' \in [Threads -> SUBSET Writes']
  BY <1>1 DEF RowsInv
<1> QED
  BY <1>2 DEF DatabaseTypeOK, UnitRows

-----------------------------------------------------------------------------
(* Entering a block, and leaving one of several.                           *)

LEMMA EnterFirstStep ==
  ASSUME DbInv, NEW t \in Threads, Enter(t), threads[t].level = 0
  PROVE  DbInv' /\ [Blocks!Next]_blockVars
<1> DEFINE r == [kind |-> "block", writes |-> 0, status |-> "open"]
<1>1. PICK n : n = Len(units) + 1
  OBVIOUS
<1>2. /\ owner = Nobody /\ depth = 0 /\ \A u \in UnitIds : ~IsOpen(u)
      /\ \A s \in Threads : threads[s] = Outside
  BY OutsideOfBlocks DEF Enter
<1>3. /\ Begin /\ owner' = t /\ depth' = 1 /\ units' = Append(units, r)
      /\ threads' = [threads EXCEPT ![t] = [level |-> 1, unit |-> n]]
      /\ backend' = backend /\ doubt' = doubt /\ seen' = seen
  BY <1>1, <1>2 DEF Enter
<1>4. r \in UnitRows /\ r.writes = 0 /\ r.status = "open"
  BY UnitTypes, DbTypes DEF UnitRows
<1> HIDE DEF r
<1>5. /\ units' \in Seq(UnitRows) /\ Len(units') = n /\ n \in Nat
      /\ UnitIds' = UnitIds \cup {n} /\ n \notin UnitIds /\ units'[n] = r
      /\ \A u \in UnitIds : W(u)' = W(u) /\ (IsOpen(u)' <=> IsOpen(u))
      /\ W(n)' = {} /\ Written' = Written
  BY <1>1, <1>3, <1>4, DbTypes, AppendedUnit
<1>6. IsOpen(n)'
  BY <1>4, <1>5 DEF IsOpen
<1>7. /\ transaction = "idle" /\ buffer = {} /\ buffer' = {} /\ durable' = durable
      /\ transaction' \in {"idle", "open"} /\ autocommit' \in BOOLEAN
      /\ transaction' = "idle" => ~autocommit'
  BY <1>3, DbTypes DEF Begin, DbInv, ConnectionInv
<1>8. \A s \in Threads : threads'[s] = IF s = t THEN [level |-> 1, unit |-> n] ELSE Outside
  BY <1>2, <1>3, UnitTypes, DbTypes
<1>9. LockInv'
  <2>1. Nobody # t /\ n \in UnitIds'
    BY <1>5, DatabaseConstants
  <2> QED
    BY <2>1, <1>2, <1>3, <1>5, <1>6, <1>8 DEF LockInv, Outside
<1>10. ConnectionInv'
  <2>1. threads'[owner'].unit = n
    BY <1>3, <1>8
  <2>2. W(threads[owner].unit)' = {}
    BY <2>1, <1>5 DEF W, Blocks!WritesOf
  <2> QED
    BY <2>2, <1>3, <1>7 DEF ConnectionInv
<1>11. RowsInv'
  <2>1. \A u \in UnitIds : IsOpen(u)' <=> FALSE
    BY <1>2, <1>5
  <2>2. /\ durable \subseteq Written /\ \A s \in Threads : seen[s] \subseteq Written
        /\ \A u \in UnitIds : Whole(durable, u) /\ \A s \in Threads : Whole(seen[s], u)
    BY <1>2 DEF DbInv, RowsInv
  <2>3. \A u \in UnitIds : /\ Whole(durable, u)' /\ Whole(buffer, u)'
                           /\ \A s \in Threads : Whole(seen[s], u)'
    BY <2>2, <1>3, <1>5, <1>7 DEF Whole
  <2> QED
    BY <2>1, <2>2, <2>3, <1>3, <1>5, <1>6, <1>7 DEF RowsInv
<1>12. DatabaseTypeOK'
  <2>1. threads' \in [Threads -> [level : 0 .. MaxDepth, unit : 0 .. Len(units')]]
    <3>1. [level |-> 1, unit |-> n] \in [level : 0 .. MaxDepth, unit : 0 .. n]
      BY <1>5, DatabaseConstants
    <3>2. Outside \in [level : 0 .. MaxDepth, unit : 0 .. n]
      BY <1>5, DatabaseConstants DEF Outside
    <3>3. threads' = [s \in Threads |-> threads'[s]]
      BY <1>3, UnitTypes, DbTypes
    <3> QED
      BY <3>1, <3>2, <3>3, <1>5, <1>8
  <2>2. depth' \in 0 .. MaxDepth /\ MaxWrites \in Nat
    BY <1>3, DatabaseConstants
  <2> QED
    BY <2>1, <2>2, <1>3, <1>5, <1>7, <1>11, DbTypes, TypesOfStep
<1>13. Blocks!Open
  <2>1. Blocks!OpenUnits = {}
    BY <1>2, DbTypes, OpenUnitIds
  <2> QED
    BY <2>1, <1>3, <1>7 DEF Blocks!Open, r
<1> QED
  BY <1>9, <1>10, <1>11, <1>12, <1>13 DEF DbInv, Blocks!Next

(* A step that only counts blocks of the owner, up or down, or returns     *)
(* from a query, changes nothing that the invariant relates.               *)
LEMMA CountStep ==
  ASSUME DbInv, NEW t \in Threads, threads[t].level > 0, NEW d \in 1 .. MaxDepth,
         owner' = t, depth' = d, threads' = [threads EXCEPT ![t].level = d],
         UNCHANGED <<backend, connection, units, doubt, seen>>
  PROVE  DbInv' /\ UNCHANGED blockVars
<1>1. /\ owner = t /\ depth = threads[t].level /\ threads[t].unit \in UnitIds
      /\ \A u \in UnitIds : IsOpen(u) <=> u = threads[t].unit
      /\ \A s \in Threads \ {t} : threads[s] = Outside
  BY InsideOfBlock
<1>2. /\ UnitIds' = UnitIds /\ Written' = Written /\ Writes' = Writes
      /\ \A u : W(u)' = W(u) /\ (IsOpen(u)' <=> IsOpen(u))
  BY SameUnits
<1>3. threads \in [Threads -> [level : 0 .. MaxDepth, unit : 0 .. Len(units)]]
  BY UnitTypes, DbTypes
<1>4. /\ threads'[t].level = d /\ threads'[t].unit = threads[t].unit
      /\ \A s \in Threads \ {t} : threads'[s] = Outside
      /\ threads' \in [Threads -> [level : 0 .. MaxDepth, unit : 0 .. Len(units)]]
  <2> DEFINE row == [threads[t] EXCEPT !.level = d]
  <2>1. /\ row \in [level : 0 .. MaxDepth, unit : 0 .. Len(units)]
        /\ row.level = d /\ row.unit = threads[t].unit
    BY <1>3, DatabaseConstants
  <2>2. threads' = [threads EXCEPT ![t] = row]
    OBVIOUS
  <2> HIDE DEF row
  <2> QED
    BY <2>1, <2>2, <1>1, <1>3
<1>5. LockInv'
  BY <1>1, <1>2, <1>4, DatabaseConstants DEF LockInv, Outside
<1>6. ConnectionInv'
  <2>1. W(threads[owner].unit)' = W(threads[owner].unit)
    BY <1>1, <1>4 DEF W, Blocks!WritesOf
  <2>2. depth > 0 /\ depth' > 0
    BY <1>1
  <2> QED
    BY <2>1, <2>2 DEF DbInv, ConnectionInv, connection
<1>7. RowsInv'
  <2>1. durable' = durable /\ buffer' = buffer
    BY DEF connection
  <2> QED
    BY <1>1, <1>2, <2>1 DEF DbInv, RowsInv, Whole
<1>8. DatabaseTypeOK'
  <2>1. /\ units' \in Seq(UnitRows) /\ autocommit' = autocommit /\ transaction' = transaction
        /\ depth' \in 0 .. MaxDepth /\ MaxWrites \in Nat
    BY UnitTypes, DbTypes DEF connection
  <2> QED
    BY <2>1, <1>2, <1>4, <1>7, DbTypes, TypesOfStep
<1> QED
  BY <1>5, <1>6, <1>7, <1>8 DEF DbInv, blockVars, connection

LEMMA EnterInnerStep ==
  ASSUME DbInv, NEW t \in Threads, Enter(t), threads[t].level # 0
  PROVE  DbInv' /\ UNCHANGED blockVars
<1>1. threads[t].level \in 0 .. MaxDepth /\ MaxDepth \in Nat
  BY UnitTypes, DbTypes
<1>2. threads[t].level > 0
  BY <1>1
<1>3. depth = threads[t].level
  BY <1>2, InsideOfBlock
<1>4. /\ owner' = t /\ depth' = threads[t].level + 1
      /\ threads' = [threads EXCEPT ![t].level = threads[t].level + 1]
      /\ threads[t].level + 1 \in 1 .. MaxDepth
      /\ UNCHANGED <<backend, connection, units, doubt, seen>>
  BY <1>1, <1>2, <1>3 DEF Enter
<1> QED
  BY <1>2, <1>4, CountStep

LEMMA ExitInnerStep ==
  ASSUME DbInv, NEW t \in Threads, ExitInner(t)
  PROVE  DbInv' /\ UNCHANGED blockVars
<1>1. threads[t].level \in 0 .. MaxDepth /\ threads[t].level > 1
  BY UnitTypes, DbTypes DEF ExitInner
<1>2. owner = t /\ depth = threads[t].level
  BY <1>1, InsideOfBlock
<1>3. /\ owner' = t /\ depth' = threads[t].level - 1
      /\ threads' = [threads EXCEPT ![t].level = threads[t].level - 1]
      /\ threads[t].level - 1 \in 1 .. MaxDepth
      /\ UNCHANGED <<backend, connection, units, doubt, seen>>
  BY <1>1, <1>2, DatabaseConstants DEF ExitInner
<1>4. threads[t].level > 0
  BY <1>1
<1> QED
  BY <1>3, <1>4, CountStep

-----------------------------------------------------------------------------
(* Statements.                                                             *)

LEMMA SameControl ==
  ASSUME DbInv, UNCHANGED <<owner, depth, threads>>, UnitIds' = UnitIds,
         \A u \in UnitIds : IsOpen(u)' <=> IsOpen(u)
  PROVE  LockInv'
<1>1. \A t \in Threads : threads[t].unit \in UnitIds => (IsOpen(threads[t].unit)' <=> IsOpen(threads[t].unit))
  <2> TAKE t \in Threads
  <2>1. PICK n : n = threads[t].unit
    OBVIOUS
  <2>2. n \in UnitIds => (IsOpen(n)' <=> IsOpen(n))
    OBVIOUS
  <2> QED
    BY <2>1, <2>2 DEF IsOpen
<1> QED
  BY <1>1 DEF DbInv, LockInv

LEMMA ExecuteInsideStep ==
  ASSUME DbInv, NEW t \in Threads, execute(t), threads[t].level > 0
  PROVE  DbInv' /\ [Blocks!Next]_blockVars
<1>1. PICK u : u = threads[t].unit
  OBVIOUS
<1> DEFINE x == <<u, units[u].writes + 1>>
<1>2. /\ owner = t /\ depth > 0 /\ u \in UnitIds /\ \A v \in UnitIds : IsOpen(v) <=> v = u
  BY <1>1, InsideOfBlock
<1>3. /\ units[u].writes < MaxWrites /\ Run({x})
      /\ units' = [units EXCEPT ![u].writes = @ + 1]
      /\ UNCHANGED <<backend, owner, depth, threads, doubt, seen>>
  BY <1>1 DEF execute
<1>4. /\ units' \in Seq(UnitRows) /\ Len(units') = Len(units) /\ UnitIds' = UnitIds
      /\ \A v \in UnitIds : IsOpen(v)' <=> IsOpen(v)
      /\ W(u)' = W(u) \cup {x} /\ \A v \in UnitIds \ {u} : W(v)' = W(v)
      /\ x \notin Written /\ Written' = Written \cup {x}
  BY <1>2, <1>3, DbTypes, GrownUnit
<1> HIDE DEF x
<1>5. buffer = W(u) /\ (transaction = "idle" => ~autocommit)
  <2>1. transaction \in {"idle", "open"}
    BY <1>3 DEF Run
  <2> QED
    BY <2>1, <1>1, <1>2 DEF DbInv, ConnectionInv
<1>6. /\ transaction' = "open" /\ buffer' = buffer \cup {x} /\ durable' = durable
      /\ autocommit' = autocommit
  BY <1>3, <1>5 DEF Run
<1>7. LockInv'
  BY <1>3, <1>4, SameControl
<1>8. ConnectionInv'
  <2>1. threads'[owner'].unit = u
    BY <1>1, <1>2, <1>3
  <2>2. W(threads[owner].unit)' = buffer'
    BY <2>1, <1>4, <1>5, <1>6 DEF W, Blocks!WritesOf
  <2> QED
    BY <2>2, <1>2, <1>3, <1>6 DEF ConnectionInv
<1>9. RowsInv'
  <2>1. /\ durable \subseteq Written /\ buffer \subseteq Written
        /\ \A s \in Threads : seen[s] \subseteq Written
        /\ durable \cap W(u) = {} /\ \A s \in Threads \ {t} : seen[s] \cap W(u) = {}
        /\ \A v \in UnitIds \ {u} : /\ Whole(durable, v) /\ Whole(buffer, v)
                                    /\ \A s \in Threads : Whole(seen[s], v)
    BY <1>2 DEF DbInv, RowsInv
  <2>2. \A v \in UnitIds \ {u} : W(v)' = W(v) /\ x \notin W(v)
    BY <1>4 DEF Written
  <2>3. \A v \in UnitIds \ {u} : /\ Whole(durable, v)' /\ Whole(buffer, v)'
                                 /\ \A s \in Threads : Whole(seen[s], v)'
    BY <2>1, <2>2, <1>3, <1>6 DEF Whole
  <2>4. durable' \cap W(u)' = {} /\ \A s \in Threads \ {t} : seen'[s] \cap W(u)' = {}
    BY <2>1, <1>3, <1>4, <1>6
  <2>5. /\ durable' \subseteq Written' /\ buffer' \subseteq Written'
        /\ \A s \in Threads : seen'[s] \subseteq Written'
    BY <2>1, <1>3, <1>4, <1>6
  <2> QED
    BY <2>3, <2>4, <2>5, <1>2, <1>3, <1>4 DEF RowsInv
<1>10. DatabaseTypeOK'
  <2>1. /\ threads' \in [Threads -> [level : 0 .. MaxDepth, unit : 0 .. Len(units')]]
        /\ depth' \in 0 .. MaxDepth /\ MaxWrites \in Nat
    BY <1>3, <1>4, UnitTypes, DbTypes
  <2>2. seen' \in [Threads -> SUBSET Written']
    BY <1>3, <1>4, DbTypes
  <2> QED
    BY <2>1, <2>2, <1>3, <1>4, <1>6, <1>9, DbTypes, TypesOfStep
<1>11. Blocks!Write(u) /\ u \in DOMAIN units
  BY <1>2, <1>3, <1>6, DbTypes, OpenUnitIds, UnitTypes DEF Blocks!Write
<1> QED
  BY <1>7, <1>8, <1>9, <1>10, <1>11 DEF DbInv, Blocks!Next

LEMMA ExecuteAloneStep ==
  ASSUME DbInv, NEW t \in Threads, execute(t), ~(threads[t].level > 0)
  PROVE  DbInv' /\ [Blocks!Next]_blockVars
<1> DEFINE r == [kind |-> "lone", writes |-> 1, status |-> "returned"]
           x == <<Len(units) + 1, 1>>
<1>1. PICK n : n = Len(units) + 1
  OBVIOUS
<1>2. /\ owner = Nobody /\ depth = 0 /\ \A u \in UnitIds : ~IsOpen(u)
  <2>1. threads[t].level = 0
    BY UnitTypes, DbTypes
  <2> QED
    BY <2>1, OutsideOfBlocks DEF execute
<1>3. /\ Run({<<n, 1>>}) /\ units' = Append(units, r)
      /\ UNCHANGED <<backend, owner, depth, threads, doubt, seen>>
  BY <1>1 DEF execute
<1>4. r \in UnitRows /\ r.writes = 1 /\ r.status = "returned"
  BY DatabaseConstants DEF UnitRows
<1> HIDE DEF r
<1>5. /\ units' \in Seq(UnitRows) /\ Len(units') = n /\ n \in Nat
      /\ UnitIds' = UnitIds \cup {n} /\ n \notin UnitIds /\ units'[n] = r
      /\ \A u \in UnitIds : W(u)' = W(u) /\ (IsOpen(u)' <=> IsOpen(u))
      /\ W(n)' = {<<n, 1>>} /\ Written' = Written \cup {<<n, 1>>}
      /\ <<n, 1>> \notin Written
  BY <1>1, <1>3, <1>4, DbTypes, AppendedUnit
<1>6. \A u \in UnitIds' : ~IsOpen(u)'
  BY <1>2, <1>4, <1>5 DEF IsOpen
<1>7. /\ autocommit' = autocommit
      /\ \/ /\ transaction = "idle" /\ autocommit /\ transaction' = "idle"
            /\ durable' = durable \cup {<<n, 1>>} /\ buffer' = buffer
         \/ /\ doubt /\ transaction' = "open"
            /\ durable' = durable /\ buffer' = buffer \cup {<<n, 1>>}
  BY <1>2, <1>3 DEF Run, DbInv, ConnectionInv
<1>8. LockInv'
  BY <1>2, <1>3, <1>6 DEF DbInv, LockInv
<1>9. ConnectionInv'
  BY <1>2, <1>3, <1>7 DEF DbInv, ConnectionInv
<1>10. RowsInv'
  <2>1. /\ durable \subseteq Written /\ buffer \subseteq Written
        /\ \A s \in Threads : seen[s] \subseteq Written
        /\ \A v \in UnitIds : /\ Whole(durable, v) /\ Whole(buffer, v)
                              /\ \A s \in Threads : Whole(seen[s], v)
    BY <1>2 DEF DbInv, RowsInv
  <2>2. \A v \in UnitIds : W(v)' = W(v) /\ <<n, 1>> \notin W(v)
    BY <1>5 DEF Written
  <2>3. \A v \in UnitIds : /\ Whole(durable, v)' /\ Whole(buffer, v)'
                           /\ \A s \in Threads : Whole(seen[s], v)'
    BY <2>1, <2>2, <1>3, <1>7 DEF Whole
  <2>4. Whole(durable, n)' /\ Whole(buffer, n)' /\ \A s \in Threads : Whole(seen[s], n)'
    BY <1>5 DEF Whole
  <2>5. /\ durable' \subseteq Written' /\ buffer' \subseteq Written'
        /\ \A s \in Threads : seen'[s] \subseteq Written'
    BY <2>1, <1>3, <1>5, <1>7
  <2> QED
    BY <2>3, <2>4, <2>5, <1>5, <1>6 DEF RowsInv
<1>11. DatabaseTypeOK'
  <2>1. /\ threads' \in [Threads -> [level : 0 .. MaxDepth, unit : 0 .. Len(units')]]
        /\ depth' \in 0 .. MaxDepth /\ MaxWrites \in Nat
    <3>1. threads \in [Threads -> [level : 0 .. MaxDepth, unit : 0 .. Len(units)]]
      BY UnitTypes, DbTypes
    <3>2. \A i \in 0 .. Len(units) : i \in 0 .. Len(units')
      BY <1>1, <1>5, UnitTypes, DbTypes
    <3> QED
      BY <3>1, <3>2, <1>3, UnitTypes, DbTypes
  <2>2. seen' \in [Threads -> SUBSET Written']
    BY <1>3, <1>5, DbTypes
  <2>3. transaction' \in {"idle", "open", "failed", "lost"}
    BY <1>7
  <2> QED
    BY <2>1, <2>2, <2>3, <1>3, <1>5, <1>7, <1>10, DbTypes, TypesOfStep
<1>12. Blocks!Statement
  <2>1. Blocks!OpenUnits = {}
    BY <1>2, DbTypes, OpenUnitIds
  <2>2. units' = Append(units, [kind |-> "lone", writes |-> 1, status |-> "returned"])
    BY <1>3 DEF r
  <2> QED
    BY <2>1, <2>2, <1>3, <1>5, <1>7 DEF Blocks!Statement
<1> QED
  BY <1>8, <1>9, <1>10, <1>11, <1>12 DEF DbInv, Blocks!Next

LEMMA QueryStep ==
  ASSUME DbInv, NEW t \in Threads, query(t)
  PROVE  DbInv' /\ UNCHANGED blockVars
<1>1. /\ owner \in {Nobody, t} /\ Run({}) /\ seen' = [seen EXCEPT ![t] = durable \cup buffer]
      /\ UNCHANGED <<backend, owner, depth, threads, units, doubt>>
  BY DEF query, CanLock
<1>2. /\ autocommit' = autocommit /\ durable' = durable /\ buffer' = buffer
      /\ \/ transaction' = transaction /\ transaction = "idle" /\ autocommit
         \/ transaction' = "open" /\ transaction \in {"idle", "open"} /\ (transaction = "idle" => ~autocommit)
  BY <1>1 DEF Run
<1>3. /\ UnitIds' = UnitIds /\ Written' = Written
      /\ \A u : W(u)' = W(u) /\ (IsOpen(u)' <=> IsOpen(u))
  BY <1>1, SameUnits
<1>4. seen \in [Threads -> SUBSET Written] /\ durable \subseteq Written /\ buffer \subseteq Written
  BY DbTypes DEF DbInv, RowsInv
<1>5. /\ \A s \in Threads : seen'[s] = IF s = t THEN durable \cup buffer ELSE seen[s]
      /\ seen' \in [Threads -> SUBSET Written']
  BY <1>1, <1>3, <1>4
<1>6. LockInv'
  BY <1>1, <1>3, SameControl
<1>7. ConnectionInv'
  <2>1. W(threads[owner].unit)' = W(threads[owner].unit)
    BY <1>1 DEF W, Blocks!WritesOf
  <2> QED
    BY <2>1, <1>1, <1>2 DEF DbInv, ConnectionInv
<1>8. RowsInv'
  <2>1. ASSUME NEW u \in UnitIds, IsOpen(u)
        PROVE  owner = t
    BY <2>1, <1>1 DEF DbInv, LockInv
  <2>2. ASSUME NEW u \in UnitIds, IsOpen(u)
        PROVE  /\ durable' \cap W(u)' = {}
               /\ \A s \in Threads \ {owner'} : seen'[s] \cap W(u)' = {}
    BY <2>1, <2>2, <1>1, <1>2, <1>3, <1>5 DEF DbInv, RowsInv
  <2>3. ASSUME NEW u \in UnitIds, ~IsOpen(u)
        PROVE  Whole(durable, u)' /\ Whole(buffer, u)' /\ \A s \in Threads : Whole(seen[s], u)'
    <3>1. Whole(durable, u) /\ Whole(buffer, u) /\ \A s \in Threads : Whole(seen[s], u)
      BY <2>3 DEF DbInv, RowsInv
    <3>2. Whole(durable \cup buffer, u)
      BY <3>1 DEF Whole
    <3> QED
      BY <3>1, <3>2, <1>2, <1>3, <1>5 DEF Whole
  <2> QED
    BY <2>2, <2>3, <1>2, <1>3, <1>4, <1>5 DEF RowsInv
<1>9. DatabaseTypeOK'
  <2>1. /\ units' \in Seq(UnitRows) /\ depth' \in 0 .. MaxDepth /\ MaxWrites \in Nat
        /\ threads' \in [Threads -> [level : 0 .. MaxDepth, unit : 0 .. Len(units')]]
    BY <1>1, UnitTypes, DbTypes
  <2>2. transaction' \in {"idle", "open", "failed", "lost"}
    BY <1>2
  <2> QED
    BY <2>1, <2>2, <1>1, <1>2, <1>5, <1>8, DbTypes, TypesOfStep
<1> QED
  BY <1>1, <1>2, <1>6, <1>7, <1>8, <1>9 DEF DbInv, blockVars

-----------------------------------------------------------------------------
(* The connection fails, a unit ends, the process restarts.                *)

LEMMA FailureStep ==
  ASSUME DbInv, UNCHANGED <<backend, owner, depth, autocommit, durable, threads, units, doubt, seen>>,
         buffer' = {}, transaction' \in {"failed", "lost"},
         transaction' = "failed" => depth = 0 /\ doubt
  PROVE  DbInv' /\ UNCHANGED blockVars
<1>1. /\ UnitIds' = UnitIds /\ Written' = Written
      /\ \A u : W(u)' = W(u) /\ (IsOpen(u)' <=> IsOpen(u))
  BY SameUnits
<1>2. LockInv'
  BY <1>1, SameControl
<1>3. ConnectionInv'
  <2>1. depth \in Nat
    BY UnitTypes, DbTypes
  <2> QED
    BY <2>1 DEF DbInv, ConnectionInv
<1>4. RowsInv'
  BY <1>1 DEF DbInv, RowsInv, Whole
<1>5. DatabaseTypeOK'
  <2>1. /\ units' \in Seq(UnitRows) /\ depth' \in 0 .. MaxDepth /\ MaxWrites \in Nat
        /\ threads' \in [Threads -> [level : 0 .. MaxDepth, unit : 0 .. Len(units')]]
    BY UnitTypes, DbTypes
  <2> QED
    BY <2>1, <1>1, <1>4, DbTypes, TypesOfStep
<1> QED
  BY <1>2, <1>3, <1>4, <1>5 DEF DbInv, blockVars

(* What Exit, ExitFails and Raise have in common.                          *)
LEMMA LeaveStep ==
  ASSUME DbInv, NEW t \in Threads, threads[t].level > 0,
         NEW status \in {"returned", "raised"}, Leave(t, status), depth' = 0,
         durable' \in {durable, durable \cup W(threads[t].unit)},
         buffer' \in {{}, W(threads[t].unit)}, transaction' # "open" => buffer' = {},
         autocommit' \in BOOLEAN, doubt' \in BOOLEAN,
         transaction' \in {"idle", "open", "failed", "lost"},
         ~doubt' => transaction' = "lost" \/ (transaction' = "idle" /\ autocommit')
  PROVE  /\ DbInv'
         /\ threads[t].unit \in DOMAIN units /\ threads[t].unit \in Blocks!OpenUnits
         /\ units' = [units EXCEPT ![threads[t].unit].status = status]
<1>1. PICK u : u = threads[t].unit
  OBVIOUS
<1>2. /\ owner = t /\ u \in UnitIds /\ \A v \in UnitIds : IsOpen(v) <=> v = u
      /\ \A s \in Threads \ {t} : threads[s] = Outside
  BY <1>1, InsideOfBlock
<1>3. /\ owner' = Nobody /\ threads' = [threads EXCEPT ![t] = Outside]
      /\ units' = [units EXCEPT ![u].status = status]
      /\ seen' = [seen EXCEPT ![t] = {}] /\ backend' = backend
  BY <1>1 DEF Leave
<1>4. /\ units' \in Seq(UnitRows) /\ Len(units') = Len(units) /\ UnitIds' = UnitIds
      /\ \A v \in UnitIds : W(v)' = W(v) /\ ~IsOpen(v)'
      /\ Written' = Written
  BY <1>2, <1>3, DbTypes, EndedUnit
<1>5. /\ threads' \in [Threads -> [level : 0 .. MaxDepth, unit : 0 .. Len(units')]]
      /\ \A s \in Threads : threads'[s] = Outside
  <2>1. /\ threads \in [Threads -> [level : 0 .. MaxDepth, unit : 0 .. Len(units)]]
        /\ Outside \in [level : 0 .. MaxDepth, unit : 0 .. Len(units)]
    BY UnitTypes, DbTypes DEF Outside
  <2> QED
    BY <2>1, <1>2, <1>3, <1>4
<1>6. /\ seen \in [Threads -> SUBSET Written]
      /\ seen' \in [Threads -> SUBSET Written']
      /\ \A s \in Threads : seen'[s] = IF s = t THEN {} ELSE seen[s]
  BY <1>3, <1>4, DbTypes
<1>7. LockInv'
  BY <1>3, <1>4, <1>5, DatabaseConstants DEF LockInv
<1>8. ConnectionInv'
  BY DEF ConnectionInv
<1>9. RowsInv'
  <2>1. /\ durable \subseteq Written /\ buffer \subseteq Written /\ W(u) \subseteq Written
        /\ durable \cap W(u) = {} /\ \A s \in Threads \ {t} : seen[s] \cap W(u) = {}
        /\ \A v \in UnitIds \ {u} : Whole(durable, v) /\ \A s \in Threads : Whole(seen[s], v)
    BY <1>2 DEF DbInv, RowsInv, Written
  <2>2. \A v \in UnitIds \ {u} : W(v) \cap W(u) = {}
    BY WriteIds
  <2>3. \A v \in UnitIds : Whole(durable', v)
    BY <2>1, <2>2, <1>1 DEF Whole
  <2>4. \A v \in UnitIds : Whole(buffer', v)
    BY <2>2, <1>1 DEF Whole
  <2>5. \A v \in UnitIds, s \in Threads : Whole(seen'[s], v)
    BY <2>1, <1>6 DEF Whole
  <2>6. \A v \in UnitIds : /\ Whole(durable, v)' /\ Whole(buffer, v)'
                           /\ \A s \in Threads : Whole(seen[s], v)'
    BY <2>3, <2>4, <2>5, <1>4 DEF Whole
  <2> QED
    BY <2>1, <2>6, <1>1, <1>4, <1>6 DEF RowsInv
<1>10. DatabaseTypeOK'
  BY <1>3, <1>4, <1>5, <1>6, <1>9, DbTypes, UnitTypes, TypesOfStep
<1>11. u \in DOMAIN units /\ u \in Blocks!OpenUnits
  BY <1>2, DbTypes, OpenUnitIds, UnitTypes
<1> QED
  BY <1>1, <1>3, <1>7, <1>8, <1>9, <1>10, <1>11 DEF DbInv

LEMMA ExitStep ==
  ASSUME DbInv, NEW t \in Threads, Exit(t)
  PROVE  DbInv' /\ [Blocks!Next]_blockVars
<1>1. threads[t].level > 0 /\ threads[t].level = 1 /\ Leave(t, "returned")
  BY DEF Exit
<1>2. depth = 1 /\ owner = t
  BY <1>1, InsideOfBlock
<1>3. depth' = 0 /\ Commit /\ doubt' = FALSE
  BY <1>2 DEF Exit
<1>4. buffer = W(threads[t].unit)
  BY <1>2, <1>3 DEF Commit, DbInv, ConnectionInv
<1>5. /\ durable' = durable \cup W(threads[t].unit) /\ buffer' = {}
      /\ transaction' = "idle" /\ autocommit' = TRUE
  BY <1>3, <1>4 DEF Commit
<1>6. /\ DbInv'
      /\ threads[t].unit \in DOMAIN units /\ threads[t].unit \in Blocks!OpenUnits
      /\ units' = [units EXCEPT ![threads[t].unit].status = "returned"]
  BY <1>1, <1>3, <1>5, LeaveStep
<1>7. Blocks!Return(threads[t].unit)
  BY <1>3, <1>5, <1>6 DEF Blocks!Return, W
<1> QED
  BY <1>6, <1>7 DEF Blocks!Next

LEMMA ExitFailsStep ==
  ASSUME DbInv, NEW t \in Threads, ExitFails(t)
  PROVE  DbInv' /\ [Blocks!Next]_blockVars
<1>1. /\ threads[t].level > 0 /\ depth > 0 /\ Leave(t, "raised") /\ depth' = 0 /\ doubt' = TRUE
      /\ CommitError
  BY DEF ExitFails
<1>2. owner = t
  BY <1>1, InsideOfBlock
<1>3. transaction \in {"idle", "open"} => buffer = W(threads[t].unit)
  BY <1>1, <1>2 DEF DbInv, ConnectionInv
<1>4. transaction # "open" => buffer = {}
  BY DEF DbInv, ConnectionInv
<1>5. /\ durable' \in {durable, durable \cup W(threads[t].unit)}
      /\ buffer' \in {{}, W(threads[t].unit)} /\ (transaction' # "open" => buffer' = {})
      /\ autocommit' \in BOOLEAN
      /\ transaction' \in {"idle", "open", "failed", "lost"}
  BY <1>1, <1>3, <1>4, DbTypes DEF CommitError
<1>6. /\ DbInv'
      /\ threads[t].unit \in DOMAIN units /\ threads[t].unit \in Blocks!OpenUnits
      /\ units' = [units EXCEPT ![threads[t].unit].status = "raised"]
  BY <1>1, <1>5, LeaveStep
<1>7. Blocks!CommitRaises(threads[t].unit)
  BY <1>1, <1>5, <1>6 DEF Blocks!CommitRaises, W
<1> QED
  BY <1>6, <1>7 DEF Blocks!Next

LEMMA RaiseStep ==
  ASSUME DbInv, NEW t \in Threads, Raise(t)
  PROVE  DbInv' /\ [Blocks!Next]_blockVars
<1>1. threads[t].level > 0 /\ Leave(t, "raised") /\ doubt' = doubt
  BY DEF Raise
<1>2. depth = threads[t].level /\ depth \in Nat
  BY <1>1, InsideOfBlock, UnitTypes, DbTypes
<1>3. depth' = 0 /\ Rollback
  BY <1>2 DEF Raise
<1>4. /\ durable' = durable /\ buffer' = {} /\ autocommit' \in BOOLEAN
      /\ transaction' = "lost" \/ (transaction' = "idle" /\ autocommit')
  BY <1>3, DbTypes DEF Rollback
<1>5. /\ DbInv'
      /\ threads[t].unit \in DOMAIN units /\ threads[t].unit \in Blocks!OpenUnits
      /\ units' = [units EXCEPT ![threads[t].unit].status = "raised"]
  <2>1. /\ durable' \in {durable, durable \cup W(threads[t].unit)}
        /\ buffer' \in {{}, W(threads[t].unit)} /\ doubt' \in BOOLEAN
        /\ transaction' \in {"idle", "open", "failed", "lost"}
    BY <1>1, <1>4, DbTypes
  <2> QED
    BY <2>1, <1>1, <1>3, <1>4, LeaveStep
<1>6. Blocks!Raise(threads[t].unit)
  BY <1>1, <1>4, <1>5 DEF Blocks!Raise
<1> QED
  BY <1>5, <1>6 DEF Blocks!Next

LEMMA RestartStep ==
  ASSUME DbInv, Restart
  PROVE  DbInv' /\ [Blocks!Next]_blockVars
<1> DEFINE ended(u) == [units[u] EXCEPT !.status = "raised"]
<1>1. /\ owner' = Nobody /\ depth' = 0 /\ autocommit' = TRUE /\ transaction' = "idle"
      /\ buffer' = {} /\ threads' = [t \in Threads |-> Outside] /\ doubt' = FALSE
      /\ seen' = [t \in Threads |-> {}] /\ backend' = backend /\ durable' = durable
  BY DEF Restart
<1>2. /\ units \in Seq(UnitRows) /\ Len(units) \in Nat /\ DOMAIN units = UnitIds
      /\ \A u \in UnitIds : units[u] \in UnitRows
  BY UnitTypes, DbTypes
<1>3. \A u \in UnitIds : /\ ended(u) \in UnitRows /\ ended(u).status = "raised"
                         /\ ended(u).writes = units[u].writes
  BY <1>2 DEF UnitRows
<1>4. units' = [u \in 1 .. Len(units) |-> IF IsOpen(u) THEN ended(u) ELSE units[u]]
  BY <1>2 DEF Restart, IsOpen, UnitIds
<1> HIDE DEF ended
<1>5. /\ units' \in Seq(UnitRows) /\ Len(units') = Len(units) /\ UnitIds' = UnitIds
  <2>1. \A u \in 1 .. Len(units) : (IF IsOpen(u) THEN ended(u) ELSE units[u]) \in UnitRows
    BY <1>2, <1>3 DEF UnitIds
  <2>2. units' \in [1 .. Len(units) -> UnitRows]
    BY <2>1, <1>4
  <2> QED
    BY <2>2, <1>2 DEF UnitIds
<1>6. \A u \in UnitIds : W(u)' = W(u) /\ ~IsOpen(u)'
  <2> TAKE u \in UnitIds
  <2>1. units'[u] = IF IsOpen(u) THEN ended(u) ELSE units[u]
    BY <1>4 DEF UnitIds
  <2>2. units'[u].writes = units[u].writes /\ units'[u].status # "open"
    BY <2>1, <1>3 DEF IsOpen
  <2> QED
    BY <2>2 DEF W, Blocks!WritesOf, IsOpen
<1>7. Written' = Written
  BY <1>5, <1>6 DEF Written
<1>8. LockInv'
  BY <1>1, <1>5, <1>6, DatabaseConstants DEF LockInv
<1>9. ConnectionInv'
  BY <1>1 DEF ConnectionInv
<1>10. RowsInv'
  <2>1. \A u \in UnitIds : durable \cap W(u) = {} \/ W(u) \subseteq durable
    BY DEF DbInv, RowsInv, Whole
  <2>2. durable \subseteq Written
    BY DEF DbInv, RowsInv
  <2>3. \A u \in UnitIds : /\ Whole(durable, u)' /\ Whole(buffer, u)'
                           /\ \A s \in Threads : Whole(seen[s], u)'
    BY <2>1, <1>1, <1>6 DEF Whole
  <2> QED
    BY <2>2, <2>3, <1>1, <1>5, <1>6, <1>7 DEF RowsInv
<1>11. DatabaseTypeOK'
  <2>1. Outside \in [level : 0 .. MaxDepth, unit : 0 .. Len(units')]
    BY <1>2, <1>5, DatabaseConstants DEF Outside
  <2>2. /\ threads' \in [Threads -> [level : 0 .. MaxDepth, unit : 0 .. Len(units')]]
        /\ seen' \in [Threads -> SUBSET Written'] /\ depth' \in 0 .. MaxDepth
    BY <2>1, <1>1, DatabaseConstants
  <2> QED
    BY <2>2, <1>1, <1>5, <1>10, DbTypes, DatabaseConstants, TypesOfStep
<1>12. Blocks!Restart
  <2>1. \A u \in DOMAIN units : u \in Blocks!OpenUnits <=> IsOpen(u)
    BY <1>2, DbTypes, OpenUnitIds
  <2>2. units' = [u \in DOMAIN units |->
                    IF u \in Blocks!OpenUnits THEN [units[u] EXCEPT !.status = "raised"] ELSE units[u]]
    BY <2>1 DEF Restart, IsOpen
  <2> QED
    BY <2>2, <1>1 DEF Blocks!Restart
<1> QED
  BY <1>8, <1>9, <1>10, <1>11, <1>12 DEF DbInv, Blocks!Next

-----------------------------------------------------------------------------
(* The invariant, and what it shows.                                       *)

LEMMA DbInit ==
  ASSUME Init
  PROVE  DbInv /\ Blocks!Init
<1>1. /\ owner = Nobody /\ depth = 0 /\ autocommit = TRUE /\ transaction = "idle"
      /\ buffer = {} /\ durable = {} /\ threads = [t \in Threads |-> Outside]
      /\ units = <<>> /\ doubt = FALSE /\ seen = [t \in Threads |-> {}] /\ backend \in Backends
  BY DEF Init
<1>2. UnitIds = {} /\ Len(units) = 0
  BY <1>1 DEF UnitIds
<1>3. LockInv /\ ConnectionInv /\ RowsInv
  BY <1>1, <1>2, DatabaseConstants DEF LockInv, ConnectionInv, RowsInv
<1>4. DatabaseTypeOK
  <2>1. Outside \in [level : 0 .. MaxDepth, unit : 0 .. Len(units)]
    BY <1>2, DatabaseConstants DEF Outside
  <2>2. threads \in [Threads -> [level : 0 .. MaxDepth, unit : 0 .. Len(units)]]
    BY <2>1, <1>1
  <2>3. /\ units \in Seq([kind : {"block", "lone"}, writes : 0 .. MaxWrites,
                          status : {"open", "returned", "raised"}])
        /\ depth \in 0 .. MaxDepth /\ seen \in [Threads -> SUBSET Writes]
    BY <1>1, DatabaseConstants
  <2> QED
    BY <2>2, <2>3, <1>1 DEF DatabaseTypeOK
<1> QED
  BY <1>1, <1>3, <1>4 DEF DbInv, Blocks!Init

LEMMA DbStep ==
  ASSUME DbInv, [Next]_dbVars
  PROVE  DbInv' /\ [Blocks!Next]_blockVars
<1>1. CASE UNCHANGED dbVars
  <2>1. UNCHANGED <<backend, owner, depth, autocommit, transaction, buffer, durable,
                    threads, units, doubt, seen>>
    BY <1>1 DEF dbVars, connection
  <2>2. /\ UnitIds' = UnitIds /\ Written' = Written /\ Writes' = Writes
        /\ \A u : W(u)' = W(u) /\ (IsOpen(u)' <=> IsOpen(u))
    BY <2>1, SameUnits
  <2>3. LockInv'
    BY <2>1, <2>2, SameControl
  <2>4. ConnectionInv'
    <3>1. W(threads[owner].unit)' = W(threads[owner].unit)
      BY <2>1 DEF W, Blocks!WritesOf
    <3> QED
      BY <3>1, <2>1 DEF DbInv, ConnectionInv
  <2>5. RowsInv' /\ DatabaseTypeOK'
    BY <2>1, <2>2 DEF DbInv, RowsInv, Whole, DatabaseTypeOK
  <2> QED
    BY <2>1, <2>3, <2>4, <2>5 DEF DbInv, blockVars
<1>2. CASE Restart
  BY <1>2, RestartStep
<1>3. CASE ConnectionDrops
  BY <1>3, FailureStep DEF ConnectionDrops
<1>4. ASSUME NEW t \in Threads, Enter(t)
      PROVE  DbInv' /\ [Blocks!Next]_blockVars
  BY <1>4, EnterFirstStep, EnterInnerStep
<1>5. ASSUME NEW t \in Threads, execute(t)
      PROVE  DbInv' /\ [Blocks!Next]_blockVars
  BY <1>5, ExecuteInsideStep, ExecuteAloneStep
<1>6. ASSUME NEW t \in Threads, query(t)
      PROVE  DbInv' /\ [Blocks!Next]_blockVars
  BY <1>6, QueryStep
<1>7. ASSUME NEW t \in Threads, StatementFails(t)
      PROVE  DbInv' /\ [Blocks!Next]_blockVars
  <2>1. depth = 0
    BY <1>7, OutsideOfBlocks DEF StatementFails
  <2>2. doubt
    BY <2>1, <1>7 DEF StatementFails, DbInv, ConnectionInv
  <2> QED
    BY <2>1, <2>2, <1>7, FailureStep DEF StatementFails
<1>8. ASSUME NEW t \in Threads, ExitInner(t)
      PROVE  DbInv' /\ [Blocks!Next]_blockVars
  BY <1>8, ExitInnerStep
<1>9. ASSUME NEW t \in Threads, Exit(t)
      PROVE  DbInv' /\ [Blocks!Next]_blockVars
  BY <1>9, ExitStep
<1>10. ASSUME NEW t \in Threads, ExitFails(t)
       PROVE  DbInv' /\ [Blocks!Next]_blockVars
  BY <1>10, ExitFailsStep
<1>11. ASSUME NEW t \in Threads, Raise(t)
       PROVE  DbInv' /\ [Blocks!Next]_blockVars
  BY <1>11, RaiseStep
<1> QED
  BY <1>1, <1>2, <1>3, <1>4, <1>5, <1>6, <1>7, <1>8, <1>9, <1>10, <1>11 DEF Next

LEMMA DatabaseInvariant == Spec => []DbInv
<1>1. Init => DbInv
  BY DbInit
<1>2. DbInv /\ [Next]_dbVars => DbInv'
  BY DbStep
<1> QED
  BY <1>1, <1>2, PTL DEF Spec

(* Every variable keeps its type: the depth stays in bounds, an inner      *)
(* block never counts below zero, and writes belong to units.              *)
THEOREM DatabaseTypeCorrectness == Spec => []DatabaseTypeOK
<1>1. DbInv => DatabaseTypeOK
  BY DEF DbInv
<1> QED
  BY <1>1, DatabaseInvariant, PTL

(* Database.transaction, execute and query, over both drivers, are the     *)
(* atomic blocks that the stores count on, however threads interleave and  *)
(* wherever a COMMIT or the connection fails.                              *)
THEOREM DatabaseImplementsBlocks == Spec => ImplementsBlocks
<1>1. Init => Blocks!Init
  BY DbInit
<1>2. DbInv /\ [Next]_dbVars => [Blocks!Next]_<<units, durable, doubt>>
  BY DbStep DEF blockVars
<1> QED
  BY <1>1, <1>2, DatabaseInvariant, PTL DEF Spec, ImplementsBlocks, Blocks!Spec

(* A query sees all or nothing of another thread's block, and nothing of   *)
(* one that has not ended.                                                 *)
THEOREM ReadsStayWhole == Spec => []ReadsAreWhole
<1>1. DbInv => ReadsAreWhole
  <2> SUFFICES ASSUME DbInv, NEW t \in Threads, NEW u \in UnitIds,
                      seen[t] \cap W(u) # {}, u # threads[t].unit
               PROVE  W(u) \subseteq seen[t] /\ ~IsOpen(u)
    BY UnitTypes, DbTypes DEF ReadsAreWhole, W, IsOpen
  <2>1. ~IsOpen(u)
    <3> SUFFICES ASSUME IsOpen(u)  PROVE FALSE
      OBVIOUS
    <3>1. u = threads[owner].unit
      BY DEF DbInv, LockInv
    <3>2. t # owner
      BY <3>1
    <3> QED
      BY <3>2 DEF DbInv, RowsInv
  <2>2. Whole(seen[t], u)
    BY <2>1 DEF DbInv, RowsInv
  <2> QED
    BY <2>1, <2>2 DEF Whole
<1> QED
  BY <1>1, DatabaseInvariant, PTL

-----------------------------------------------------------------------------
(* What a caller may rely on.  The abstract steps are enough for it: a     *)
(* unit that returned is as it was, and durable only grows.                *)

Kept(u) == W(u) \subseteq durable
BlocksKept == \A u \in UnitIds : units[u].kind = "block" /\ units[u].status = "returned" => Kept(u)

(* Mid-proof view of a step: what a returned unit was before it.           *)
LEMMA ReturnedBefore ==
  ASSUME DbInv, [Next]_dbVars,
         NEW u \in UnitIds', units'[u].status = "returned", ~Kept(u)'
  PROVE  \/ /\ u \in UnitIds /\ units'[u] = units[u] /\ ~Kept(u)
         \/ units'[u].kind = "lone" /\ doubt
<1>1. [Blocks!Next]_<<units, durable, doubt>>
  BY DbStep DEF blockVars
<1>2. /\ units \in Seq(UnitRows) /\ Len(units) \in Nat /\ DOMAIN units = UnitIds
      /\ \A v \in UnitIds : units[v] \in UnitRows
  BY UnitTypes DEF DbInv
<1>3. \A v : W(v) = {<<v, n>> : n \in 1 .. units[v].writes}
  BY DEF W, Blocks!WritesOf
<1>4. W(u)' = {<<u, n>> : n \in 1 .. units'[u].writes}
  BY DEF W, Blocks!WritesOf
<1>5. Blocks!OpenUnits = {v \in UnitIds : units[v].status = "open"}
  BY <1>2 DEF Blocks!OpenUnits
<1>6. ASSUME u \in UnitIds, units'[u] = units[u], durable \subseteq durable'
      PROVE  ~Kept(u)
  BY <1>3, <1>4, <1>6 DEF Kept
<1>7. CASE UNCHANGED <<units, durable, doubt>>
  BY <1>6, <1>7 DEF UnitIds
<1>8. CASE Blocks!Open
  <2>1. PICK row : row = [kind |-> "block", writes |-> 0, status |-> "open"]
    OBVIOUS
  <2>2. units' = Append(units, row) /\ row.status # "returned" /\ durable' = durable
    BY <1>8, <2>1 DEF Blocks!Open
  <2>3. u \in UnitIds /\ units'[u] = units[u]
    BY <1>2, <2>2 DEF UnitIds
  <2> QED
    BY <1>6, <2>2, <2>3
<1>9. CASE Blocks!Statement
  <2>1. PICK row : row = [kind |-> "lone", writes |-> 1, status |-> "returned"]
    OBVIOUS
  <2>2. units' = Append(units, row) /\ row.kind = "lone" /\ row.writes = 1
    BY <1>9, <2>1 DEF Blocks!Statement
  <2>3. CASE u \in UnitIds
    BY <1>2, <1>6, <1>9, <2>2, <2>3 DEF UnitIds, Blocks!Statement
  <2>4. CASE u \notin UnitIds
    <3>1. u = Len(units') /\ units'[u] = row
      BY <1>2, <2>2, <2>4 DEF UnitIds
    <3>2. W(u)' = {<<Len(units'), 1>>}
      BY <1>4, <2>2, <3>1
    <3> QED
      BY <1>9, <2>2, <3>1, <3>2 DEF Blocks!Statement, Kept
  <2> QED
    BY <2>3, <2>4
<1>10. CASE Blocks!Restart
  <2>1. /\ u \in UnitIds /\ durable' = durable
        /\ units'[u] = IF units[u].status = "open" THEN [units[u] EXCEPT !.status = "raised"]
                                                   ELSE units[u]
    BY <1>2, <1>5, <1>10 DEF UnitIds, Blocks!Restart
  <2>2. units'[u] = units[u]
    BY <1>2, <2>1 DEF UnitRows
  <2> QED
    BY <1>6, <2>1, <2>2
<1>11. ASSUME NEW v \in UnitIds,
              \/ Blocks!Write(v) \/ Blocks!Return(v) \/ Blocks!Raise(v) \/ Blocks!CommitRaises(v)
       PROVE  u \in UnitIds /\ units'[u] = units[u] /\ ~Kept(u)
  <2>1. units[v].status = "open" /\ durable \subseteq durable'
    BY <1>5, <1>11 DEF Blocks!Write, Blocks!Return, Blocks!Raise, Blocks!CommitRaises
  <2>2. u \in UnitIds
    BY <1>2, <1>11 DEF UnitIds, Blocks!Write, Blocks!Return, Blocks!Raise, Blocks!CommitRaises
  <2>3. CASE u # v
    <3>1. units'[u] = units[u]
      BY <1>2, <1>11, <2>2, <2>3
         DEF Blocks!Write, Blocks!Return, Blocks!Raise, Blocks!CommitRaises
    <3> QED
      BY <1>6, <2>1, <2>2, <3>1
  <2>4. CASE u = v
    <3>1. ~Blocks!Write(v) /\ ~Blocks!Raise(v) /\ ~Blocks!CommitRaises(v)
      BY <1>2, <2>1, <2>4
         DEF Blocks!Write, Blocks!Raise, Blocks!CommitRaises, UnitRows
    <3>2. units' = [units EXCEPT ![v].status = "returned"] /\ durable' = durable \cup W(v)
      BY <1>11, <3>1 DEF Blocks!Return, W
    <3>3. units'[u].writes = units[u].writes
      BY <1>2, <2>2, <2>4, <3>2 DEF UnitRows
    <3> QED
      BY <1>3, <1>4, <2>4, <3>2, <3>3 DEF Kept
  <2> QED
    BY <2>3, <2>4
<1> QED
  BY <1>1, <1>2, <1>7, <1>8, <1>9, <1>10, <1>11 DEF Blocks!Next

(* A block that returned is durable as a whole and stays so, whatever else *)
(* failed before or since: another COMMIT, the connection, the process.    *)
THEOREM ReturnedBlocksAreDurable == Spec => []BlocksKept
<1>1. Init => BlocksKept
  BY DEF Init, BlocksKept, UnitIds
<1>2. DbInv /\ BlocksKept /\ [Next]_dbVars => BlocksKept'
  <2> SUFFICES ASSUME DbInv, BlocksKept, [Next]_dbVars, NEW u \in UnitIds',
                      units'[u].kind = "block", units'[u].status = "returned", ~Kept(u)'
               PROVE  FALSE
    BY DEF BlocksKept
  <2> QED
    BY ReturnedBefore DEF BlocksKept
<1> QED
  BY <1>1, <1>2, DatabaseInvariant, PTL DEF Spec

(* As long as no COMMIT raises, lone statements that returned are durable, *)
(* too: the failed COMMIT is the only thing that loses them.               *)
THEOREM StatementsAreDurable == Spec /\ []~doubt => []ReturnedIsDurable
<1>1. Init => ReturnedIsDurable
  BY DEF Init, ReturnedIsDurable
<1>2. DbInv /\ ReturnedIsDurable /\ [Next]_dbVars /\ ~doubt => ReturnedIsDurable'
  <2> SUFFICES ASSUME DbInv, ReturnedIsDurable, [Next]_dbVars, ~doubt, NEW u \in DOMAIN units',
                      units'[u].status = "returned", ~(Blocks!WritesOf(u) \subseteq durable)'
               PROVE  FALSE
    BY DEF ReturnedIsDurable
  <2>1. /\ units \in Seq(UnitRows) /\ DOMAIN units = UnitIds
        /\ DOMAIN units' = UnitIds'
    <3>1. DatabaseTypeOK /\ DatabaseTypeOK'
      BY DbStep DEF DbInv
    <3>2. units' \in Seq(UnitRows)
      BY <3>1 DEF DatabaseTypeOK, UnitRows
    <3> QED
      BY <3>1, <3>2, UnitTypes DEF UnitIds
  <2> QED
    BY <2>1, ReturnedBefore DEF ReturnedIsDurable, Kept, W
<1> QED
  BY <1>1, <1>2, DatabaseInvariant, PTL DEF Spec
=============================================================================
