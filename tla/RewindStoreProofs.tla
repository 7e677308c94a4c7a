------------------------- MODULE RewindStoreProofs -------------------------
(***************************************************************************)
(* Proofs about RewindStore, for every number of runs, branches,           *)
(* checkpoints and effects and every set of keys, paths and contents.      *)
(*                                                                         *)
(* lineage is a recursive function of the rows, and an operator cannot be  *)
(* proved by induction over its argument here.  The invariants need no     *)
(* induction: rows are only appended and a parent is older than its child, *)
(* so "the equation of lineage has exactly one solution" is an invariant   *)
(* of the system, and each append extends the solution by one value.  Only *)
(* "a set of numbers has a least member" rests on an induction, that of    *)
(* the library on the natural numbers.                                     *)
(***************************************************************************)
EXTENDS RewindStore, TLAPS, SequenceTheorems, WellFoundedInduction

-----------------------------------------------------------------------------
(* Lineages of a sequence of rows.                                         *)

IsLineageOf(f, rows) ==
    f = [c \in 1 .. Len(rows) |->
            {c} \cup (IF rows[c].parent = NULL THEN {} ELSE f[rows[c].parent])]

LineageOf(rows) == CHOOSE f : IsLineageOf(f, rows)

UniqueLineage(rows) ==
    /\ \E f : IsLineageOf(f, rows)
    /\ \A f, g : IsLineageOf(f, rows) /\ IsLineageOf(g, rows) => f = g

ParentsAreOlder(rows) ==
    \A c \in 1 .. Len(rows) : rows[c].parent \in 0 .. c - 1

(* The function the model uses is that solution.                           *)
LEMMA LineageIsLineageOf == lineage = LineageOf(checkpoints)
  BY DEF lineage, LineageOf, IsLineageOf, CheckpointIds

(* A solution satisfies the equation at each checkpoint.                   *)
LEMMA LineageEquation ==
  ASSUME NEW rows, UniqueLineage(rows), NEW c \in 1 .. Len(rows)
  PROVE  LineageOf(rows)[c] =
            {c} \cup (IF rows[c].parent = NULL THEN {} ELSE LineageOf(rows)[rows[c].parent])
<1>1. IsLineageOf(LineageOf(rows), rows)
  BY DEF UniqueLineage, LineageOf
<1> DEFINE f == LineageOf(rows)
<1>2. f = [d \in 1 .. Len(rows) |->
            {d} \cup (IF rows[d].parent = NULL THEN {} ELSE f[rows[d].parent])]
  BY <1>1 DEF IsLineageOf
<1> HIDE DEF f
<1>3. f[c] = {c} \cup (IF rows[c].parent = NULL THEN {} ELSE f[rows[c].parent])
  BY <1>2
<1> QED
  BY <1>3 DEF f

(* Appending a row whose parent exists keeps the equation uniquely         *)
(* solvable, changes no lineage there was, and gives the new row its       *)
(* parent's lineage and itself.                                            *)
LEMMA LineageOfAppend ==
  ASSUME NEW T, NEW rows \in Seq(T), NEW row,
         UniqueLineage(rows), ParentsAreOlder(rows),
         row.parent \in 0 .. Len(rows)
  PROVE  LET more == Append(rows, row)
             n == Len(rows) + 1
         IN  /\ UniqueLineage(more)
             /\ ParentsAreOlder(more)
             /\ \A c \in 1 .. Len(rows) : LineageOf(more)[c] = LineageOf(rows)[c]
             /\ LineageOf(more)[n] =
                   {n} \cup (IF row.parent = NULL THEN {} ELSE LineageOf(rows)[row.parent])
<1> DEFINE more == Append(rows, row)
           n == Len(rows) + 1
           f == LineageOf(rows)
           g == [c \in 1 .. n |->
                    IF c = n THEN {n} \cup (IF row.parent = NULL THEN {} ELSE f[row.parent])
                    ELSE f[c]]
<1>1. /\ Len(rows) \in Nat /\ Len(more) = n
      /\ more[n] = row /\ n \in 1 .. n
      /\ \A c \in 1 .. Len(rows) : more[c] = rows[c] /\ c # n /\ c \in 1 .. n
      /\ \A c \in 1 .. n : c = n \/ c \in 1 .. Len(rows)
  OBVIOUS
<1>2. \A c \in 1 .. Len(rows) :
         f[c] = {c} \cup (IF rows[c].parent = NULL THEN {} ELSE f[rows[c].parent])
  BY LineageEquation
<1>3. ParentsAreOlder(more)
  BY <1>1 DEF ParentsAreOlder
<1>4. \A c \in 1 .. Len(rows) : rows[c].parent = NULL \/ rows[c].parent \in 1 .. Len(rows)
  BY <1>1 DEF ParentsAreOlder, NULL
<1>5. row.parent = NULL \/ row.parent \in 1 .. Len(rows)
  BY <1>1 DEF NULL
<1> HIDE DEF more, n, f
<1>6. IsLineageOf(g, more)
  <2>1. ASSUME NEW c \in 1 .. n
        PROVE  g[c] = {c} \cup (IF more[c].parent = NULL THEN {} ELSE g[more[c].parent])
    <3>1. CASE c = n
      BY <3>1, <1>1, <1>5
    <3>2. CASE c # n
      <4>1. c \in 1 .. Len(rows) /\ more[c] = rows[c] /\ g[c] = f[c]
        BY <3>2, <1>1
      <4>2. rows[c].parent = NULL \/ g[rows[c].parent] = f[rows[c].parent]
        BY <4>1, <1>4, <1>1
      <4> QED
        BY <4>1, <4>2, <1>2
    <3> QED
      BY <3>1, <3>2
  <2>2. g = [c \in 1 .. Len(more) |->
               {c} \cup (IF more[c].parent = NULL THEN {} ELSE g[more[c].parent])]
    BY <2>1, <1>1
  <2> QED
    BY <2>2 DEF IsLineageOf
<1>7. ASSUME NEW h, IsLineageOf(h, more)
      PROVE  h = g
  <2>1. h = [c \in 1 .. n |->
               {c} \cup (IF more[c].parent = NULL THEN {} ELSE h[more[c].parent])]
    BY <1>7, <1>1 DEF IsLineageOf
  <2> DEFINE k == [c \in 1 .. Len(rows) |-> h[c]]
  <2>2. \A c \in 1 .. n :
           h[c] = {c} \cup (IF more[c].parent = NULL THEN {} ELSE h[more[c].parent])
    BY <2>1
  <2>3. ASSUME NEW c \in 1 .. Len(rows)
        PROVE  k[c] = {c} \cup (IF rows[c].parent = NULL THEN {} ELSE k[rows[c].parent])
    <3>1. h[c] = {c} \cup (IF rows[c].parent = NULL THEN {} ELSE h[rows[c].parent])
      BY <2>2, <1>1
    <3>2. rows[c].parent = NULL \/ k[rows[c].parent] = h[rows[c].parent]
      BY <1>4
    <3> QED
      BY <3>1, <3>2
  <2>4. IsLineageOf(k, rows)
    <3>1. k = [c \in 1 .. Len(rows) |->
                 {c} \cup (IF rows[c].parent = NULL THEN {} ELSE k[rows[c].parent])]
      BY <2>3
    <3> QED
      BY <3>1 DEF IsLineageOf
  <2>5. k = f
    BY <2>4 DEF UniqueLineage, LineageOf, f
  <2>6. \A c \in 1 .. Len(rows) : h[c] = f[c]
    BY <2>5
  <2>7. h[n] = {n} \cup (IF row.parent = NULL THEN {} ELSE f[row.parent])
    <3>1. h[n] = {n} \cup (IF row.parent = NULL THEN {} ELSE h[row.parent])
      BY <2>2, <1>1
    <3> QED
      BY <3>1, <2>6, <1>5
  <2>8. h = [c \in 1 .. n |-> h[c]]
    BY <2>1
  <2>9. \A c \in 1 .. n : h[c] = g[c]
    BY <2>6, <2>7, <1>1
  <2> QED
    BY <2>8, <2>9
<1>8. UniqueLineage(more)
  BY <1>6, <1>7 DEF UniqueLineage
<1>9. LineageOf(more) = g
  BY <1>6, <1>7 DEF LineageOf
<1>10. \A c \in 1 .. Len(rows) : g[c] = f[c]
  BY <1>1
<1>11. g[n] = {n} \cup (IF row.parent = NULL THEN {} ELSE f[row.parent])
  BY <1>1
<1> HIDE DEF g
<1> QED
  BY <1>3, <1>8, <1>9, <1>10, <1>11 DEF more, n, f

-----------------------------------------------------------------------------
(* Sequences.                                                              *)

LEMMA AppendSeq ==
  ASSUME NEW T, NEW s \in Seq(T), NEW e \in T
  PROVE  /\ Append(s, e) \in Seq(T)
         /\ Len(Append(s, e)) = Len(s) + 1
         /\ Append(s, e)[Len(s) + 1] = e
         /\ \A i \in 1 .. Len(s) : Append(s, e)[i] = s[i]
  OBVIOUS

LEMMA FunctionIsSeq ==
  ASSUME NEW T, NEW n \in Nat, NEW s \in [1 .. n -> T]
  PROVE  s \in Seq(T) /\ Len(s) = n
  OBVIOUS

-----------------------------------------------------------------------------
(* Type correctness.                                                       *)

BranchRows(r, c) ==
    [run : 1 .. r, status : {"active", "abandoned"}, head : 1 .. c, fork : 0 .. c,
     of : Nat]

CheckpointRows(r, b, c) ==
    [run : 1 .. r, branch : 1 .. b, parent : 0 .. c, step : Nat]

EffectRows(b, c) ==
    [branch : 1 .. b, checkpoint : 1 .. c,
     mode : {"staged", "idempotent", "dry_run"}, key : EffectKeys \cup {NoKey},
     status : {"staged", "committed", "discarded"}]

Types(r, bs, cs, kv, vfs, es) ==
    /\ r \in Nat
    /\ bs \in Seq(BranchRows(r, Len(cs)))
    /\ cs \in Seq(CheckpointRows(r, Len(bs), Len(cs)))
    /\ kv \in Seq(Rows(Keys)) /\ Len(kv) = Len(cs)
    /\ vfs \in Seq(Rows(Paths)) /\ Len(vfs) = Len(cs)
    /\ es \in Seq(EffectRows(Len(bs), Len(cs)))

(* TypeOK, with the sets it is made of as operators of the row counts.     *)
LEMMA TypeOKIsTypes ==
  TypeOK <=> Types(runs, branches, checkpoints, state_kv, vfs_objects, staged_effects)
<1>1. \A c \in Nat : (1 .. c) \cup {NULL} = 0 .. c
  BY DEF NULL
<1>2. ASSUME NEW c, checkpoints \in Seq(c)  PROVE Len(checkpoints) \in Nat
  BY <1>2
<1> QED
  BY <1>1, <1>2 DEF TypeOK, Types, BranchRows, CheckpointRows, EffectRows, Effects,
     CheckpointIds, BranchIds, NULL

LEMMA TypeOKPrime ==
  TypeOK' <=> Types(runs, branches, checkpoints, state_kv, vfs_objects, staged_effects)'
<1>1. \A c \in Nat : (1 .. c) \cup {NULL} = 0 .. c
  BY DEF NULL
<1>2. ASSUME NEW c, checkpoints' \in Seq(c)  PROVE Len(checkpoints') \in Nat
  BY <1>2
<1> QED
  BY <1>1, <1>2 DEF TypeOK, Types, BranchRows, CheckpointRows, EffectRows, Effects,
     CheckpointIds, BranchIds, NULL

(* More rows in the other tables never break the type of a row.            *)
LEMMA BranchRowsGrow ==
  ASSUME NEW r1 \in Nat, NEW r2 \in Nat, NEW c1 \in Nat, NEW c2 \in Nat, r1 <= r2, c1 <= c2
  PROVE  BranchRows(r1, c1) \subseteq BranchRows(r2, c2)
<1>1. 1 .. r1 \subseteq 1 .. r2 /\ 1 .. c1 \subseteq 1 .. c2 /\ 0 .. c1 \subseteq 0 .. c2
  OBVIOUS
<1> QED
  BY <1>1 DEF BranchRows

LEMMA CheckpointRowsGrow ==
  ASSUME NEW r1 \in Nat, NEW r2 \in Nat, NEW b1 \in Nat, NEW b2 \in Nat,
         NEW c1 \in Nat, NEW c2 \in Nat, r1 <= r2, b1 <= b2, c1 <= c2
  PROVE  CheckpointRows(r1, b1, c1) \subseteq CheckpointRows(r2, b2, c2)
<1>1. 1 .. r1 \subseteq 1 .. r2 /\ 1 .. b1 \subseteq 1 .. b2 /\ 0 .. c1 \subseteq 0 .. c2
  OBVIOUS
<1> QED
  BY <1>1 DEF CheckpointRows

LEMMA EffectRowsGrow ==
  ASSUME NEW b1 \in Nat, NEW b2 \in Nat, NEW c1 \in Nat, NEW c2 \in Nat, b1 <= b2, c1 <= c2
  PROVE  EffectRows(b1, c1) \subseteq EffectRows(b2, c2)
<1>1. 1 .. b1 \subseteq 1 .. b2 /\ 1 .. c1 \subseteq 1 .. c2
  OBVIOUS
<1> QED
  BY <1>1 DEF EffectRows

(* What TypeOK says of each row.                                           *)
LEMMA RowTypes ==
  ASSUME TypeOK
  PROVE  /\ runs \in Nat /\ Len(branches) \in Nat /\ Len(checkpoints) \in Nat
         /\ Len(staged_effects) \in Nat
         /\ \A b \in BranchIds :
               branches[b] \in BranchRows(runs, Len(checkpoints))
         /\ \A c \in CheckpointIds :
               checkpoints[c] \in CheckpointRows(runs, Len(branches), Len(checkpoints))
         /\ \A e \in EffectIds :
               staged_effects[e] \in EffectRows(Len(branches), Len(checkpoints))
  BY TypeOKIsTypes, ElementOfSeq DEF Types, BranchIds, CheckpointIds, EffectIds

LEMMA CreateRunTypes ==
  ASSUME TypeOK, create_run
  PROVE  TypeOK'
<1> DEFINE c == Len(checkpoints)
           m == Len(branches)
<1>1. Types(runs, branches, checkpoints, state_kv, vfs_objects, staged_effects)
  BY TypeOKIsTypes
<1>2. runs \in Nat /\ m \in Nat /\ c \in Nat /\ runs <= runs + 1 /\ m <= m + 1 /\ c <= c + 1
  BY RowTypes
<1>3. /\ branches \in Seq(BranchRows(runs + 1, c + 1))
      /\ checkpoints \in Seq(CheckpointRows(runs + 1, m + 1, c + 1))
      /\ staged_effects \in Seq(EffectRows(m + 1, c + 1))
  <2>1. runs + 1 \in Nat /\ m + 1 \in Nat /\ c + 1 \in Nat
    BY <1>2
  <2>2. /\ branches \in Seq(BranchRows(runs, c))
        /\ checkpoints \in Seq(CheckpointRows(runs, m, c))
        /\ staged_effects \in Seq(EffectRows(m, c))
    BY <1>1 DEF Types
  <2> HIDE DEF c, m
  <2>3. BranchRows(runs, c) \subseteq BranchRows(runs + 1, c + 1)
    BY <1>2, <2>1, BranchRowsGrow
  <2>4. CheckpointRows(runs, m, c) \subseteq CheckpointRows(runs + 1, m + 1, c + 1)
    BY <1>2, <2>1, CheckpointRowsGrow
  <2>5. EffectRows(m, c) \subseteq EffectRows(m + 1, c + 1)
    BY <1>2, <2>1, EffectRowsGrow
  <2> QED
    BY <2>2, <2>3, <2>4, <2>5, SeqMonotonic
<1>4. [run |-> runs + 1, status |-> "active", head |-> c + 1, fork |-> NULL, of |-> NULL]
         \in BranchRows(runs + 1, c + 1)
  BY <1>2 DEF BranchRows, NULL
<1>5. [run |-> runs + 1, branch |-> m + 1, parent |-> NULL, step |-> 0]
         \in CheckpointRows(runs + 1, m + 1, c + 1)
  BY <1>2 DEF CheckpointRows, NULL
<1>6. NoRows(Keys) \in Rows(Keys) /\ NoRows(Paths) \in Rows(Paths)
  BY DEF NoRows, Rows
<1>7. /\ runs' = runs + 1
      /\ branches' = Append(branches, [run |-> runs + 1, status |-> "active",
                                       head |-> c + 1, fork |-> NULL, of |-> NULL])
      /\ checkpoints' = Append(checkpoints, [run |-> runs + 1, branch |-> m + 1,
                                             parent |-> NULL, step |-> 0])
      /\ state_kv' = Append(state_kv, NoRows(Keys))
      /\ vfs_objects' = Append(vfs_objects, NoRows(Paths))
      /\ staged_effects' = staged_effects
  BY DEF create_run, InsertBranch, InsertCheckpoint
<1>8. /\ branches' \in Seq(BranchRows(runs + 1, c + 1)) /\ Len(branches') = m + 1
      /\ checkpoints' \in Seq(CheckpointRows(runs + 1, m + 1, c + 1))
      /\ Len(checkpoints') = c + 1
  BY <1>3, <1>4, <1>5, <1>7, AppendSeq
<1>9. /\ state_kv' \in Seq(Rows(Keys)) /\ Len(state_kv') = c + 1
      /\ vfs_objects' \in Seq(Rows(Paths)) /\ Len(vfs_objects') = c + 1
  BY <1>1, <1>6, <1>7, AppendSeq DEF Types
<1>10. Types(runs, branches, checkpoints, state_kv, vfs_objects, staged_effects)'
  BY <1>2, <1>3, <1>7, <1>8, <1>9 DEF Types
<1> QED
  BY <1>10, TypeOKPrime

LEMMA CheckpointTypes ==
  ASSUME TypeOK, NEW b \in BranchIds, NEW kv \in Rows(Keys), NEW files \in Rows(Paths),
         NEW expected, create_checkpoint(b, kv, files, expected)
  PROVE  TypeOK'
<1> DEFINE c == Len(checkpoints)
           m == Len(branches)
           parent == branches[b].head
           row == [run |-> branches[b].run, branch |-> b, parent |-> parent,
                   step |-> checkpoints[parent].step + 1]
<1>1. Types(runs, branches, checkpoints, state_kv, vfs_objects, staged_effects)
  BY TypeOKIsTypes
<1>2. runs \in Nat /\ m \in Nat /\ c \in Nat /\ runs <= runs /\ m <= m /\ c <= c + 1
  BY RowTypes
<1>3. /\ branches \in Seq(BranchRows(runs, c + 1))
      /\ checkpoints \in Seq(CheckpointRows(runs, m, c + 1))
      /\ staged_effects \in Seq(EffectRows(m, c + 1))
  <2>1. c + 1 \in Nat
    BY <1>2
  <2>2. /\ branches \in Seq(BranchRows(runs, c))
        /\ checkpoints \in Seq(CheckpointRows(runs, m, c))
        /\ staged_effects \in Seq(EffectRows(m, c))
    BY <1>1 DEF Types
  <2> HIDE DEF c, m
  <2>3. BranchRows(runs, c) \subseteq BranchRows(runs, c + 1)
    BY <1>2, <2>1, BranchRowsGrow
  <2>4. CheckpointRows(runs, m, c) \subseteq CheckpointRows(runs, m, c + 1)
    BY <1>2, <2>1, CheckpointRowsGrow
  <2>5. EffectRows(m, c) \subseteq EffectRows(m, c + 1)
    BY <1>2, <2>1, EffectRowsGrow
  <2> QED
    BY <2>2, <2>3, <2>4, <2>5, SeqMonotonic
<1>4. branches[b].run \in 1 .. runs /\ parent \in 1 .. c
  BY RowTypes DEF BranchRows
<1>5. checkpoints[parent].step \in Nat
  BY <1>4, RowTypes DEF CheckpointRows, CheckpointIds
<1>6. row \in CheckpointRows(runs, m, c + 1)
  BY <1>2, <1>4, <1>5 DEF CheckpointRows, BranchIds
<1>7. [branches[b] EXCEPT !.head = c + 1] \in BranchRows(runs, c + 1)
  BY <1>2, RowTypes DEF BranchRows
<1>8. /\ runs' = runs
      /\ branches' = [branches EXCEPT ![b] = [branches[b] EXCEPT !.head = c + 1]]
      /\ checkpoints' = Append(checkpoints, row)
      /\ state_kv' = Append(state_kv, kv)
      /\ vfs_objects' = Append(vfs_objects, files)
      /\ staged_effects' = staged_effects
  BY DEF create_checkpoint, InsertCheckpoint
<1> HIDE DEF row, parent
<1>9. branches' \in Seq(BranchRows(runs, c + 1)) /\ Len(branches') = m
  BY <1>3, <1>7, <1>8, ExceptSeq DEF BranchIds
<1>10. checkpoints' \in Seq(CheckpointRows(runs, m, c + 1)) /\ Len(checkpoints') = c + 1
  BY <1>3, <1>6, <1>8, AppendSeq
<1>11. /\ state_kv' \in Seq(Rows(Keys)) /\ Len(state_kv') = c + 1
       /\ vfs_objects' \in Seq(Rows(Paths)) /\ Len(vfs_objects') = c + 1
  BY <1>1, <1>8, AppendSeq DEF Types
<1>12. Types(runs, branches, checkpoints, state_kv, vfs_objects, staged_effects)'
  BY <1>2, <1>3, <1>8, <1>9, <1>10, <1>11 DEF Types
<1> QED
  BY <1>12, TypeOKPrime

LEMMA RewindTypes ==
  ASSUME TypeOK, NEW b \in BranchIds, NEW target \in CheckpointIds, rewind(b, target)
  PROVE  TypeOK'
<1> DEFINE c == Len(checkpoints)
           m == Len(branches)
           old == [branches EXCEPT ![b] = [branches[b] EXCEPT !.status = "abandoned"]]
           row == [run |-> branches[b].run, status |-> "active",
                   head |-> target, fork |-> target, of |-> b]
           es == [e \in 1 .. Len(staged_effects) |->
                    IF e \in Discarded(b, target)
                    THEN [staged_effects[e] EXCEPT !.status = "discarded"]
                    ELSE staged_effects[e]]
<1>1. Types(runs, branches, checkpoints, state_kv, vfs_objects, staged_effects)
  BY TypeOKIsTypes
<1>2. /\ runs \in Nat /\ m \in Nat /\ c \in Nat /\ Len(staged_effects) \in Nat
      /\ runs <= runs /\ m <= m + 1 /\ c <= c
  BY RowTypes
<1>3. /\ checkpoints \in Seq(CheckpointRows(runs, m + 1, c))
      /\ EffectRows(m, c) \subseteq EffectRows(m + 1, c)
  <2>1. m + 1 \in Nat
    BY <1>2
  <2>2. checkpoints \in Seq(CheckpointRows(runs, m, c))
    BY <1>1 DEF Types
  <2> HIDE DEF c, m
  <2>3. CheckpointRows(runs, m, c) \subseteq CheckpointRows(runs, m + 1, c)
    BY <1>2, <2>1, CheckpointRowsGrow
  <2>4. EffectRows(m, c) \subseteq EffectRows(m + 1, c)
    BY <1>2, <2>1, EffectRowsGrow
  <2> QED
    BY <2>2, <2>3, <2>4, SeqMonotonic
<1>4. [branches[b] EXCEPT !.status = "abandoned"] \in BranchRows(runs, c)
  BY RowTypes DEF BranchRows
<1>5. row \in BranchRows(runs, c)
  BY <1>2, RowTypes DEF BranchRows, CheckpointIds, BranchIds
<1>6. /\ runs' = runs
      /\ branches' = Append(old, row)
      /\ checkpoints' = checkpoints
      /\ state_kv' = state_kv
      /\ vfs_objects' = vfs_objects
      /\ staged_effects' = es
  BY DEF rewind, InsertBranch, EffectIds
<1> HIDE DEF row
<1>7. branches' \in Seq(BranchRows(runs, c)) /\ Len(branches') = m + 1
  <2>1. old \in Seq(BranchRows(runs, c)) /\ Len(old) = m
    BY <1>1, <1>4, ExceptSeq DEF BranchIds, Types
  <2> QED
    BY <2>1, <1>5, <1>6, AppendSeq
<1>8. staged_effects' \in Seq(EffectRows(m + 1, c))
  <2>1. \A e \in 1 .. Len(staged_effects) : es[e] \in EffectRows(m, c)
    BY RowTypes DEF EffectRows, EffectIds
  <2>2. es \in [1 .. Len(staged_effects) -> EffectRows(m + 1, c)]
    BY <2>1, <1>3
  <2> QED
    BY <2>2, <1>2, <1>6, FunctionIsSeq
<1>9. Types(runs, branches, checkpoints, state_kv, vfs_objects, staged_effects)'
  BY <1>1, <1>2, <1>3, <1>6, <1>7, <1>8 DEF Types
<1> QED
  BY <1>9, TypeOKPrime

LEMMA EffectTypes ==
  ASSUME TypeOK, UNCHANGED history,
         staged_effects' \in Seq(EffectRows(Len(branches), Len(checkpoints)))
  PROVE  TypeOK'
<1>1. Types(runs, branches, checkpoints, state_kv, vfs_objects, staged_effects)'
  BY TypeOKIsTypes DEF Types, history
<1> QED
  BY <1>1, TypeOKPrime

LEMMA RecordTypes ==
  ASSUME TypeOK, NEW b \in BranchIds, NEW c \in CheckpointIds,
         NEW mode \in {"staged", "idempotent", "dry_run"},
         NEW key \in EffectKeys \cup {NoKey},
         NEW status \in {"staged", "committed", "discarded"},
         record_effect(b, c, mode, key, status)
  PROVE  TypeOK'
<1> DEFINE row == [branch |-> b, checkpoint |-> c, mode |-> mode, key |-> key,
                   status |-> status]
<1>1. row \in EffectRows(Len(branches), Len(checkpoints))
  BY DEF EffectRows, BranchIds, CheckpointIds
<1>2. staged_effects' = Append(staged_effects, row) /\ UNCHANGED history
  BY DEF record_effect
<1> HIDE DEF row
<1>3. staged_effects' \in Seq(EffectRows(Len(branches), Len(checkpoints)))
  BY <1>1, <1>2, TypeOKIsTypes, AppendSeq DEF Types
<1> QED
  BY <1>2, <1>3, EffectTypes

LEMMA SetStatusTypes ==
  ASSUME TypeOK, NEW e \in EffectIds, NEW status \in {"staged", "committed", "discarded"},
         set_effect_status(e, status)
  PROVE  TypeOK'
<1> DEFINE row == [staged_effects[e] EXCEPT !.status = status]
<1>1. row \in EffectRows(Len(branches), Len(checkpoints))
  BY RowTypes DEF EffectRows
<1>2. staged_effects' = [staged_effects EXCEPT ![e] = row] /\ UNCHANGED history
  BY DEF set_effect_status
<1> HIDE DEF row
<1>3. staged_effects' \in Seq(EffectRows(Len(branches), Len(checkpoints)))
  BY <1>1, <1>2, TypeOKIsTypes, ExceptSeq DEF Types, EffectIds
<1> QED
  BY <1>2, <1>3, EffectTypes

(* Every step of the store keeps the types.                                *)
LEMMA TypesStep == TypeOK /\ [Next]_storeVars => TypeOK'
<1> SUFFICES ASSUME TypeOK, [Next]_storeVars  PROVE TypeOK'
  OBVIOUS
<1>1. CASE create_run
  BY <1>1, CreateRunTypes
<1>2. ASSUME NEW b \in BranchIds, Checkpoint(b)  PROVE TypeOK'
  BY <1>2, CheckpointTypes DEF Checkpoint, KvRows
<1>3. ASSUME NEW b \in BranchIds, NEW target \in CheckpointIds, rewind(b, target)
      PROVE TypeOK'
  BY <1>3, RewindTypes
<1>4. ASSUME NEW b \in BranchIds, NEW c \in CheckpointIds, Record(b, c)  PROVE TypeOK'
  BY <1>4, RecordTypes DEF Record
<1>5. ASSUME NEW e \in EffectIds, Flushed(e)  PROVE TypeOK'
  BY <1>5, SetStatusTypes DEF Flushed
<1>6. CASE UNCHANGED storeVars
  BY <1>6, TypeOKIsTypes, TypeOKPrime DEF storeVars, Types
<1> QED
  BY <1>1, <1>2, <1>3, <1>4, <1>5, <1>6 DEF Next

LEMMA TypesInit == Init => TypeOK
<1>1. \A T : <<>> \in Seq(T) /\ Len(<<>>) = 0
  BY EmptySeq
<1>2. Init => Types(runs, branches, checkpoints, state_kv, vfs_objects, staged_effects)
  BY <1>1 DEF Init, Types
<1> QED
  BY <1>2, TypeOKIsTypes

(* The store's rows always have their types, in every reachable state.     *)
THEOREM TypeCorrectness == Spec => []TypeOK
  BY TypesInit, TypesStep, PTL DEF Spec

-----------------------------------------------------------------------------
(* The commit tree.                                                        *)

(* lineage is well defined, reaches only older checkpoints, and a head     *)
(* belongs to its branch's run.                                            *)
Tree ==
    /\ UniqueLineage(checkpoints)
    /\ ParentsAreOlder(checkpoints)
    /\ \A c \in CheckpointIds : c \in lineage[c] /\ lineage[c] \subseteq 1 .. c
    /\ \A b \in BranchIds : RunOf(branches[b].head) = branches[b].run

TreeInv == TypeOK /\ Tree /\ LineageIsChain /\ NoLostCommit /\ RunHasActiveBranch

(* l holds one row of the run of row c for every step from 0 to c's.       *)
IsChain(l, rows, c) ==
    /\ \A d \in l : rows[d].run = rows[c].run
    /\ \A i \in 0 .. rows[c].step : \E d \in l : rows[d].step = i
    /\ \A d \in l :
          /\ rows[d].step <= rows[c].step
          /\ \A e \in l : rows[d].step = rows[e].step => d = e

LEMMA ChainIsOfRows ==
  LineageIsChain <=> \A c \in CheckpointIds : IsChain(lineage[c], checkpoints, c)
  BY DEF LineageIsChain, IsChain, RunOf

(* A chain depends only on the rows of its members.                        *)
LEMMA ChainOfSameRows ==
  ASSUME NEW rows, NEW more, NEW l, NEW c \in l,
         \A d \in l : more[d] = rows[d], IsChain(l, rows, c)
  PROVE  IsChain(l, more, c)
  BY DEF IsChain

LEMMA GenesisIsChain ==
  ASSUME NEW rows, NEW n, rows[n].step = 0
  PROVE  IsChain({n}, rows, n)
<1>1. \A i \in 0 .. rows[n].step : rows[n].step = i
  OBVIOUS
<1>2. rows[n].step <= rows[n].step
  OBVIOUS
<1> QED
  BY <1>1, <1>2 DEF IsChain

(* A child one step after the end of a chain makes a longer chain.         *)
LEMMA ChainExtends ==
  ASSUME NEW rows, NEW more, NEW l, NEW p \in l, NEW n, n \notin l,
         IsChain(l, rows, p),
         \A d \in l : more[d] = rows[d] /\ rows[d].step \in Nat,
         more[n].run = rows[p].run, more[n].step = rows[p].step + 1
  PROVE  IsChain({n} \cup l, more, n)
<1> DEFINE r == [d \in {n} \cup l |-> more[d].run]
           s == [d \in {n} \cup l |-> more[d].step]
           q == s[p]
<1>1. /\ \A d \in l : s[d] = rows[d].step /\ r[d] = rows[d].run
      /\ s[n] = q + 1 /\ r[n] = r[p]
      /\ \A d \in {n} \cup l : s[d] = more[d].step /\ r[d] = more[d].run
  OBVIOUS
<1>2. /\ \A d \in l : r[d] = r[p]
      /\ \A i \in 0 .. q : \E d \in l : s[d] = i
      /\ \A d \in l : s[d] <= q
      /\ \A d, e \in l : s[d] = s[e] => d = e
      /\ q \in Nat /\ \A d \in l : s[d] \in Nat
  BY <1>1 DEF IsChain
<1> HIDE DEF r, s, q
<1>3. \A d \in {n} \cup l : r[d] = r[n]
  BY <1>1, <1>2
<1>4. \A i \in 0 .. s[n] : \E d \in {n} \cup l : s[d] = i
  <2> TAKE i \in 0 .. s[n]
  <2>1. i = s[n] \/ i \in 0 .. q
    BY <1>1, <1>2
  <2> QED
    BY <2>1, <1>2
<1>5. \A d \in l : s[d] # s[n] /\ s[d] <= s[n]
  BY <1>1, <1>2
<1>6. \A d \in {n} \cup l :
         s[d] <= s[n] /\ \A e \in {n} \cup l : s[d] = s[e] => d = e
  BY <1>1, <1>2, <1>5
<1>7. n \in {n} \cup l
  OBVIOUS
<1> QED
  BY <1>1, <1>3, <1>4, <1>6, <1>7 DEF IsChain

(* A row that a transaction may append: a genesis, or a child one step     *)
(* further than its parent and in the same run.                            *)
Grows(row) ==
    \/ row.parent = NULL /\ row.step = 0
    \/ /\ row.parent \in CheckpointIds
       /\ row.step = checkpoints[row.parent].step + 1
       /\ row.run = RunOf(row.parent)

(* Appending such a row changes no lineage and no chain there was, and     *)
(* gives the new checkpoint a chain of its own.                            *)
LEMMA AppendCheckpoint ==
  ASSUME TypeOK, Tree, LineageIsChain, NEW row, Grows(row),
         checkpoints' = Append(checkpoints, row)
  PROVE  LET n == Len(checkpoints) + 1
         IN  /\ CheckpointIds' = CheckpointIds \cup {n} /\ n \notin CheckpointIds
             /\ checkpoints'[n] = row
             /\ \A c \in CheckpointIds :
                   checkpoints'[c] = checkpoints[c] /\ lineage'[c] = lineage[c]
             /\ lineage'[n] =
                   {n} \cup (IF row.parent = NULL THEN {} ELSE lineage[row.parent])
             /\ UniqueLineage(checkpoints') /\ ParentsAreOlder(checkpoints')
             /\ \A c \in CheckpointIds' : c \in lineage'[c] /\ lineage'[c] \subseteq 1 .. c
             /\ LineageIsChain'
<1> DEFINE n == Len(checkpoints) + 1
           Row == CheckpointRows(runs, Len(branches), Len(checkpoints))
           old == IF row.parent = NULL THEN {} ELSE lineage[row.parent]
<1>1. checkpoints \in Seq(Row) /\ Len(checkpoints) \in Nat
  BY TypeOKIsTypes, RowTypes DEF Types
<1>2. /\ CheckpointIds' = CheckpointIds \cup {n} /\ n \notin CheckpointIds
      /\ checkpoints'[n] = row /\ n \in Nat \ {0} /\ CheckpointIds = 1 .. n - 1
      /\ \A c \in CheckpointIds : checkpoints'[c] = checkpoints[c] /\ c \in 1 .. Len(checkpoints)
  BY <1>1 DEF CheckpointIds
<1>3. row.parent \in 0 .. Len(checkpoints)
  BY <1>1 DEF Grows, CheckpointIds, NULL
<1>4. lineage = LineageOf(checkpoints) /\ lineage' = LineageOf(checkpoints')
  <2>1. lineage = LineageOf(checkpoints)
    BY LineageIsLineageOf
  <2>2. lineage' = LineageOf(checkpoints')
    BY DEF lineage, LineageOf, IsLineageOf, CheckpointIds
  <2> QED
    BY <2>1, <2>2
<1>5. /\ UniqueLineage(checkpoints') /\ ParentsAreOlder(checkpoints')
      /\ \A c \in 1 .. Len(checkpoints) :
            LineageOf(checkpoints')[c] = LineageOf(checkpoints)[c]
      /\ LineageOf(checkpoints')[n] =
            {n} \cup (IF row.parent = NULL THEN {} ELSE LineageOf(checkpoints)[row.parent])
  BY <1>1, <1>3, LineageOfAppend DEF Tree
<1>6. /\ \A c \in CheckpointIds : lineage'[c] = lineage[c]
      /\ lineage'[n] = {n} \cup old
  BY <1>2, <1>4, <1>5
<1> HIDE DEF n, Row
<1>7. old \subseteq CheckpointIds
  BY <1>2, <1>3 DEF Tree, Grows, CheckpointIds
<1>8. \A c \in CheckpointIds' : c \in lineage'[c] /\ lineage'[c] \subseteq 1 .. c
  <2>1. {n} \cup old \subseteq 1 .. n
    BY <1>2, <1>7
  <2>2. n \in lineage'[n] /\ lineage'[n] \subseteq 1 .. n
    BY <2>1, <1>6
  <2>3. \A c \in CheckpointIds : c \in lineage'[c] /\ lineage'[c] \subseteq 1 .. c
    BY <1>6 DEF Tree
  <2> QED
    BY <2>2, <2>3, <1>2
<1>9. \A c \in CheckpointIds' : IsChain(lineage'[c], checkpoints', c)
  <2>1. \A c \in CheckpointIds : IsChain(lineage[c], checkpoints, c)
    BY ChainIsOfRows
  <2>2. \A c \in CheckpointIds :
           c \in lineage[c] /\ \A d \in lineage[c] : checkpoints'[d] = checkpoints[d]
    <3>1. \A c \in CheckpointIds : \A d \in 1 .. c : d \in CheckpointIds
      BY <1>2
    <3> QED
      BY <3>1, <1>2 DEF Tree
  <2>3. \A c \in CheckpointIds : IsChain(lineage'[c], checkpoints', c)
    <3> TAKE c \in CheckpointIds
    <3>1. IsChain(lineage[c], checkpoints', c)
      BY <2>1, <2>2, ChainOfSameRows
    <3> QED
      BY <3>1, <1>6
  <2>4. CASE row.parent = NULL /\ row.step = 0
    <3>1. lineage'[n] = {n} /\ checkpoints'[n].step = 0
      BY <2>4, <1>2, <1>6
    <3>2. IsChain(lineage'[n], checkpoints', n)
      BY <3>1, GenesisIsChain
    <3> QED
      BY <3>2, <2>3, <1>2
  <2>5. CASE /\ row.parent \in CheckpointIds
             /\ row.step = checkpoints[row.parent].step + 1
             /\ row.run = RunOf(row.parent)
    <3>1. old = lineage[row.parent] /\ IsChain(old, checkpoints, row.parent)
      BY <2>5, <2>1, <1>2 DEF NULL
    <3>2. row.parent \in old
      BY <3>1, <2>5 DEF Tree
    <3>3. n \notin old /\ \A d \in old : checkpoints'[d] = checkpoints[d]
      BY <1>2, <1>7
    <3>4. \A d \in old : checkpoints[d].step \in Nat
      BY <1>7, RowTypes DEF CheckpointRows
    <3>5. /\ checkpoints'[n].run = checkpoints[row.parent].run
          /\ checkpoints'[n].step = checkpoints[row.parent].step + 1
      BY <2>5, <1>2 DEF RunOf
    <3> HIDE DEF old
    <3>6. IsChain({n} \cup old, checkpoints', n)
      BY <3>1, <3>2, <3>3, <3>4, <3>5, ChainExtends
    <3> QED
      BY <3>6, <2>3, <1>2, <1>6
  <2> QED
    BY <2>4, <2>5 DEF Grows
<1>10. LineageIsChain'
  BY <1>9 DEF LineageIsChain, IsChain, RunOf
<1> QED
  BY <1>2, <1>5, <1>6, <1>8, <1>10 DEF n

(* The store's rows outside the checkpoints keep every lineage.            *)
LEMMA SameCheckpoints ==
  ASSUME checkpoints' = checkpoints
  PROVE  /\ lineage' = lineage /\ CheckpointIds' = CheckpointIds
         /\ \A c : RunOf(c)' = RunOf(c)
         /\ LineageIsChain => LineageIsChain'
<1>1. CheckpointIds' = CheckpointIds /\ \A c : RunOf(c)' = RunOf(c)
  BY DEF CheckpointIds, RunOf
<1>2. lineage' = LineageOf(checkpoints') /\ lineage = LineageOf(checkpoints)
  BY DEF lineage, LineageOf, IsLineageOf, CheckpointIds
<1>3. lineage' = lineage
  BY <1>2
<1> QED
  BY <1>1, <1>3 DEF LineageIsChain, RunOf

LEMMA CreateRunTree ==
  ASSUME TreeInv, create_run
  PROVE  Tree' /\ LineageIsChain' /\ NoLostCommit' /\ RunHasActiveBranch'
<1> DEFINE n == Len(checkpoints) + 1
           m == Len(branches) + 1
           row == [run |-> runs + 1, branch |-> m, parent |-> NULL, step |-> 0]
           main == [run |-> runs + 1, status |-> "active", head |-> n, fork |-> NULL, of |-> NULL]
<1>1. TypeOK /\ Tree /\ LineageIsChain /\ NoLostCommit /\ RunHasActiveBranch
  BY DEF TreeInv
<1>2. /\ checkpoints' = Append(checkpoints, row)
      /\ branches' = Append(branches, main) /\ runs' = runs + 1
  BY DEF create_run, InsertBranch, InsertCheckpoint
<1>3. Grows(row)
  BY DEF Grows
<1>4. /\ CheckpointIds' = CheckpointIds \cup {n} /\ n \notin CheckpointIds
      /\ checkpoints'[n] = row
      /\ \A c \in CheckpointIds : checkpoints'[c] = checkpoints[c] /\ lineage'[c] = lineage[c]
      /\ UniqueLineage(checkpoints') /\ ParentsAreOlder(checkpoints')
      /\ \A c \in CheckpointIds' : c \in lineage'[c] /\ lineage'[c] \subseteq 1 .. c
      /\ LineageIsChain'
  BY <1>1, <1>2, <1>3, AppendCheckpoint
<1>5. /\ BranchIds' = BranchIds \cup {m} /\ m \notin BranchIds /\ branches'[m] = main
      /\ \A b \in BranchIds : branches'[b] = branches[b]
  BY <1>1, <1>2, TypeOKIsTypes, AppendSeq, RowTypes DEF Types, BranchIds
<1>6. \A b \in BranchIds : branches[b].head \in CheckpointIds
  BY <1>1, RowTypes DEF BranchRows, CheckpointIds
<1>7. \A c \in CheckpointIds : checkpoints[c].branch \in BranchIds
  BY <1>1, RowTypes DEF CheckpointRows, BranchIds
<1>8. \A b \in BranchIds' : checkpoints'[branches'[b].head].run = branches'[b].run
  BY <1>1, <1>4, <1>5, <1>6 DEF Tree, RunOf
<1>9. Tree'
  BY <1>4, <1>8 DEF Tree, RunOf
<1>10. NoLostCommit'
  <2>1. \A c \in CheckpointIds :
           c \in lineage'[branches'[checkpoints'[c].branch].head]
    BY <1>1, <1>4, <1>5, <1>6, <1>7 DEF NoLostCommit
  <2>2. n \in lineage'[branches'[checkpoints'[n].branch].head]
    BY <1>4, <1>5
  <2> QED
    BY <2>1, <2>2, <1>4 DEF NoLostCommit
<1>11. RunHasActiveBranch'
  <2>1. \A r \in 1 .. runs' : r \in 1 .. runs \/ r = runs + 1
    BY <1>1, <1>2, RowTypes
  <2>2. \A r \in 1 .. runs : \E b \in BranchIds' :
           branches'[b].run = r /\ branches'[b].status = "active"
    BY <1>1, <1>5 DEF RunHasActiveBranch, Active
  <2>3. branches'[m].run = runs + 1 /\ branches'[m].status = "active" /\ m \in BranchIds'
    BY <1>5
  <2> QED
    BY <2>1, <2>2, <2>3 DEF RunHasActiveBranch, Active
<1> QED
  BY <1>4, <1>9, <1>10, <1>11

LEMMA CheckpointTree ==
  ASSUME TreeInv, NEW b \in BranchIds, NEW kv, NEW files, NEW expected,
         create_checkpoint(b, kv, files, expected)
  PROVE  Tree' /\ LineageIsChain' /\ NoLostCommit' /\ RunHasActiveBranch'
<1> DEFINE n == Len(checkpoints) + 1
           parent == branches[b].head
           row == [run |-> branches[b].run, branch |-> b, parent |-> parent,
                   step |-> checkpoints[parent].step + 1]
<1>1. TypeOK /\ Tree /\ LineageIsChain /\ NoLostCommit /\ RunHasActiveBranch
  BY DEF TreeInv
<1>2. /\ checkpoints' = Append(checkpoints, row)
      /\ branches' = [branches EXCEPT ![b] = [branches[b] EXCEPT !.head = n]]
      /\ runs' = runs
  BY DEF create_checkpoint, InsertCheckpoint
<1>3. \A a \in BranchIds : branches[a].head \in CheckpointIds
  BY <1>1, RowTypes DEF BranchRows, CheckpointIds
<1>4. Grows(row)
  BY <1>1, <1>3 DEF Grows, Tree
<1>5. /\ CheckpointIds' = CheckpointIds \cup {n} /\ n \notin CheckpointIds
      /\ checkpoints'[n] = row
      /\ \A c \in CheckpointIds : checkpoints'[c] = checkpoints[c] /\ lineage'[c] = lineage[c]
      /\ lineage'[n] = {n} \cup (IF row.parent = NULL THEN {} ELSE lineage[row.parent])
      /\ UniqueLineage(checkpoints') /\ ParentsAreOlder(checkpoints')
      /\ \A c \in CheckpointIds' : c \in lineage'[c] /\ lineage'[c] \subseteq 1 .. c
      /\ LineageIsChain'
  BY <1>1, <1>2, <1>4, AppendCheckpoint
<1>6. lineage[parent] \subseteq lineage'[n]
  BY <1>3, <1>5 DEF CheckpointIds, NULL
<1>7. /\ BranchIds' = BranchIds
      /\ \A a \in BranchIds : branches'[a] =
            IF a = b THEN [branches[b] EXCEPT !.head = n] ELSE branches[a]
  BY <1>1, <1>2, TypeOKIsTypes, RowTypes DEF Types, BranchIds
<1>8. branches[b] \in BranchRows(runs, Len(checkpoints))
  BY <1>1, RowTypes
<1>9. /\ branches'[b].head = n /\ branches'[b].run = branches[b].run
      /\ branches'[b].status = branches[b].status
  BY <1>7, <1>8 DEF BranchRows
<1>10. \A c \in CheckpointIds : checkpoints[c].branch \in BranchIds
  BY <1>1, RowTypes DEF CheckpointRows, BranchIds
<1>11. \A a \in BranchIds' : checkpoints'[branches'[a].head].run = branches'[a].run
  BY <1>1, <1>3, <1>5, <1>7, <1>9 DEF Tree, RunOf
<1>12. Tree'
  BY <1>5, <1>11 DEF Tree, RunOf
<1>13. NoLostCommit'
  <2>1. \A c \in CheckpointIds : checkpoints'[c].branch # b =>
           c \in lineage'[branches'[checkpoints'[c].branch].head]
    BY <1>1, <1>3, <1>5, <1>7, <1>10 DEF NoLostCommit
  <2>2. \A c \in CheckpointIds : checkpoints'[c].branch = b =>
           c \in lineage'[branches'[checkpoints'[c].branch].head]
    BY <1>1, <1>5, <1>6, <1>9 DEF NoLostCommit
  <2>3. n \in lineage'[branches'[checkpoints'[n].branch].head]
    BY <1>5, <1>9
  <2> QED
    BY <2>1, <2>2, <2>3, <1>5 DEF NoLostCommit
<1>14. RunHasActiveBranch'
  BY <1>1, <1>2, <1>7, <1>9 DEF RunHasActiveBranch, Active
<1> QED
  BY <1>5, <1>12, <1>13, <1>14

LEMMA RewindTree ==
  ASSUME TreeInv, NEW b \in BranchIds, NEW target \in CheckpointIds, rewind(b, target)
  PROVE  Tree' /\ LineageIsChain' /\ NoLostCommit' /\ RunHasActiveBranch'
<1> DEFINE m == Len(branches) + 1
           gone == [branches[b] EXCEPT !.status = "abandoned"]
           old == [branches EXCEPT ![b] = gone]
           fresh == [run |-> branches[b].run, status |-> "active",
                     head |-> target, fork |-> target, of |-> b]
           Row == BranchRows(runs, Len(checkpoints))
<1>1. TypeOK /\ Tree /\ LineageIsChain /\ NoLostCommit /\ RunHasActiveBranch
  BY DEF TreeInv
<1>2. /\ RunOf(target) = branches[b].run /\ checkpoints' = checkpoints /\ runs' = runs
      /\ branches' = Append(old, fresh)
  BY DEF rewind, InsertBranch
<1>3. branches \in Seq(Row) /\ branches[b] \in Row /\ Len(branches) \in Nat
  BY <1>1, TypeOKIsTypes, RowTypes DEF Types
<1>4. gone \in Row /\ gone.head = branches[b].head /\ gone.run = branches[b].run
  BY <1>3 DEF BranchRows
<1>5. /\ old \in Seq(Row) /\ Len(old) = Len(branches)
      /\ \A a \in BranchIds : old[a] = IF a = b THEN gone ELSE branches[a]
  BY <1>3, <1>4, ExceptSeq DEF BranchIds
<1> HIDE DEF old, gone
<1>6. /\ BranchIds' = BranchIds \cup {m} /\ m \notin BranchIds /\ branches'[m] = fresh
      /\ \A a \in BranchIds : branches'[a] = IF a = b THEN gone ELSE branches[a]
  BY <1>2, <1>3, <1>5 DEF BranchIds
<1>7. \A a \in BranchIds :
         branches'[a].head = branches[a].head /\ branches'[a].run = branches[a].run
  BY <1>4, <1>6
<1>8. /\ lineage' = lineage /\ CheckpointIds' = CheckpointIds /\ LineageIsChain'
      /\ \A c : RunOf(c)' = RunOf(c)
  BY <1>1, <1>2, SameCheckpoints
<1>9. \A a \in BranchIds' : checkpoints'[branches'[a].head].run = branches'[a].run
  <2>1. \A a \in BranchIds : checkpoints[branches[a].head].run = branches[a].run
    BY <1>1 DEF Tree, RunOf
  <2>2. branches'[m].head = target /\ branches'[m].run = checkpoints[target].run
    <3>1. fresh.head = target /\ fresh.run = branches[b].run
      OBVIOUS
    <3>2. branches[b].run = checkpoints[target].run
      BY <1>2 DEF RunOf
    <3> QED
      BY <3>1, <3>2, <1>6
  <2> QED
    BY <2>1, <2>2, <1>2, <1>6, <1>7
<1>10. Tree'
  BY <1>1, <1>2, <1>8, <1>9 DEF Tree, RunOf
<1>11. NoLostCommit'
  <2>1. \A c \in CheckpointIds : checkpoints[c].branch \in BranchIds
    BY <1>1, RowTypes DEF CheckpointRows, BranchIds
  <2> QED
    BY <2>1, <1>1, <1>2, <1>7, <1>8 DEF NoLostCommit
<1>12. RunHasActiveBranch'
  <2> SUFFICES ASSUME NEW r \in 1 .. runs
               PROVE  \E a \in BranchIds' : branches'[a].run = r /\ branches'[a].status = "active"
    BY <1>2 DEF RunHasActiveBranch, Active
  <2>1. CASE r = branches[b].run
    BY <2>1, <1>6
  <2>2. CASE r # branches[b].run
    BY <2>2, <1>1, <1>6 DEF RunHasActiveBranch, Active
  <2> QED
    BY <2>1, <2>2
<1> QED
  BY <1>8, <1>10, <1>11, <1>12

LEMMA SameHistoryTree ==
  ASSUME TreeInv, UNCHANGED history
  PROVE  Tree' /\ LineageIsChain' /\ NoLostCommit' /\ RunHasActiveBranch'
<1>1. /\ lineage' = lineage /\ CheckpointIds' = CheckpointIds /\ BranchIds' = BranchIds
      /\ checkpoints' = checkpoints /\ branches' = branches /\ runs' = runs
  BY SameCheckpoints DEF history, BranchIds
<1> QED
  BY <1>1 DEF TreeInv, Tree, LineageIsChain, NoLostCommit, RunHasActiveBranch, RunOf, Active

(* Every step keeps the tree: the inductive step of the three theorems.    *)
LEMMA TreeStep == TreeInv /\ [Next]_storeVars => TreeInv'
<1> SUFFICES ASSUME TreeInv, [Next]_storeVars  PROVE TreeInv'
  OBVIOUS
<1> DEFINE Goal == Tree' /\ LineageIsChain' /\ NoLostCommit' /\ RunHasActiveBranch'
<1>1. TypeOK'
  BY TypesStep DEF TreeInv
<1>2. CASE create_run
  BY <1>1, <1>2, CreateRunTree DEF TreeInv
<1>3. ASSUME NEW b \in BranchIds, Checkpoint(b)  PROVE TreeInv'
  BY <1>1, <1>3, CheckpointTree DEF Checkpoint, TreeInv
<1>4. ASSUME NEW b \in BranchIds, NEW target \in CheckpointIds, rewind(b, target)
      PROVE TreeInv'
  BY <1>1, <1>4, RewindTree DEF TreeInv
<1>5. ASSUME NEW b \in BranchIds, NEW c \in CheckpointIds, Record(b, c)  PROVE TreeInv'
  BY <1>1, <1>5, SameHistoryTree DEF Record, record_effect, TreeInv
<1>6. ASSUME NEW e \in EffectIds, Flushed(e)  PROVE TreeInv'
  BY <1>1, <1>6, SameHistoryTree DEF Flushed, set_effect_status, TreeInv
<1>7. CASE UNCHANGED storeVars
  <2>1. UNCHANGED history
    BY <1>7 DEF storeVars, history
  <2> QED
    BY <2>1, <1>1, SameHistoryTree DEF TreeInv
<1> QED
  BY <1>2, <1>3, <1>4, <1>5, <1>6, <1>7 DEF Next

LEMMA TreeInit == Init => TreeInv
<1> SUFFICES ASSUME Init  PROVE TreeInv
  OBVIOUS
<1>1. /\ CheckpointIds = {} /\ BranchIds = {} /\ 1 .. runs = {} /\ 1 .. Len(checkpoints) = {}
  BY EmptySeq DEF Init, CheckpointIds, BranchIds
<1>2. UniqueLineage(checkpoints)
  <2> DEFINE none == [c \in {} |-> {}]
  <2>1. \A f : IsLineageOf(f, checkpoints) <=> f = none
    BY <1>1 DEF IsLineageOf
  <2> QED
    BY <2>1 DEF UniqueLineage
<1> QED
  BY <1>1, <1>2, TypesInit DEF TreeInv, Tree, ParentsAreOlder, LineageIsChain, NoLostCommit,
     RunHasActiveBranch

LEMMA TreeInvariant == Spec => []TreeInv
  BY TreeInit, TreeStep, PTL DEF Spec

(* lineage() is one checkpoint of the run per step, from genesis to its    *)
(* argument, whatever was forked and rewound.                              *)
THEOREM LineagesAreChains == Spec => []LineageIsChain
<1>1. TreeInv => LineageIsChain
  BY DEF TreeInv
<1> QED
  BY <1>1, TreeInvariant, PTL

(* No interleaving of commits and rewinds drops a commit from the lineage  *)
(* of its branch's head.                                                   *)
THEOREM CommitsAreNeverLost == Spec => []NoLostCommit
<1>1. TreeInv => NoLostCommit
  BY DEF TreeInv
<1> QED
  BY <1>1, TreeInvariant, PTL

(* active_branch finds a branch for every run in every state.              *)
THEOREM RunsStayActive == Spec => []RunHasActiveBranch
<1>1. TreeInv => RunHasActiveBranch
  BY DEF TreeInv
<1> QED
  BY <1>1, TreeInvariant, PTL

-----------------------------------------------------------------------------
(* Staged effects across a rewind.  The step that rewinds is the only one  *)
(* that adds a forked branch or discards an effect.                        *)
RewindStep(b, target) ==
    LET new == Len(branches) + 1
    IN  /\ checkpoints' = checkpoints /\ lineage' = lineage
        /\ DOMAIN branches' = BranchIds \cup {new} /\ Len(branches') = new
        /\ branches'[new].fork = target /\ branches'[new].head = target
        /\ branches'[b].status = "abandoned"
        /\ EffectIds' = EffectIds
        /\ \A e \in EffectIds :
              staged_effects'[e] = IF e \in Discarded(b, target)
                                   THEN [staged_effects[e] EXCEPT !.status = "discarded"]
                                   ELSE staged_effects[e]

LEMMA RewindIsRewindStep ==
  ASSUME TreeInv, NEW b \in BranchIds, NEW target \in CheckpointIds, rewind(b, target)
  PROVE  RewindStep(b, target)
<1> DEFINE new == Len(branches) + 1
           gone == [branches[b] EXCEPT !.status = "abandoned"]
           old == [branches EXCEPT ![b] = gone]
           fresh == [run |-> branches[b].run, status |-> "active",
                     head |-> target, fork |-> target, of |-> b]
           Row == BranchRows(runs, Len(checkpoints))
<1>1. /\ checkpoints' = checkpoints /\ branches' = Append(old, fresh)
      /\ staged_effects' = [e \in EffectIds |->
             IF e \in Discarded(b, target)
             THEN [staged_effects[e] EXCEPT !.status = "discarded"] ELSE staged_effects[e]]
  BY DEF rewind, InsertBranch
<1>2. branches \in Seq(Row) /\ branches[b] \in Row /\ Len(branches) \in Nat
  BY TypeOKIsTypes, RowTypes DEF Types, TreeInv
<1>3. /\ gone \in Row /\ gone.status = "abandoned"
      /\ fresh \in Row /\ fresh.fork = target /\ fresh.head = target
  <2>1. gone \in Row /\ gone.status = "abandoned"
    BY <1>2 DEF BranchRows
  <2>2. branches[b].run \in 1 .. runs /\ target \in 1 .. Len(checkpoints)
    BY <1>2 DEF BranchRows, CheckpointIds
  <2>3. fresh \in Row
    BY <2>2 DEF BranchRows, BranchIds
  <2> QED
    BY <2>1, <2>3
<1>4. old \in Seq(Row) /\ Len(old) = Len(branches) /\ old[b] = gone
  BY <1>2, <1>3, ExceptSeq DEF BranchIds
<1> HIDE DEF old, gone, fresh
<1>5. /\ DOMAIN branches' = BranchIds \cup {new} /\ Len(branches') = new
      /\ branches'[new] = fresh /\ branches'[b] = gone
  <2>1. /\ branches' \in Seq(Row) /\ Len(branches') = Len(old) + 1
        /\ branches'[Len(old) + 1] = fresh
        /\ \A i \in 1 .. Len(old) : branches'[i] = old[i]
    BY <1>1, <1>3, <1>4, AppendSeq
  <2>2. DOMAIN branches' = 1 .. Len(branches')
    BY <2>1
  <2> QED
    BY <2>1, <2>2, <1>2, <1>4 DEF BranchIds
<1>6. lineage' = lineage
  BY <1>1, SameCheckpoints
<1>7. \A e \in EffectIds :
         staged_effects'[e] = IF e \in Discarded(b, target)
                              THEN [staged_effects[e] EXCEPT !.status = "discarded"]
                              ELSE staged_effects[e]
  BY <1>1
<1>8. EffectIds' = EffectIds
  <2>1. Len(staged_effects) \in Nat
    BY RowTypes DEF TreeInv
  <2>2. Len(staged_effects') = Len(staged_effects)
    BY <1>1, <2>1 DEF EffectIds
  <2> QED
    BY <2>2 DEF EffectIds
<1> QED
  BY <1>1, <1>3, <1>5, <1>6, <1>7, <1>8 DEF RewindStep

(* No other step adds a forked branch, or discards an effect.              *)
QuietStep ==
    /\ \A b \in DOMAIN branches' \ DOMAIN branches : branches'[b].fork = NULL
    /\ \A e \in EffectIds : \/ staged_effects'[e].status = staged_effects[e].status
                            \/ staged_effects'[e].status = "committed"

LEMMA StepIsRewindOrQuiet ==
  ASSUME TreeInv, [Next]_storeVars
  PROVE  \/ QuietStep
         \/ \E b \in BranchIds, target \in CheckpointIds : RewindStep(b, target)
<1>1. /\ branches \in Seq(BranchRows(runs, Len(checkpoints))) /\ Len(branches) \in Nat
      /\ staged_effects \in Seq(EffectRows(Len(branches), Len(checkpoints)))
      /\ Len(staged_effects) \in Nat
      /\ DOMAIN branches = BranchIds
  BY TypeOKIsTypes, RowTypes DEF Types, TreeInv, BranchIds
<1>2. CASE create_run
  <2> DEFINE row == [run |-> runs + 1, status |-> "active",
                     head |-> Len(checkpoints) + 1, fork |-> NULL, of |-> NULL]
  <2>1. branches' = Append(branches, row) /\ staged_effects' = staged_effects
    BY <1>2 DEF create_run, InsertBranch
  <2>2. row.fork = NULL
    OBVIOUS
  <2> HIDE DEF row
  <2>3. \A b \in DOMAIN branches' \ DOMAIN branches : branches'[b] = row
    BY <2>1, <1>1
  <2> QED
    BY <2>1, <2>2, <2>3 DEF QuietStep
<1>3. ASSUME NEW b \in BranchIds, Checkpoint(b)  PROVE QuietStep
  <2>1. DOMAIN branches' = DOMAIN branches /\ staged_effects' = staged_effects
    BY <1>3 DEF Checkpoint, create_checkpoint
  <2> QED
    BY <2>1 DEF QuietStep
<1>4. ASSUME NEW b \in BranchIds, NEW target \in CheckpointIds, rewind(b, target)
      PROVE  RewindStep(b, target)
  BY <1>4, RewindIsRewindStep
<1>5. ASSUME NEW b \in BranchIds, NEW c \in CheckpointIds, Record(b, c)  PROVE QuietStep
  <2>1. /\ branches' = branches
        /\ \E row : staged_effects' = Append(staged_effects, row)
    BY <1>5 DEF Record, record_effect, history
  <2>2. \A e \in EffectIds : staged_effects'[e] = staged_effects[e]
    BY <2>1, <1>1 DEF EffectIds
  <2> QED
    BY <2>1, <2>2 DEF QuietStep
<1>6. ASSUME NEW f \in EffectIds, Flushed(f)  PROVE QuietStep
  <2>1. /\ branches' = branches
        /\ staged_effects' = [staged_effects EXCEPT ![f] =
                                [staged_effects[f] EXCEPT !.status = "committed"]]
    BY <1>6 DEF Flushed, set_effect_status, history
  <2>2. \A e \in EffectIds :
           staged_effects'[e] = IF e = f THEN [staged_effects[f] EXCEPT !.status = "committed"]
                                ELSE staged_effects[e]
    BY <2>1, <1>1 DEF EffectIds
  <2>3. staged_effects[f] \in EffectRows(Len(branches), Len(checkpoints))
    BY RowTypes DEF TreeInv
  <2>4. staged_effects'[f].status = "committed"
    BY <2>2, <2>3 DEF EffectRows
  <2> QED
    BY <2>1, <2>2, <2>4 DEF QuietStep
<1>7. CASE UNCHANGED storeVars
  BY <1>7 DEF storeVars, QuietStep
<1> QED
  BY <1>2, <1>3, <1>4, <1>5, <1>6, <1>7 DEF Next

(* A rewind carries over exactly what was staged on the clean prefix.      *)
LEMMA RewindStepKeepsPending ==
  ASSUME TreeInv, NEW b \in BranchIds, NEW target \in CheckpointIds, RewindStep(b, target),
         NEW new \in DOMAIN branches' \ DOMAIN branches
  PROVE  branches'[new].fork = target /\ pending(new)' = StagedOn(target)
<1>1. DOMAIN branches = BranchIds
  BY TypeOKIsTypes DEF TreeInv, Types, BranchIds
<1>2. branches'[new].fork = target /\ branches'[new].head = target
  BY <1>1 DEF RewindStep
<1>3. pending(new)' =
         {e \in EffectIds : /\ staged_effects'[e].status = "staged"
                            /\ staged_effects'[e].checkpoint \in lineage[target]}
  <2>1. EffectIds' = EffectIds
    BY DEF RewindStep
  <2> QED
    BY <2>1, <1>2 DEF RewindStep, pending, StagedOn
<1>4. ASSUME NEW e \in EffectIds
      PROVE  staged_effects'[e].status = "staged"
                /\ staged_effects'[e].checkpoint \in lineage[target]
             <=> staged_effects[e].status = "staged"
                /\ staged_effects[e].checkpoint \in lineage[target]
  <2>1. staged_effects[e] \in EffectRows(Len(branches), Len(checkpoints))
    BY RowTypes DEF TreeInv
  <2>2. CASE e \in Discarded(b, target)
    <3>1. staged_effects'[e].status = "discarded"
      BY <2>1, <2>2 DEF RewindStep, EffectRows
    <3>2. staged_effects[e].checkpoint \notin lineage[target]
      BY <2>2 DEF Discarded
    <3> QED
      BY <2>1, <2>2, <3>1, <3>2 DEF RewindStep, EffectRows
  <2>3. CASE e \notin Discarded(b, target)
    BY <2>3 DEF RewindStep
  <2> QED
    BY <2>2, <2>3
<1> QED
  BY <1>2, <1>3, <1>4 DEF StagedOn

(* A rewind carries over exactly what was staged on the clean prefix.      *)
THEOREM RewindsKeepPending == Spec => RewindKeepsPending
<1> DEFINE Keeps == \A b \in DOMAIN branches' \ DOMAIN branches :
                       branches'[b].fork # NULL => pending(b)' = StagedOn(branches'[b].fork)
<1>1. TreeInv /\ [Next]_storeVars => Keeps
  <2> SUFFICES ASSUME TreeInv, [Next]_storeVars  PROVE Keeps
    OBVIOUS
  <2>1. CASE QuietStep
    BY <2>1 DEF QuietStep
  <2>2. CASE \E b \in BranchIds, target \in CheckpointIds : RewindStep(b, target)
    <3>1. PICK b \in BranchIds, target \in CheckpointIds : RewindStep(b, target)
      BY <2>2
    <3> QED
      BY <3>1, RewindStepKeepsPending
  <2> QED
    BY <2>1, <2>2, StepIsRewindOrQuiet
<1> QED
  BY <1>1, TreeInvariant, PTL DEF Spec, RewindKeepsPending

-----------------------------------------------------------------------------
(* What a transaction appends.                                             *)

OldCheckpointsStay ==
    \A c \in CheckpointIds :
        /\ checkpoints'[c] = checkpoints[c] /\ lineage'[c] = lineage[c]
        /\ state_kv'[c] = state_kv[c] /\ vfs_objects'[c] = vfs_objects[c]

NewCheckpoint(n, row, kv, files) ==
    /\ n = Len(checkpoints) + 1 /\ n \notin CheckpointIds
    /\ CheckpointIds' = CheckpointIds \cup {n} /\ Len(checkpoints') = n
    /\ checkpoints'[n] = row /\ state_kv'[n] = kv /\ vfs_objects'[n] = files
    /\ lineage'[n] = {n} \cup (IF row.parent = NULL THEN {} ELSE lineage[row.parent])
    /\ OldCheckpointsStay

NewBranch(m, row) ==
    /\ m = Len(branches) + 1 /\ m \notin BranchIds
    /\ BranchIds' = BranchIds \cup {m} /\ Len(branches') = m
    /\ branches'[m] = row

LEMMA InsertsCheckpoint ==
  ASSUME TreeInv, NEW run, NEW branch, NEW parent, NEW step, NEW kv, NEW files,
         InsertCheckpoint(run, branch, parent, step, kv, files),
         Grows([run |-> run, branch |-> branch, parent |-> parent, step |-> step]),
         NEW n, n = Len(checkpoints) + 1
  PROVE  NewCheckpoint(n, [run |-> run, branch |-> branch, parent |-> parent, step |-> step],
                       kv, files)
<1> DEFINE row == [run |-> run, branch |-> branch, parent |-> parent, step |-> step]
<1>1. TypeOK /\ Tree /\ LineageIsChain
  BY DEF TreeInv
<1>2. /\ checkpoints' = Append(checkpoints, row)
      /\ state_kv' = Append(state_kv, kv) /\ vfs_objects' = Append(vfs_objects, files)
  BY DEF InsertCheckpoint
<1> HIDE DEF row
<1>3. /\ CheckpointIds' = CheckpointIds \cup {n} /\ n \notin CheckpointIds
      /\ checkpoints'[n] = row
      /\ \A c \in CheckpointIds : checkpoints'[c] = checkpoints[c] /\ lineage'[c] = lineage[c]
      /\ lineage'[n] = {n} \cup (IF row.parent = NULL THEN {} ELSE lineage[row.parent])
  BY <1>1, <1>2, AppendCheckpoint DEF row
<1>4. /\ state_kv \in Seq(Rows(Keys)) /\ Len(state_kv) = Len(checkpoints)
      /\ vfs_objects \in Seq(Rows(Paths)) /\ Len(vfs_objects) = Len(checkpoints)
      /\ checkpoints \in Seq(CheckpointRows(runs, Len(branches), Len(checkpoints)))
      /\ Len(checkpoints) \in Nat
  BY <1>1, TypeOKIsTypes, RowTypes DEF Types
<1>5. /\ state_kv'[n] = kv /\ vfs_objects'[n] = files
      /\ \A c \in CheckpointIds : state_kv'[c] = state_kv[c] /\ vfs_objects'[c] = vfs_objects[c]
      /\ Len(checkpoints') = n
  BY <1>2, <1>4 DEF CheckpointIds
<1> QED
  BY <1>3, <1>5 DEF NewCheckpoint, OldCheckpointsStay, row

LEMMA CreateRunShape ==
  ASSUME TreeInv, create_run, NEW n, n = Len(checkpoints) + 1, NEW m, m = Len(branches) + 1
  PROVE  /\ NewCheckpoint(n, [run |-> runs + 1, branch |-> m, parent |-> NULL, step |-> 0],
                          NoRows(Keys), NoRows(Paths))
         /\ NewBranch(m, [run |-> runs + 1, status |-> "active", head |-> n,
                          fork |-> NULL, of |-> NULL])
         /\ \A b \in BranchIds : branches'[b] = branches[b]
         /\ runs' = runs + 1 /\ staged_effects' = staged_effects
<1> DEFINE main == [run |-> runs + 1, status |-> "active", head |-> n, fork |-> NULL, of |-> NULL]
           row == [run |-> runs + 1, branch |-> m, parent |-> NULL, step |-> 0]
<1>1. /\ InsertCheckpoint(runs + 1, m, NULL, 0, NoRows(Keys), NoRows(Paths))
      /\ branches' = Append(branches, main) /\ runs' = runs + 1
      /\ staged_effects' = staged_effects
  BY DEF create_run, InsertBranch
<1>2. Grows(row)
  BY DEF Grows
<1>3. NewCheckpoint(n, row, NoRows(Keys), NoRows(Paths))
  BY <1>1, <1>2, InsertsCheckpoint
<1>4. branches \in Seq(BranchRows(runs, Len(checkpoints))) /\ Len(branches) \in Nat
  BY TypeOKIsTypes, RowTypes DEF Types, TreeInv
<1> HIDE DEF main
<1>5. NewBranch(m, main) /\ \A b \in BranchIds : branches'[b] = branches[b]
  BY <1>1, <1>4 DEF NewBranch, BranchIds
<1> QED
  BY <1>1, <1>3, <1>5 DEF main

LEMMA CommitShape ==
  ASSUME TreeInv, NEW b \in BranchIds, NEW kv, NEW files, NEW expected,
         create_checkpoint(b, kv, files, expected), NEW n, n = Len(checkpoints) + 1
  PROVE  /\ NewCheckpoint(n, [run |-> branches[b].run, branch |-> b, parent |-> branches[b].head,
                              step |-> checkpoints[branches[b].head].step + 1], kv, files)
         /\ branches[b].head \in CheckpointIds /\ Active(b)
         /\ BranchIds' = BranchIds /\ Len(branches') = Len(branches)
         /\ \A a \in BranchIds :
               /\ branches'[a].run = branches[a].run /\ branches'[a].status = branches[a].status
               /\ branches'[a].fork = branches[a].fork /\ branches'[a].of = branches[a].of
               /\ branches'[a].head = IF a = b THEN n ELSE branches[a].head
         /\ runs' = runs /\ staged_effects' = staged_effects
<1> DEFINE parent == branches[b].head
           row == [run |-> branches[b].run, branch |-> b, parent |-> parent,
                   step |-> checkpoints[parent].step + 1]
           moved == [branches[b] EXCEPT !.head = n]
<1>1. /\ InsertCheckpoint(branches[b].run, b, parent, checkpoints[parent].step + 1, kv, files)
      /\ branches' = [branches EXCEPT ![b] = moved]
      /\ runs' = runs /\ staged_effects' = staged_effects /\ Active(b)
  BY DEF create_checkpoint
<1>2. branches \in Seq(BranchRows(runs, Len(checkpoints))) /\ Len(branches) \in Nat
  BY TypeOKIsTypes, RowTypes DEF Types, TreeInv
<1>3. branches[b] \in BranchRows(runs, Len(checkpoints)) /\ parent \in CheckpointIds
  BY RowTypes DEF TreeInv, BranchRows, CheckpointIds
<1>4. Grows(row)
  BY <1>3 DEF Grows, TreeInv, Tree
<1>5. NewCheckpoint(n, row, kv, files)
  BY <1>1, <1>4, InsertsCheckpoint
<1>6. /\ moved.head = n /\ moved.run = branches[b].run /\ moved.status = branches[b].status
      /\ moved.fork = branches[b].fork /\ moved.of = branches[b].of
  BY <1>3 DEF BranchRows
<1> HIDE DEF moved
<1>7. /\ BranchIds' = BranchIds /\ Len(branches') = Len(branches)
      /\ \A a \in BranchIds : branches'[a] = IF a = b THEN moved ELSE branches[a]
  BY <1>1, <1>2 DEF BranchIds
<1> QED
  BY <1>1, <1>3, <1>5, <1>6, <1>7

LEMMA RewindShape ==
  ASSUME TreeInv, NEW b \in BranchIds, NEW target \in CheckpointIds, rewind(b, target),
         NEW m, m = Len(branches) + 1
  PROVE  /\ NewBranch(m, [run |-> branches[b].run, status |-> "active",
                          head |-> target, fork |-> target, of |-> b])
         /\ \A a \in BranchIds :
               /\ branches'[a].run = branches[a].run /\ branches'[a].head = branches[a].head
               /\ branches'[a].fork = branches[a].fork /\ branches'[a].of = branches[a].of
               /\ branches'[a].status = IF a = b THEN "abandoned" ELSE branches[a].status
         /\ UNCHANGED <<runs, checkpoints, state_kv, vfs_objects, lineage, CheckpointIds>>
         /\ RunOf(target) = branches[b].run
<1> DEFINE gone == [branches[b] EXCEPT !.status = "abandoned"]
           old == [branches EXCEPT ![b] = gone]
           fresh == [run |-> branches[b].run, status |-> "active",
                     head |-> target, fork |-> target, of |-> b]
           Row == BranchRows(runs, Len(checkpoints))
<1>1. /\ branches' = Append(old, fresh) /\ RunOf(target) = branches[b].run
      /\ UNCHANGED <<runs, checkpoints, state_kv, vfs_objects>>
  BY DEF rewind, InsertBranch
<1>2. branches \in Seq(Row) /\ branches[b] \in Row /\ Len(branches) \in Nat
  BY TypeOKIsTypes, RowTypes DEF Types, TreeInv
<1>3. /\ gone \in Row /\ gone.status = "abandoned" /\ gone.run = branches[b].run
      /\ gone.head = branches[b].head /\ gone.fork = branches[b].fork
      /\ gone.of = branches[b].of
  BY <1>2 DEF BranchRows
<1>4. /\ old \in Seq(Row) /\ Len(old) = Len(branches)
      /\ \A a \in BranchIds : old[a] = IF a = b THEN gone ELSE branches[a]
  BY <1>2, <1>3, ExceptSeq DEF BranchIds
<1> HIDE DEF old, gone, fresh
<1>5. NewBranch(m, fresh) /\ \A a \in BranchIds : branches'[a] = IF a = b THEN gone ELSE branches[a]
  BY <1>1, <1>2, <1>4 DEF NewBranch, BranchIds
<1>6. lineage' = lineage /\ CheckpointIds' = CheckpointIds
  BY <1>1, SameCheckpoints
<1> QED
  BY <1>1, <1>3, <1>5, <1>6 DEF fresh

-----------------------------------------------------------------------------
(* The last writer of a cell, and the snapshots.                           *)

LEMMA LeastExists ==
  ASSUME NEW S \in SUBSET Nat, S # {}
  PROVE  \E n \in S : \A m \in S : n <= m
<1> DEFINE R == {ss \in Nat \X Nat : ss[1] < ss[2]}
<1>1. IsWellFoundedOn(R, Nat)
  BY NatLessThanWellFounded DEF OpToRel
<1> HIDE DEF R
<1>2. \E x \in S : \A y \in S : ~(<<y, x>> \in R)
  BY <1>1, WFMin
<1>3. \A x \in S, y \in S : ~(<<y, x>> \in R) => x <= y
  BY DEF R
<1> QED
  BY <1>2, <1>3

LEMMA GreatestExists ==
  ASSUME NEW W, W # {}, NEW f, NEW m \in Nat, \A d \in W : f[d] \in 0 .. m
  PROVE  \E d \in W : \A e \in W : f[e] <= f[d]
<1> DEFINE S == {m - f[d] : d \in W}
<1>1. S \in SUBSET Nat /\ S # {}
  OBVIOUS
<1> HIDE DEF S
<1>2. PICK n \in S : \A k \in S : n <= k
  BY <1>1, LeastExists
<1>3. PICK d \in W : n = m - f[d]
  BY DEF S
<1>4. \A e \in W : m - f[d] <= m - f[e]
  BY <1>2, <1>3 DEF S
<1> QED
  BY <1>4

LastOf(W, rows) == CHOOSE d \in W : \A e \in W : rows[e].step <= rows[d].step
ReplayOf(W, table, rows, x) ==
    IF W = {} \/ table[LastOf(W, rows)][x] = Tombstone
    THEN Absent ELSE table[LastOf(W, rows)][x]
ReplayOn(L, table, rows, x) == ReplayOf({d \in L : table[d][x] # Unwritten}, table, rows, x)

LEMMA ReplayIsReplayOn ==
  ASSUME NEW c, NEW x
  PROVE  /\ Replay(state_kv, c, x) = ReplayOn(lineage[c], state_kv, checkpoints, x)
         /\ Replay(state_kv, c, x)' = ReplayOn(lineage'[c], state_kv', checkpoints', x)
         /\ Replay(vfs_objects, c, x) = ReplayOn(lineage[c], vfs_objects, checkpoints, x)
         /\ Replay(vfs_objects, c, x)' = ReplayOn(lineage'[c], vfs_objects', checkpoints', x)
  BY DEF Replay, Writers, ReplayOn, ReplayOf, LastOf

LEMMA LastIsWriter ==
  ASSUME NEW W, W # {}, NEW rows, NEW m \in Nat, \A d \in W : rows[d].step \in 0 .. m
  PROVE  LastOf(W, rows) \in W /\ \A e \in W : rows[e].step <= rows[LastOf(W, rows)].step
<1> DEFINE f == [d \in W |-> rows[d].step]
<1>1. \A d \in W : f[d] = rows[d].step
  OBVIOUS
<1> HIDE DEF f
<1>2. \E d \in W : \A e \in W : f[e] <= f[d]
  BY <1>1, GreatestExists
<1> QED
  BY <1>1, <1>2 DEF LastOf

(* A replay depends on the rows along the lineage and on nothing else.     *)
LEMMA ReplayOnSame ==
  ASSUME NEW L, NEW t1, NEW t2, NEW r1, NEW r2, NEW x, NEW m \in Nat,
         \A d \in L : t2[d][x] = t1[d][x] /\ r2[d] = r1[d] /\ r1[d].step \in 0 .. m
  PROVE  ReplayOn(L, t2, r2, x) = ReplayOn(L, t1, r1, x)
<1> DEFINE W == {d \in L : t1[d][x] # Unwritten}
<1>1. W = {d \in L : t2[d][x] # Unwritten}
  OBVIOUS
<1>2. \A d \in W : d \in L
  OBVIOUS
<1> HIDE DEF W
<1>3. LastOf(W, r2) = LastOf(W, r1)
  <2>1. \A d : (d \in W /\ \A e \in W : r2[e].step <= r2[d].step)
               <=> (d \in W /\ \A e \in W : r1[e].step <= r1[d].step)
    BY <1>2
  <2> QED
    BY <2>1, Zenon DEF LastOf
<1>4. W # {} => LastOf(W, r1) \in W
  BY <1>2, LastIsWriter
<1>5. ReplayOf(W, t2, r2, x) = ReplayOf(W, t1, r1, x)
  BY <1>2, <1>3, <1>4 DEF ReplayOf
<1> QED
  BY <1>1, <1>5 DEF ReplayOn, W

(* The last checkpoint of a lineage overlays the replay of the others.     *)
Extends(L, n, t1, t2, r1, r2, x, m) ==
    /\ m \in Nat /\ n \notin L
    /\ \A d \in L : t2[d][x] = t1[d][x] /\ r2[d] = r1[d] /\ r1[d].step \in 0 .. m
    /\ r2[n].step = m + 1

LEMMA ReplayOnChild ==
  ASSUME NEW L, NEW n, NEW t1, NEW t2, NEW r1, NEW r2, NEW x, NEW m,
         Extends(L, n, t1, t2, r1, r2, x, m)
  PROVE  ReplayOn({n} \cup L, t2, r2, x) =
            IF t2[n][x] = Unwritten THEN ReplayOn(L, t1, r1, x)
            ELSE IF t2[n][x] = Tombstone THEN Absent ELSE t2[n][x]
<1> DEFINE W == {d \in {n} \cup L : t2[d][x] # Unwritten}
<1>0. /\ m \in Nat /\ n \notin L /\ r2[n].step = m + 1
      /\ \A d \in L : t2[d][x] = t1[d][x] /\ r2[d] = r1[d] /\ r1[d].step \in 0 .. m
  BY DEF Extends
<1>1. CASE t2[n][x] = Unwritten
  <2>1. W = {d \in L : t2[d][x] # Unwritten}
    BY <1>1
  <2>2. ReplayOn({n} \cup L, t2, r2, x) = ReplayOn(L, t2, r2, x)
    BY <2>1 DEF ReplayOn
  <2> QED
    BY <2>2, <1>0, <1>1, ReplayOnSame
<1>2. CASE t2[n][x] # Unwritten
  <2>1. n \in W /\ \A d \in W : d = n \/ d \in L
    BY <1>2
  <2> HIDE DEF W
  <2>2. \A d \in W : r2[d].step \in 0 .. m + 1 /\ (d # n => r2[d].step < r2[n].step)
    BY <1>0, <2>1
  <2>3. LastOf(W, r2) = n
    <3>1. LastOf(W, r2) \in W /\ \A e \in W : r2[e].step <= r2[LastOf(W, r2)].step
      BY <1>0, <2>1, <2>2, LastIsWriter
    <3>2. r2[n].step <= r2[LastOf(W, r2)].step
      BY <2>1, <3>1
    <3> QED
      BY <2>1, <2>2, <3>1, <3>2
  <2>4. ReplayOf(W, t2, r2, x) = IF t2[n][x] = Tombstone THEN Absent ELSE t2[n][x]
    BY <2>1, <2>3 DEF ReplayOf
  <2> QED
    BY <2>4, <1>2 DEF ReplayOn, W
<1> QED
  BY <1>1, <1>2

(* Steps along a lineage are bounded by the step of its end.               *)
LEMMA StepsOfLineage ==
  ASSUME TreeInv, NEW c \in CheckpointIds
  PROVE  /\ checkpoints[c].step \in Nat
         /\ lineage[c] \subseteq CheckpointIds /\ c \in lineage[c]
         /\ \A d \in lineage[c] : checkpoints[d].step \in 0 .. checkpoints[c].step
<1>1. /\ c \in lineage[c] /\ lineage[c] \subseteq 1 .. c /\ Len(checkpoints) \in Nat
      /\ \A d \in CheckpointIds : checkpoints[d].step \in Nat
  BY RowTypes DEF TreeInv, Tree, CheckpointRows
<1>2. lineage[c] \subseteq CheckpointIds
  BY <1>1 DEF CheckpointIds
<1> QED
  BY <1>1, <1>2 DEF TreeInv, LineageIsChain

(* History is immutable: what a checkpoint resolves to never changes.      *)
LEMMA ReplayStays ==
  ASSUME TreeInv, OldCheckpointsStay, NEW c \in CheckpointIds, NEW x
  PROVE  /\ Replay(state_kv, c, x)' = Replay(state_kv, c, x)
         /\ Replay(vfs_objects, c, x)' = Replay(vfs_objects, c, x)
<1>1. lineage'[c] = lineage[c]
  BY DEF OldCheckpointsStay
<1>2. \A d \in lineage[c] : /\ state_kv'[d][x] = state_kv[d][x]
                            /\ vfs_objects'[d][x] = vfs_objects[d][x]
                            /\ checkpoints'[d] = checkpoints[d]
                            /\ checkpoints[d].step \in 0 .. checkpoints[c].step
  BY StepsOfLineage DEF OldCheckpointsStay
<1>3. checkpoints[c].step \in Nat
  BY StepsOfLineage
<1>4. ReplayOn(lineage[c], state_kv', checkpoints', x) = ReplayOn(lineage[c], state_kv, checkpoints, x)
  BY <1>2, <1>3, ReplayOnSame
<1>5. ReplayOn(lineage[c], vfs_objects', checkpoints', x)
         = ReplayOn(lineage[c], vfs_objects, checkpoints, x)
  BY <1>2, <1>3, ReplayOnSame
<1> QED
  BY <1>1, <1>4, <1>5, ReplayIsReplayOn

-----------------------------------------------------------------------------
(* The store of deltas implements the store of snapshots.                  *)

SnapRow(c) == [run |-> RunOf(c), delta |-> DeltaOf(c), cells |-> SnapshotOf(c)]
snapsBar == [c \in CheckpointIds |-> SnapRow(c)]
headsBar == [b \in BranchIds |-> [run |-> branches[b].run, snap |-> branches[b].head]]
liveBar == {b \in BranchIds : Active(b)}
snapshotVars == <<snapsBar, headsBar, liveBar, runs>>

LEMMA AppendFunction ==
  ASSUME NEW n \in Nat, NEW s, s = [i \in 1 .. n |-> s[i]],
         NEW t, t = [i \in (1 .. n) \cup {n + 1} |-> t[i]], \A i \in 1 .. n : t[i] = s[i]
  PROVE  t = Append(s, t[n + 1]) /\ Len(s) = n
<1> DEFINE T == {t[i] : i \in 1 .. n + 1}
           e == t[n + 1]
<1>0. (\A i \in 1 .. n : s[i] \in T) /\ e \in T
  <2>1. \A i \in 1 .. n + 1 : t[i] \in T
    OBVIOUS
  <2> HIDE DEF T
  <2>2. n + 1 \in 1 .. n + 1
    OBVIOUS
  <2>3. \A i \in 1 .. n : i \in 1 .. n + 1
    OBVIOUS
  <2> QED
    BY <2>1, <2>2, <2>3
<1>1. /\ s \in Seq(T) /\ Len(s) = n
  <2> HIDE DEF T
  <2>2. s \in [1 .. n -> T]
    BY <1>0
  <2> QED
    BY <2>2, FunctionIsSeq
<1>2. t \in Seq(T) /\ Len(t) = n + 1
  <2>1. (1 .. n) \cup {n + 1} = 1 .. n + 1
    OBVIOUS
  <2>2. \A i \in 1 .. n + 1 : t[i] \in T
    OBVIOUS
  <2> HIDE DEF T
  <2>3. t \in [1 .. n + 1 -> T]
    BY <2>1, <2>2
  <2> QED
    BY <2>3, FunctionIsSeq
<1> HIDE DEF T
<1>3. /\ Append(s, e) \in Seq(T) /\ Len(Append(s, e)) = n + 1 /\ Append(s, e)[n + 1] = e
      /\ \A i \in 1 .. n : Append(s, e)[i] = s[i]
  BY <1>0, <1>1, AppendSeq
<1>4. \A i \in 1 .. n + 1 : t[i] = Append(s, e)[i]
  <2> TAKE i \in 1 .. n + 1
  <2>1. i \in 1 .. n \/ i = n + 1
    OBVIOUS
  <2> QED
    BY <2>1, <1>3
<1> QED
  BY <1>1, <1>2, <1>3, <1>4, SeqEqual

Cell(c, x) == IF x \in Keys THEN Replay(state_kv, c, x) ELSE Replay(vfs_objects, c, x)
Wrote(c, x) == IF x \in Keys THEN state_kv[c][x] ELSE vfs_objects[c][x]

LEMMA SnapshotCells ==
  ASSUME NEW c
  PROVE  /\ SnapshotOf(c) = [x \in Cells |-> Cell(c, x)]
         /\ SnapshotOf(c)' = [x \in Cells |-> Cell(c, x)']
         /\ DeltaOf(c) = [x \in Cells |-> Wrote(c, x)]
         /\ DeltaOf(c)' = [x \in Cells |-> Wrote(c, x)']
<1>1. \A x \in Cells : x \in Keys \/ x \in Paths
  BY DEF Cells
<1> QED
  BY <1>1 DEF SnapshotOf, DeltaOf, get_state, resolve_files, Cell, Wrote

LEMMA SnapshotsStay ==
  ASSUME TreeInv, OldCheckpointsStay, NEW c \in CheckpointIds
  PROVE  SnapRow(c)' = SnapRow(c)
<1>1. \A x : Cell(c, x)' = Cell(c, x) /\ Wrote(c, x)' = Wrote(c, x)
  BY ReplayStays DEF OldCheckpointsStay, Cell, Wrote
<1>2. RunOf(c)' = RunOf(c)
  BY DEF RunOf, OldCheckpointsStay
<1> QED
  BY <1>1, <1>2, SnapshotCells DEF SnapRow

LEMMA SnapshotAdded ==
  ASSUME TreeInv, NEW n, NEW row, NEW kv, NEW files, NewCheckpoint(n, row, kv, files)
  PROVE  /\ snapsBar' = Append(snapsBar, SnapRow(n)') /\ Len(snapsBar) = Len(checkpoints)
<1>1. /\ n = Len(checkpoints) + 1 /\ CheckpointIds' = CheckpointIds \cup {n}
      /\ OldCheckpointsStay
  BY DEF NewCheckpoint
<1>2. /\ snapsBar = [c \in CheckpointIds |-> SnapRow(c)]
      /\ snapsBar' = [c \in CheckpointIds \cup {n} |-> SnapRow(c)']
  BY <1>1 DEF snapsBar
<1>3. \A c \in CheckpointIds : SnapRow(c)' = SnapRow(c)
  BY <1>1, SnapshotsStay
<1>4. Len(checkpoints) \in Nat /\ CheckpointIds = 1 .. Len(checkpoints)
  BY RowTypes DEF TreeInv, CheckpointIds
<1>5. /\ snapsBar = [c \in 1 .. Len(checkpoints) |-> snapsBar[c]]
      /\ snapsBar' = [c \in (1 .. Len(checkpoints)) \cup {Len(checkpoints) + 1} |-> snapsBar'[c]]
      /\ \A c \in 1 .. Len(checkpoints) : snapsBar'[c] = snapsBar[c]
      /\ snapsBar'[n] = SnapRow(n)'
  BY <1>1, <1>2, <1>3, <1>4
<1> QED
  BY <1>1, <1>4, <1>5, AppendFunction

LEMMA HeadAdded ==
  ASSUME TreeInv, NEW m, NEW row, NewBranch(m, row),
         \A b \in BranchIds : branches'[b].run = branches[b].run /\ branches'[b].head = branches[b].head
  PROVE  /\ headsBar' = Append(headsBar, [run |-> row.run, snap |-> row.head])
         /\ Len(headsBar) = Len(branches)
<1>1. /\ m = Len(branches) + 1 /\ BranchIds' = BranchIds \cup {m} /\ branches'[m] = row
  BY DEF NewBranch
<1>2. Len(branches) \in Nat /\ BranchIds = 1 .. Len(branches)
  BY RowTypes DEF TreeInv, BranchIds
<1>3. /\ headsBar = [b \in 1 .. Len(branches) |-> headsBar[b]]
      /\ headsBar' = [b \in (1 .. Len(branches)) \cup {Len(branches) + 1} |-> headsBar'[b]]
      /\ \A b \in 1 .. Len(branches) : headsBar'[b] = headsBar[b]
      /\ headsBar'[m] = [run |-> row.run, snap |-> row.head]
  BY <1>1, <1>2 DEF headsBar
<1> QED
  BY <1>1, <1>2, <1>3, AppendFunction

LEMMA CreateRunIsNewRun ==
  ASSUME TreeInv, create_run
  PROVE  Snapshots!NewRun
<1>1. PICK n : n = Len(checkpoints) + 1
  OBVIOUS
<1>2. PICK m : m = Len(branches) + 1
  OBVIOUS
<1> DEFINE row == [run |-> runs + 1, branch |-> m, parent |-> NULL, step |-> 0]
           main == [run |-> runs + 1, status |-> "active", head |-> n, fork |-> NULL, of |-> NULL]
<1>3. /\ NewCheckpoint(n, row, NoRows(Keys), NoRows(Paths)) /\ NewBranch(m, main)
      /\ \A b \in BranchIds : branches'[b] = branches[b]
      /\ runs' = runs + 1
  BY <1>1, <1>2, CreateRunShape
<1>4. /\ checkpoints'[n].run = runs + 1 /\ lineage'[n] = {n}
      /\ state_kv'[n] = NoRows(Keys) /\ vfs_objects'[n] = NoRows(Paths)
  BY <1>3 DEF NewCheckpoint
<1>5. \A x \in Cells : Cell(n, x)' = Absent /\ Wrote(n, x)' = Unwritten
  <2> TAKE x \in Cells
  <2>1. Wrote(n, x)' = Unwritten /\ (x \in Keys => state_kv'[n][x] = Unwritten)
        /\ (x \notin Keys => vfs_objects'[n][x] = Unwritten)
    BY <1>4 DEF Wrote, NoRows, Cells
  <2>2. x \in Keys => Replay(state_kv, n, x)' = Absent
    BY <2>1, <1>4 DEF Replay, Writers
  <2>3. x \notin Keys => Replay(vfs_objects, n, x)' = Absent
    BY <2>1, <1>4 DEF Replay, Writers
  <2> QED
    BY <2>1, <2>2, <2>3 DEF Cell
<1>6. SnapRow(n)' = [run |-> runs + 1, delta |-> [x \in Cells |-> Unwritten],
                     cells |-> [x \in Cells |-> Absent]]
  BY <1>4, <1>5, SnapshotCells DEF SnapRow, RunOf
<1>7. snapsBar' = Append(snapsBar, SnapRow(n)') /\ Len(snapsBar) = Len(checkpoints)
  BY <1>3, SnapshotAdded
<1>8. headsBar' = Append(headsBar, [run |-> runs + 1, snap |-> n]) /\ Len(headsBar) = Len(branches)
  <2>1. main.run = runs + 1 /\ main.head = n
    OBVIOUS
  <2> HIDE DEF main
  <2> QED
    BY <2>1, <1>3, HeadAdded
<1>9. liveBar' = liveBar \cup {m}
  BY <1>3 DEF liveBar, Active, NewBranch
<1>10. /\ runs' = runs + 1
       /\ snapsBar' = Append(snapsBar, [run |-> runs + 1, delta |-> [x \in Cells |-> Unwritten],
                                        cells |-> [x \in Cells |-> Absent]])
       /\ headsBar' = Append(headsBar, [run |-> runs + 1, snap |-> Len(snapsBar) + 1])
       /\ liveBar' = liveBar \cup {Len(headsBar) + 1}
  BY <1>1, <1>2, <1>3, <1>6, <1>7, <1>8, <1>9
<1> QED
  BY <1>10, Zenon DEF Snapshots!NewRun, snapsBar, headsBar, liveBar, SnapRow

LEMMA CommitIsCommit ==
  ASSUME TreeInv, NEW b \in BranchIds, NEW kv \in Rows(Keys), NEW files \in Rows(Paths),
         NEW expected, create_checkpoint(b, kv, files, expected)
  PROVE  \E a \in 1 .. Len(headsBar), d \in Snapshots!Deltas : Snapshots!Commit(a, d)
<1>1. PICK n : n = Len(checkpoints) + 1
  OBVIOUS
<1>2. PICK p : p = branches[b].head
  OBVIOUS
<1> DEFINE row == [run |-> branches[b].run, branch |-> b, parent |-> p,
                   step |-> checkpoints[p].step + 1]
<1>0. PICK delta : delta = [x \in Cells |-> Wrote(n, x)']
  OBVIOUS
<1>3. /\ NewCheckpoint(n, row, kv, files) /\ p \in CheckpointIds /\ Active(b)
      /\ BranchIds' = BranchIds
      /\ \A a \in BranchIds :
            /\ branches'[a].run = branches[a].run /\ branches'[a].status = branches[a].status
            /\ branches'[a].head = IF a = b THEN n ELSE branches[a].head
      /\ runs' = runs
  BY <1>1, <1>2, CommitShape
<1>4. /\ checkpoints'[n] = row /\ lineage'[n] = {n} \cup lineage[p]
      /\ state_kv'[n] = kv /\ vfs_objects'[n] = files
      /\ n \notin CheckpointIds /\ OldCheckpointsStay
  BY <1>3 DEF NewCheckpoint, NULL, CheckpointIds
<1>5. row.run = branches[b].run /\ row.step = checkpoints[p].step + 1
  OBVIOUS
<1> HIDE DEF row
<1>6. \A x \in Cells : Cell(n, x)' = IF delta[x] = Unwritten THEN Cell(p, x)
                                    ELSE IF delta[x] = Tombstone THEN Absent ELSE delta[x]
  <2> TAKE x \in Cells
  <2> DEFINE m == checkpoints[p].step
  <2>0. m \in Nat /\ n \notin lineage[p]
    BY <1>3, <1>4, StepsOfLineage
  <2>1. /\ \A d \in lineage[p] : /\ state_kv'[d][x] = state_kv[d][x]
                                 /\ checkpoints'[d] = checkpoints[d]
                                 /\ checkpoints[d].step \in 0 .. m
        /\ \A d \in lineage[p] : /\ vfs_objects'[d][x] = vfs_objects[d][x]
                                 /\ checkpoints'[d] = checkpoints[d]
                                 /\ checkpoints[d].step \in 0 .. m
    BY <1>3, <1>4, StepsOfLineage DEF OldCheckpointsStay
  <2>2. checkpoints'[n].step = m + 1
    BY <1>4, <1>5
  <2> HIDE DEF m
  <2>8. /\ Extends(lineage[p], n, state_kv, state_kv', checkpoints, checkpoints', x, m)
        /\ Extends(lineage[p], n, vfs_objects, vfs_objects', checkpoints, checkpoints', x, m)
    BY <2>0, <2>1, <2>2 DEF Extends
  <2>3. ReplayOn({n} \cup lineage[p], state_kv', checkpoints', x) =
            IF state_kv'[n][x] = Unwritten THEN ReplayOn(lineage[p], state_kv, checkpoints, x)
            ELSE IF state_kv'[n][x] = Tombstone THEN Absent ELSE state_kv'[n][x]
    BY <2>8, ReplayOnChild
  <2>4. ReplayOn({n} \cup lineage[p], vfs_objects', checkpoints', x) =
            IF vfs_objects'[n][x] = Unwritten THEN ReplayOn(lineage[p], vfs_objects, checkpoints, x)
            ELSE IF vfs_objects'[n][x] = Tombstone THEN Absent ELSE vfs_objects'[n][x]
    BY <2>8, ReplayOnChild
  <2>5. delta[x] = IF x \in Keys THEN state_kv'[n][x] ELSE vfs_objects'[n][x]
    BY <1>0 DEF Wrote
  <2>6. Cell(n, x)' = IF x \in Keys THEN Replay(state_kv, n, x)' ELSE Replay(vfs_objects, n, x)'
    BY DEF Cell
  <2>7. Cell(p, x) = IF x \in Keys THEN Replay(state_kv, p, x) ELSE Replay(vfs_objects, p, x)
    BY DEF Cell
  <2> QED
    BY <2>3, <2>4, <2>5, <2>6, <2>7, <1>4, ReplayIsReplayOn
<1>7. delta \in Snapshots!Deltas
  <2>1. \A x \in Cells : Wrote(n, x)' \in Contents \cup {Unwritten, Tombstone}
    BY <1>4 DEF Wrote, Cells, Rows
  <2> QED
    BY <2>1, <1>0 DEF Snapshots!Deltas
<1>8. /\ snapsBar' = Append(snapsBar, SnapRow(n)') /\ Len(snapsBar) = Len(checkpoints)
      /\ snapsBar[p].cells = SnapshotOf(p)
  BY <1>3, SnapshotAdded DEF snapsBar, SnapRow
<1>9. SnapRow(n)' = [run |-> branches[b].run, delta |-> delta,
                     cells |-> Snapshots!Overlay(snapsBar[p].cells, delta)]
  <2>1. SnapshotOf(n)' = Snapshots!Overlay(SnapshotOf(p), delta)
    <3>1. \A x \in Cells : SnapshotOf(p)[x] = Cell(p, x)
      BY SnapshotCells
    <3> QED
      BY <3>1, <1>6, SnapshotCells, DistinctMarkers DEF Snapshots!Overlay
  <2>2. DeltaOf(n)' = delta
    BY <1>0, SnapshotCells
  <2> QED
    BY <2>1, <2>2, <1>4, <1>5, <1>8 DEF SnapRow, RunOf
<1>10. headsBar' = [headsBar EXCEPT ![b].snap = n] /\ headsBar[b].run = branches[b].run
       /\ headsBar[b].snap = p
  <2>1. headsBar' = [a \in BranchIds |-> [run |-> branches'[a].run, snap |-> branches'[a].head]]
    BY <1>3 DEF headsBar
  <2>2. [headsBar EXCEPT ![b].snap = n] =
           [a \in BranchIds |-> IF a = b THEN [run |-> branches[b].run, snap |-> n]
                                ELSE [run |-> branches[a].run, snap |-> branches[a].head]]
    <3>1. [headsBar EXCEPT ![b].snap = n] = [headsBar EXCEPT ![b] = [headsBar[b] EXCEPT !.snap = n]]
      OBVIOUS
    <3>2. [headsBar[b] EXCEPT !.snap = n] = [run |-> branches[b].run, snap |-> n]
      BY DEF headsBar
    <3> QED
      BY <3>1, <3>2 DEF headsBar
  <2>3. \A a \in BranchIds : [run |-> branches'[a].run, snap |-> branches'[a].head] =
                                IF a = b THEN [run |-> branches[b].run, snap |-> n]
                                ELSE [run |-> branches[a].run, snap |-> branches[a].head]
    BY <1>3
  <2> QED
    BY <2>1, <2>2, <2>3, <1>2 DEF headsBar
<1>11. b \in liveBar /\ liveBar' = liveBar /\ b \in 1 .. Len(headsBar)
  <2>1. Len(headsBar) = Len(branches)
    <3>1. Len(branches) \in Nat /\ headsBar = [a \in 1 .. Len(branches) |-> headsBar[a]]
      BY RowTypes DEF TreeInv, BranchIds, headsBar
    <3> QED
      BY <3>1
  <2> QED
    BY <2>1, <1>3 DEF liveBar, Active, BranchIds
<1>12. Snapshots!Commit(b, delta)
  <2>1. /\ b \in liveBar
        /\ snapsBar' = Append(snapsBar, [run |-> headsBar[b].run, delta |-> delta,
                        cells |-> Snapshots!Overlay(snapsBar[headsBar[b].snap].cells, delta)])
        /\ headsBar' = [headsBar EXCEPT ![b].snap = Len(snapsBar) + 1]
        /\ liveBar' = liveBar /\ runs' = runs
    BY <1>1, <1>3, <1>8, <1>9, <1>10, <1>11
  <2> QED
    BY <2>1, Zenon DEF Snapshots!Commit, snapsBar, headsBar, liveBar, SnapRow
<1> QED
  BY <1>7, <1>11, <1>12

LEMMA RewindIsFork ==
  ASSUME TreeInv, NEW b \in BranchIds, NEW target \in CheckpointIds, rewind(b, target)
  PROVE  \E a \in 1 .. Len(headsBar), c \in 1 .. Len(snapsBar) : Snapshots!Fork(a, c)
<1>1. PICK m : m = Len(branches) + 1
  OBVIOUS
<1> DEFINE fresh == [run |-> branches[b].run, status |-> "active", head |-> target,
                     fork |-> target, of |-> b]
<1>2. /\ NewBranch(m, fresh)
      /\ \A a \in BranchIds :
            /\ branches'[a].run = branches[a].run /\ branches'[a].head = branches[a].head
            /\ branches'[a].status = IF a = b THEN "abandoned" ELSE branches[a].status
      /\ UNCHANGED <<runs, checkpoints, state_kv, vfs_objects, lineage, CheckpointIds>>
      /\ RunOf(target) = branches[b].run
  BY <1>1, RewindShape
<1>3. fresh.run = branches[b].run /\ fresh.head = target /\ fresh.status = "active"
  OBVIOUS
<1> HIDE DEF fresh
<1>4. /\ headsBar' = Append(headsBar, [run |-> branches[b].run, snap |-> target])
      /\ Len(headsBar) = Len(branches)
  BY <1>2, <1>3, HeadAdded
<1>5. liveBar' = (liveBar \ {b}) \cup {m}
  <2>1. /\ BranchIds' = BranchIds \cup {m} /\ branches'[m].status = "active" /\ m \notin BranchIds
    BY <1>2, <1>3 DEF NewBranch
  <2> QED
    BY <2>1, <1>2 DEF liveBar, Active
<1>6. snapsBar' = snapsBar /\ Len(snapsBar) = Len(checkpoints)
  <2>1. OldCheckpointsStay
    BY <1>2 DEF OldCheckpointsStay
  <2>2. \A c \in CheckpointIds : SnapRow(c)' = SnapRow(c)
    BY <2>1, SnapshotsStay
  <2>3. snapsBar' = [c \in CheckpointIds |-> SnapRow(c)']
    BY <1>2 DEF snapsBar
  <2>4. Len(checkpoints) \in Nat /\ snapsBar = [c \in 1 .. Len(checkpoints) |-> snapsBar[c]]
    BY RowTypes DEF TreeInv, CheckpointIds, snapsBar
  <2>5. Len(snapsBar) = Len(checkpoints)
    BY <2>4
  <2> QED
    BY <2>2, <2>3, <2>5 DEF snapsBar
<1>7. Snapshots!Fork(b, target)
  <2>1. /\ snapsBar[target].run = headsBar[b].run
        /\ headsBar[b].run = branches[b].run
    BY <1>2 DEF snapsBar, SnapRow, headsBar
  <2>2. /\ snapsBar[target].run = headsBar[b].run
        /\ headsBar' = Append(headsBar, [run |-> headsBar[b].run, snap |-> target])
        /\ liveBar' = (liveBar \ {b}) \cup {Len(headsBar) + 1}
        /\ snapsBar' = snapsBar /\ runs' = runs
    BY <2>1, <1>1, <1>2, <1>4, <1>5, <1>6
  <2> QED
    BY <2>2, Zenon DEF Snapshots!Fork, snapsBar, headsBar, liveBar, SnapRow
<1>8. b \in 1 .. Len(headsBar) /\ target \in 1 .. Len(snapsBar)
  BY <1>4, <1>6 DEF BranchIds, CheckpointIds
<1> QED
  BY <1>7, <1>8

LEMMA SameHistoryIsStutter ==
  ASSUME TreeInv, UNCHANGED history
  PROVE  UNCHANGED snapshotVars
<1>1. /\ UNCHANGED <<runs, branches, checkpoints, state_kv, vfs_objects>>
      /\ lineage' = lineage /\ CheckpointIds' = CheckpointIds
  BY SameCheckpoints DEF history
<1>2. \A c \in CheckpointIds : SnapRow(c)' = SnapRow(c)
  BY <1>1, SnapshotsStay DEF OldCheckpointsStay
<1>3. snapsBar' = snapsBar
  BY <1>1, <1>2 DEF snapsBar
<1>4. headsBar' = headsBar /\ liveBar' = liveBar
  BY <1>1 DEF headsBar, liveBar, BranchIds, Active
<1> QED
  BY <1>1, <1>3, <1>4 DEF snapshotVars

LEMMA SnapshotStep ==
  ASSUME TreeInv, [Next]_storeVars
  PROVE  [Snapshots!Next]_snapshotVars
<1>1. CASE create_run
  BY <1>1, CreateRunIsNewRun DEF Snapshots!Next
<1>2. ASSUME NEW b \in BranchIds, Checkpoint(b)
      PROVE  Snapshots!Next
  <2>1. \A updates, deletes : KvRows(updates, deletes) \subseteq Rows(Keys)
    BY DEF KvRows
  <2>2. PICK kv \in Rows(Keys), files \in Rows(Paths), expected \in CheckpointIds \cup {NULL} :
           create_checkpoint(b, kv, files, expected)
    BY <1>2, <2>1 DEF Checkpoint
  <2>3. PICK a \in 1 .. Len(headsBar), d \in Snapshots!Deltas : Snapshots!Commit(a, d)
    BY <2>2, CommitIsCommit
  <2> QED
    BY <2>3 DEF Snapshots!Next, headsBar
<1>3. ASSUME NEW b \in BranchIds, NEW target \in CheckpointIds, rewind(b, target)
      PROVE  Snapshots!Next
  <2>1. PICK a \in 1 .. Len(headsBar), c \in 1 .. Len(snapsBar) : Snapshots!Fork(a, c)
    BY <1>3, RewindIsFork
  <2> QED
    BY <2>1 DEF Snapshots!Next, headsBar, snapsBar, SnapRow
<1>4. ASSUME NEW b \in BranchIds, NEW c \in CheckpointIds, Record(b, c)
      PROVE  UNCHANGED snapshotVars
  BY <1>4, SameHistoryIsStutter DEF Record, record_effect
<1>5. ASSUME NEW e \in EffectIds, Flushed(e)
      PROVE  UNCHANGED snapshotVars
  BY <1>5, SameHistoryIsStutter DEF Flushed, set_effect_status
<1>6. CASE UNCHANGED storeVars
  BY <1>6, SameHistoryIsStutter DEF storeVars, history
<1> QED
  BY <1>1, <1>2, <1>3, <1>4, <1>5, <1>6 DEF Next

LEMMA SnapshotInit == Init => Snapshots!Init
<1> SUFFICES ASSUME Init  PROVE Snapshots!Init
  OBVIOUS
<1>1. CheckpointIds = {} /\ BranchIds = {} /\ runs = 0
  BY EmptySeq DEF Init, CheckpointIds, BranchIds
<1>2. snapsBar = <<>> /\ headsBar = <<>> /\ liveBar = {} /\ runs = 0
  BY <1>1 DEF snapsBar, headsBar, liveBar
<1> QED
  BY <1>2 DEF Snapshots!Init, snapsBar, headsBar, liveBar, SnapRow

(* What get_state and the virtual files resolve to, along lineages of      *)
(* deltas and across forks, is what a store of whole snapshots would hold: *)
(* history is immutable, and a commit overlays its parent and no more.     *)
THEOREM StoreImplementsSnapshots == Spec => ImplementsSnapshots
<1>1. Init => Snapshots!Init
  BY SnapshotInit
<1>2. TreeInv /\ [Next]_storeVars => [Snapshots!Next]_(Snapshots!vars)
  BY SnapshotStep DEF snapshotVars, snapsBar, headsBar, liveBar, SnapRow, Snapshots!vars
<1> QED
  BY <1>1, <1>2, TreeInvariant, PTL DEF Spec, ImplementsSnapshots, Snapshots!Spec

-----------------------------------------------------------------------------
(* What the components over the store rely on: rows are only added, a head *)
(* only moves down its lineage, and an effect is never staged again.       *)

StoreGrows ==
    /\ OldCheckpointsStay
    /\ CheckpointIds \subseteq CheckpointIds' /\ BranchIds \subseteq BranchIds'
    /\ EffectIds \subseteq EffectIds'
    /\ \A b \in BranchIds :
          /\ branches'[b].run = branches[b].run /\ branches'[b].fork = branches[b].fork
          /\ branches'[b].of = branches[b].of
          /\ lineage[branches[b].head] \subseteq lineage'[branches'[b].head]
    /\ \A e \in EffectIds :
          /\ staged_effects'[e].branch = staged_effects[e].branch
          /\ staged_effects'[e].checkpoint = staged_effects[e].checkpoint
          /\ staged_effects'[e].mode = staged_effects[e].mode
          /\ staged_effects'[e].key = staged_effects[e].key
          /\ staged_effects'[e].status = "staged" => staged_effects[e].status = "staged"
          /\ staged_effects[e].status = "committed" => staged_effects'[e].status = "committed"

(* The lineage of a head: the branch's fork point, if it has one, all that *)
(* led to it, and checkpoints of the branch itself.                        *)
OwnLineage(b) ==
    /\ branches[b].fork # NULL => branches[b].fork \in lineage[branches[b].head]
    /\ \A d \in lineage[branches[b].head] :
          \/ checkpoints[d].branch = b
          \/ branches[b].fork # NULL /\ d \in lineage[branches[b].fork]

LineagesNest ==
    \A c \in CheckpointIds : \A d \in lineage[c] : lineage[d] \subseteq lineage[c]

StoreInv == TreeInv /\ LineagesNest /\ \A b \in BranchIds : OwnLineage(b)

LEMMA StoreFacts ==
  ASSUME TreeInv
  PROVE  /\ Len(checkpoints) \in Nat /\ Len(branches) \in Nat /\ Len(staged_effects) \in Nat
         /\ runs \in Nat
         /\ \A b \in BranchIds :
               /\ branches[b].head \in CheckpointIds /\ branches[b].run \in 1 .. runs
               /\ branches[b].fork # NULL => branches[b].fork \in CheckpointIds
               /\ branches[b].status \in {"active", "abandoned"}
               /\ RunOf(branches[b].head) = branches[b].run
         /\ \A c \in CheckpointIds :
               /\ checkpoints[c].branch \in BranchIds /\ checkpoints[c].run \in 1 .. runs
               /\ lineage[c] \subseteq CheckpointIds /\ c \in lineage[c]
         /\ \A e \in EffectIds :
               /\ staged_effects[e].branch \in BranchIds
               /\ staged_effects[e].checkpoint \in CheckpointIds
               /\ staged_effects[e].status \in {"staged", "committed", "discarded"}
               /\ staged_effects[e].mode \in {"staged", "idempotent", "dry_run"}
               /\ staged_effects[e].key \in EffectKeys \cup {NoKey}
<1>1. TypeOK
  BY DEF TreeInv
<1>2. \A b \in BranchIds : RunOf(branches[b].head) = branches[b].run
  BY DEF TreeInv, Tree
<1>3. \A c \in CheckpointIds : lineage[c] \subseteq CheckpointIds /\ c \in lineage[c]
  BY StepsOfLineage
<1> QED
  BY <1>1, <1>2, <1>3, RowTypes
     DEF BranchRows, CheckpointRows, EffectRows, CheckpointIds, BranchIds, NULL

LEMMA SameHistoryGrows ==
  ASSUME TreeInv, UNCHANGED history, EffectIds \subseteq EffectIds',
         \A e \in EffectIds :
            /\ staged_effects'[e].branch = staged_effects[e].branch
            /\ staged_effects'[e].checkpoint = staged_effects[e].checkpoint
            /\ staged_effects'[e].mode = staged_effects[e].mode
            /\ staged_effects'[e].key = staged_effects[e].key
            /\ staged_effects'[e].status = "staged" => staged_effects[e].status = "staged"
            /\ staged_effects[e].status = "committed" => staged_effects'[e].status = "committed"
  PROVE  StoreGrows
<1>1. /\ lineage' = lineage /\ CheckpointIds' = CheckpointIds /\ BranchIds' = BranchIds
      /\ UNCHANGED <<checkpoints, branches, state_kv, vfs_objects>>
  BY SameCheckpoints DEF history, BranchIds
<1> QED
  BY <1>1 DEF StoreGrows, OldCheckpointsStay

LEMMA SameEffectsGrow ==
  ASSUME staged_effects' = staged_effects
  PROVE  /\ EffectIds' = EffectIds
         /\ \A e \in EffectIds : staged_effects'[e] = staged_effects[e]
  BY DEF EffectIds

LEMMA CreateRunGrows ==
  ASSUME TreeInv, create_run
  PROVE  StoreGrows
<1>1. PICK n : n = Len(checkpoints) + 1
  OBVIOUS
<1>2. PICK m : m = Len(branches) + 1
  OBVIOUS
<1>3. /\ OldCheckpointsStay /\ CheckpointIds' = CheckpointIds \cup {n}
      /\ BranchIds' = BranchIds \cup {m} /\ \A b \in BranchIds : branches'[b] = branches[b]
      /\ staged_effects' = staged_effects
  BY <1>1, <1>2, CreateRunShape DEF NewCheckpoint, NewBranch
<1>4. \A b \in BranchIds : lineage'[branches'[b].head] = lineage[branches[b].head]
  BY <1>3, StoreFacts DEF OldCheckpointsStay
<1> QED
  BY <1>3, <1>4, SameEffectsGrow DEF StoreGrows

LEMMA CommitGrows ==
  ASSUME TreeInv, NEW b \in BranchIds, NEW kv, NEW files, NEW expected,
         create_checkpoint(b, kv, files, expected)
  PROVE  StoreGrows
<1>1. PICK n : n = Len(checkpoints) + 1
  OBVIOUS
<1> DEFINE row == [run |-> branches[b].run, branch |-> b, parent |-> branches[b].head,
                   step |-> checkpoints[branches[b].head].step + 1]
<1>2. /\ NewCheckpoint(n, row, kv, files) /\ branches[b].head \in CheckpointIds
      /\ BranchIds' = BranchIds /\ staged_effects' = staged_effects
      /\ \A a \in BranchIds : /\ branches'[a].run = branches[a].run
                              /\ branches'[a].fork = branches[a].fork
                              /\ branches'[a].of = branches[a].of
                              /\ branches'[a].head = IF a = b THEN n ELSE branches[a].head
  BY <1>1, CommitShape
<1>3. /\ OldCheckpointsStay /\ CheckpointIds' = CheckpointIds \cup {n}
      /\ lineage'[n] = {n} \cup lineage[branches[b].head]
  BY <1>2 DEF NewCheckpoint, CheckpointIds, NULL
<1>4. \A a \in BranchIds : lineage[branches[a].head] \subseteq lineage'[branches'[a].head]
  BY <1>2, <1>3, StoreFacts DEF OldCheckpointsStay
<1> QED
  BY <1>2, <1>3, <1>4, SameEffectsGrow DEF StoreGrows

LEMMA RewindGrows ==
  ASSUME TreeInv, NEW b \in BranchIds, NEW target \in CheckpointIds, rewind(b, target)
  PROVE  StoreGrows
<1>1. PICK m : m = Len(branches) + 1
  OBVIOUS
<1>2. /\ BranchIds' = BranchIds \cup {m}
      /\ \A a \in BranchIds : /\ branches'[a].run = branches[a].run
                              /\ branches'[a].head = branches[a].head
                              /\ branches'[a].fork = branches[a].fork
                              /\ branches'[a].of = branches[a].of
      /\ UNCHANGED <<checkpoints, state_kv, vfs_objects, lineage, CheckpointIds>>
  BY <1>1, RewindShape DEF NewBranch
<1>3. /\ EffectIds' = EffectIds
      /\ \A e \in EffectIds :
            staged_effects'[e] = IF e \in Discarded(b, target)
                                 THEN [staged_effects[e] EXCEPT !.status = "discarded"]
                                 ELSE staged_effects[e]
  BY RewindIsRewindStep DEF RewindStep
<1>4. \A e \in EffectIds : staged_effects[e] \in EffectRows(Len(branches), Len(checkpoints))
  BY RowTypes DEF TreeInv
<1>5. \A e \in EffectIds :
         /\ staged_effects'[e].branch = staged_effects[e].branch
         /\ staged_effects'[e].checkpoint = staged_effects[e].checkpoint
         /\ staged_effects'[e].mode = staged_effects[e].mode
         /\ staged_effects'[e].key = staged_effects[e].key
         /\ staged_effects'[e].status = "staged" => staged_effects[e].status = "staged"
         /\ staged_effects[e].status = "committed" => staged_effects'[e].status = "committed"
  BY <1>3, <1>4 DEF EffectRows, Discarded
<1> QED
  BY <1>2, <1>3, <1>5 DEF StoreGrows, OldCheckpointsStay

LEMMA RecordShape ==
  ASSUME TreeInv, NEW b, NEW c, NEW mode, NEW key, NEW status,
         record_effect(b, c, mode, key, status), NEW n, n = Len(staged_effects) + 1
  PROVE  /\ EffectIds' = EffectIds \cup {n} /\ n \notin EffectIds
         /\ staged_effects'[n] = [branch |-> b, checkpoint |-> c, mode |-> mode, key |-> key,
                                  status |-> status]
         /\ \A e \in EffectIds : staged_effects'[e] = staged_effects[e]
         /\ n \in 1 .. MaxEffects /\ UNCHANGED history
<1> DEFINE row == [branch |-> b, checkpoint |-> c, mode |-> mode, key |-> key, status |-> status]
<1>1. /\ staged_effects' = Append(staged_effects, row) /\ UNCHANGED history
      /\ Len(staged_effects) < MaxEffects
  BY DEF record_effect
<1>2. /\ staged_effects \in Seq(EffectRows(Len(branches), Len(checkpoints)))
      /\ Len(staged_effects) \in Nat
  BY TypeOKIsTypes, RowTypes DEF Types, TreeInv
<1> HIDE DEF row
<1>3. /\ EffectIds' = EffectIds \cup {n} /\ n \notin EffectIds /\ staged_effects'[n] = row
      /\ \A e \in EffectIds : staged_effects'[e] = staged_effects[e]
  BY <1>1, <1>2 DEF EffectIds
<1>4. n \in 1 .. MaxEffects
  BY <1>1, <1>2, BoundsAreNumbers
<1> QED
  BY <1>1, <1>3, <1>4 DEF row

LEMMA RecordGrows ==
  ASSUME TreeInv, NEW b, NEW c, NEW mode, NEW key, NEW status,
         record_effect(b, c, mode, key, status)
  PROVE  StoreGrows
<1>1. PICK n : n = Len(staged_effects) + 1
  OBVIOUS
<1> QED
  BY <1>1, RecordShape, SameHistoryGrows

LEMMA SetStatusShape ==
  ASSUME TreeInv, NEW f \in EffectIds, NEW status, set_effect_status(f, status)
  PROVE  /\ EffectIds' = EffectIds /\ UNCHANGED history
         /\ \A e \in EffectIds :
               /\ staged_effects'[e].branch = staged_effects[e].branch
               /\ staged_effects'[e].checkpoint = staged_effects[e].checkpoint
               /\ staged_effects'[e].mode = staged_effects[e].mode
               /\ staged_effects'[e].key = staged_effects[e].key
               /\ staged_effects'[e].status = IF e = f THEN status ELSE staged_effects[e].status
<1> DEFINE row == [staged_effects[f] EXCEPT !.status = status]
<1>1. /\ staged_effects' = [staged_effects EXCEPT ![f] = row] /\ UNCHANGED history
  BY DEF set_effect_status
<1>2. /\ staged_effects \in Seq(EffectRows(Len(branches), Len(checkpoints)))
      /\ Len(staged_effects) \in Nat
      /\ \A e \in EffectIds : staged_effects[e] \in EffectRows(Len(branches), Len(checkpoints))
  BY TypeOKIsTypes, RowTypes DEF Types, TreeInv
<1>3. /\ row.branch = staged_effects[f].branch /\ row.checkpoint = staged_effects[f].checkpoint
      /\ row.mode = staged_effects[f].mode /\ row.key = staged_effects[f].key
      /\ row.status = status
  BY <1>2 DEF EffectRows
<1> HIDE DEF row
<1>4. /\ EffectIds' = EffectIds
      /\ \A e \in EffectIds : staged_effects'[e] = IF e = f THEN row ELSE staged_effects[e]
  BY <1>1, <1>2 DEF EffectIds
<1> QED
  BY <1>1, <1>3, <1>4

LEMMA SetStatusGrows ==
  ASSUME TreeInv, NEW e \in EffectIds, set_effect_status(e, "committed")
  PROVE  StoreGrows
  BY SetStatusShape, SameHistoryGrows

LEMMA StoreStepGrows ==
  ASSUME TreeInv, [Next]_storeVars
  PROVE  StoreGrows
<1>1. ASSUME NEW b \in BranchIds, Checkpoint(b)  PROVE StoreGrows
  BY <1>1, CommitGrows DEF Checkpoint
<1>2. ASSUME NEW b \in BranchIds, NEW c \in CheckpointIds, Record(b, c)  PROVE StoreGrows
  BY <1>2, RecordGrows DEF Record
<1>3. ASSUME NEW e \in EffectIds, Flushed(e)  PROVE StoreGrows
  BY <1>3, SetStatusGrows DEF Flushed
<1>4. CASE UNCHANGED storeVars
  <2>1. UNCHANGED history /\ staged_effects' = staged_effects
    BY <1>4 DEF storeVars, history
  <2> QED
    BY <2>1, SameHistoryGrows, SameEffectsGrow
<1> QED
  BY <1>1, <1>2, <1>3, <1>4, CreateRunGrows, RewindGrows DEF Next

-----------------------------------------------------------------------------
(* Discards.                                                               *)

MadeByRewind(b) == branches[b].of # NULL => branches[b].fork \in CheckpointIds

Accounted == DiscardsOnlyTheAbandoned /\ \A b \in BranchIds : MadeByRewind(b)

(* What accounts for a discard is kept by every later step.                *)
LEMMA AccountsStay ==
  ASSUME TreeInv, Accounted, StoreGrows, NEW e \in EffectIds,
         staged_effects[e].status = "discarded"
  PROVE  \E b \in BranchIds' :
            /\ branches'[b].of = staged_effects'[e].branch
            /\ staged_effects'[e].checkpoint \notin lineage'[branches'[b].fork]
<1>1. PICK b \in BranchIds :
         /\ branches[b].of = staged_effects[e].branch
         /\ staged_effects[e].checkpoint \notin lineage[branches[b].fork]
  BY DEF Accounted, DiscardsOnlyTheAbandoned
<1>2. staged_effects[e].branch # NULL
  BY StoreFacts DEF BranchIds, NULL
<1>3. branches[b].fork \in CheckpointIds
  BY <1>1, <1>2 DEF Accounted, MadeByRewind
<1>4. /\ branches'[b].of = branches[b].of /\ b \in BranchIds'
      /\ lineage'[branches'[b].fork] = lineage[branches[b].fork]
  BY <1>3 DEF StoreGrows, OldCheckpointsStay
<1> QED
  BY <1>1, <1>4 DEF StoreGrows

LEMMA OldBranchesMade ==
  ASSUME Accounted, StoreGrows, NEW b \in BranchIds
  PROVE  MadeByRewind(b)'
  BY DEF Accounted, MadeByRewind, StoreGrows

(* A step that discards nothing and makes no branch by a rewind.           *)
LEMMA QuietStepAccounts ==
  ASSUME TreeInv, Accounted, StoreGrows,
         \A e \in EffectIds' : staged_effects'[e].status = "discarded" =>
            e \in EffectIds /\ staged_effects[e].status = "discarded",
         \A b \in BranchIds' : b \in BranchIds \/ branches'[b].of = NULL
  PROVE  Accounted'
<1>1. \A b \in BranchIds' : MadeByRewind(b)'
  BY OldBranchesMade DEF MadeByRewind
<1>2. DiscardsOnlyTheAbandoned'
  BY AccountsStay DEF DiscardsOnlyTheAbandoned
<1> QED
  BY <1>1, <1>2 DEF Accounted

(* The branch that a rewind makes accounts for what the rewind discards.   *)
LEMMA RewindAccounts ==
  ASSUME TreeInv, Accounted, NEW b \in BranchIds, NEW target \in CheckpointIds,
         rewind(b, target)
  PROVE  Accounted'
<1>1. PICK m : m = Len(branches) + 1
  OBVIOUS
<1> DEFINE fresh == [run |-> branches[b].run, status |-> "active",
                     head |-> target, fork |-> target, of |-> b]
<1>2. NewBranch(m, fresh) /\ lineage' = lineage /\ CheckpointIds' = CheckpointIds
  BY <1>1, RewindShape
<1>3. fresh.fork = target /\ fresh.of = b
  OBVIOUS
<1> HIDE DEF fresh
<1>4. /\ BranchIds' = BranchIds \cup {m} /\ branches'[m].fork = target /\ branches'[m].of = b
      /\ lineage' = lineage /\ CheckpointIds' = CheckpointIds
  BY <1>2, <1>3 DEF NewBranch
<1>5. StoreGrows
  BY RewindGrows
<1>6. \A a \in BranchIds' : MadeByRewind(a)'
  <2>1. MadeByRewind(m)'
    BY <1>4 DEF MadeByRewind
  <2> QED
    BY <2>1, <1>4, <1>5, OldBranchesMade
<1>7. /\ EffectIds' = EffectIds
      /\ \A e \in EffectIds \ Discarded(b, target) : staged_effects'[e] = staged_effects[e]
  BY RewindIsRewindStep DEF RewindStep
<1>8. ASSUME NEW e \in EffectIds, staged_effects'[e].status = "discarded"
      PROVE  \E a \in BranchIds' :
                /\ branches'[a].of = staged_effects'[e].branch
                /\ staged_effects'[e].checkpoint \notin lineage'[branches'[a].fork]
  <2>1. CASE e \in Discarded(b, target)
    <3>1. staged_effects[e].branch = b /\ staged_effects[e].checkpoint \notin lineage[target]
      BY <2>1 DEF Discarded
    <3>2. staged_effects'[e].branch = b /\ staged_effects'[e].checkpoint \notin lineage'[target]
      BY <3>1, <1>4, <1>5 DEF StoreGrows
    <3> QED
      BY <3>2, <1>4
  <2>2. CASE e \notin Discarded(b, target)
    BY <2>2, <1>5, <1>7, <1>8, AccountsStay
  <2> QED
    BY <2>1, <2>2
<1> QED
  BY <1>6, <1>7, <1>8 DEF Accounted, DiscardsOnlyTheAbandoned

LEMMA AccountedStep ==
  ASSUME TreeInv, Accounted, [Next]_storeVars
  PROVE  Accounted'
<1>1. StoreGrows
  BY StoreStepGrows
<1>2. ASSUME BranchIds' = BranchIds, staged_effects' = staged_effects
      PROVE  Accounted'
  BY <1>1, <1>2, QuietStepAccounts, SameEffectsGrow
<1>3. CASE create_run
  <2>1. PICK n : n = Len(checkpoints) + 1
    OBVIOUS
  <2>2. PICK m : m = Len(branches) + 1
    OBVIOUS
  <2> DEFINE main == [run |-> runs + 1, status |-> "active", head |-> n,
                      fork |-> NULL, of |-> NULL]
  <2>3. NewBranch(m, main) /\ staged_effects' = staged_effects
    BY <2>1, <2>2, <1>3, CreateRunShape
  <2>4. main.of = NULL
    OBVIOUS
  <2> HIDE DEF main
  <2>5. \A b \in BranchIds' : b \in BranchIds \/ branches'[b].of = NULL
    BY <2>3, <2>4 DEF NewBranch
  <2> QED
    BY <2>3, <2>5, <1>1, QuietStepAccounts, SameEffectsGrow
<1>4. ASSUME NEW b \in BranchIds, Checkpoint(b)  PROVE Accounted'
  <2>1. PICK n : n = Len(checkpoints) + 1
    OBVIOUS
  <2>2. PICK kv, files, expected : create_checkpoint(b, kv, files, expected)
    BY <1>4 DEF Checkpoint
  <2>3. BranchIds' = BranchIds /\ staged_effects' = staged_effects
    BY <2>1, <2>2, CommitShape
  <2> QED
    BY <2>3, <1>2
<1>5. ASSUME NEW b \in BranchIds, NEW target \in CheckpointIds, rewind(b, target)
      PROVE  Accounted'
  BY <1>5, RewindAccounts
<1>6. ASSUME NEW b \in BranchIds, NEW c \in CheckpointIds, Record(b, c)  PROVE Accounted'
  <2>1. PICK n : n = Len(staged_effects) + 1
    OBVIOUS
  <2>2. PICK mode, key, status : /\ record_effect(b, c, mode, key, status)
                                 /\ status \in {"staged", "committed"}
    BY <1>6 DEF Record
  <2> DEFINE row == [branch |-> b, checkpoint |-> c, mode |-> mode, key |-> key,
                     status |-> status]
  <2>3. /\ EffectIds' = EffectIds \cup {n} /\ UNCHANGED history
        /\ staged_effects'[n] = row
        /\ \A e \in EffectIds : staged_effects'[e] = staged_effects[e]
    BY <2>1, <2>2, RecordShape
  <2>4. row.status # "discarded"
    BY <2>2
  <2> HIDE DEF row
  <2>5. BranchIds' = BranchIds
    BY <2>3 DEF history, BranchIds
  <2> QED
    BY <2>3, <2>4, <2>5, <1>1, QuietStepAccounts
<1>7. ASSUME NEW f \in EffectIds, Flushed(f)  PROVE Accounted'
  <2>1. set_effect_status(f, "committed")
    BY <1>7 DEF Flushed
  <2>2. /\ EffectIds' = EffectIds /\ UNCHANGED history
        /\ \A e \in EffectIds :
              staged_effects'[e].status = IF e = f THEN "committed" ELSE staged_effects[e].status
    BY <2>1, SetStatusShape
  <2>3. BranchIds' = BranchIds
    BY <2>2 DEF history, BranchIds
  <2> QED
    BY <2>2, <2>3, <1>1, QuietStepAccounts
<1>8. CASE UNCHANGED storeVars
  BY <1>2, <1>8 DEF storeVars, BranchIds
<1> QED
  BY <1>3, <1>4, <1>5, <1>6, <1>7, <1>8 DEF Next

(* Whatever order runs, commits and rewinds come in, a discarded effect    *)
(* lies beyond the rewind point of a rewind of the branch that staged it.  *)
THEOREM DiscardsAreDeserved == Spec => []DiscardsOnlyTheAbandoned
<1>1. Init => Accounted
  <2> SUFFICES ASSUME Init  PROVE Accounted
    OBVIOUS
  <2>1. BranchIds = {} /\ EffectIds = {}
    BY EmptySeq DEF Init, BranchIds, EffectIds
  <2> QED
    BY <2>1 DEF Accounted, DiscardsOnlyTheAbandoned
<1>2. TreeInv /\ Accounted /\ [Next]_storeVars => Accounted'
  BY AccountedStep
<1>3. Accounted => DiscardsOnlyTheAbandoned
  BY DEF Accounted
<1> QED
  BY <1>1, <1>2, <1>3, TreeInvariant, PTL DEF Spec

-----------------------------------------------------------------------------
(* Lineages of heads.                                                      *)

LEMMA NewHeadOwns ==
  ASSUME StoreInv, StoreGrows, NEW b \in BranchIds,
         branches'[b].head = branches[b].head
  PROVE  OwnLineage(b)'
<1>1. /\ branches[b].head \in CheckpointIds
      /\ branches[b].fork # NULL => branches[b].fork \in CheckpointIds
      /\ lineage[branches[b].head] \subseteq CheckpointIds
  BY StoreFacts DEF StoreInv
<1>2. /\ lineage'[branches[b].head] = lineage[branches[b].head]
      /\ branches[b].fork # NULL => lineage'[branches[b].fork] = lineage[branches[b].fork]
      /\ \A d \in lineage[branches[b].head] : checkpoints'[d] = checkpoints[d]
      /\ branches'[b].fork = branches[b].fork
  BY <1>1 DEF StoreGrows, OldCheckpointsStay
<1>3. OwnLineage(b)
  BY DEF StoreInv
<1> QED
  BY <1>2, <1>3 DEF OwnLineage

LEMMA OwnLineageStep ==
  ASSUME StoreInv, [Next]_storeVars
  PROVE  \A b \in BranchIds' : OwnLineage(b)'
<1>1. TreeInv /\ StoreGrows
  BY StoreStepGrows DEF StoreInv
<1>2. ASSUME BranchIds' = BranchIds, \A b \in BranchIds : branches'[b].head = branches[b].head
      PROVE  \A b \in BranchIds' : OwnLineage(b)'
  BY <1>1, <1>2, NewHeadOwns
<1>3. CASE create_run
  <2>1. PICK n : n = Len(checkpoints) + 1
    OBVIOUS
  <2>2. PICK m : m = Len(branches) + 1
    OBVIOUS
  <2> DEFINE row == [run |-> runs + 1, branch |-> m, parent |-> NULL, step |-> 0]
             main == [run |-> runs + 1, status |-> "active", head |-> n, fork |-> NULL, of |-> NULL]
  <2>5. /\ NewCheckpoint(n, row, NoRows(Keys), NoRows(Paths)) /\ NewBranch(m, main)
        /\ \A b \in BranchIds : branches'[b] = branches[b]
    BY <2>1, <2>2, <1>1, <1>3, CreateRunShape
  <2>6. row.parent = NULL /\ row.branch = m /\ main.head = n /\ main.fork = NULL
    OBVIOUS
  <2> HIDE DEF row, main
  <2>3. /\ lineage'[n] = {n} /\ checkpoints'[n].branch = m
        /\ BranchIds' = BranchIds \cup {m} /\ branches'[m].head = n /\ branches'[m].fork = NULL
        /\ \A b \in BranchIds : branches'[b] = branches[b]
    BY <2>5, <2>6 DEF NewCheckpoint, NewBranch
  <2>4. OwnLineage(m)'
    BY <2>3 DEF OwnLineage
  <2> QED
    BY <2>3, <2>4, <1>1, NewHeadOwns
<1>4. ASSUME NEW b \in BranchIds, Checkpoint(b)
      PROVE  \A a \in BranchIds' : OwnLineage(a)'
  <2>1. PICK n : n = Len(checkpoints) + 1
    OBVIOUS
  <2>2. PICK kv, files, expected : create_checkpoint(b, kv, files, expected)
    BY <1>4 DEF Checkpoint
  <2> DEFINE row == [run |-> branches[b].run, branch |-> b, parent |-> branches[b].head,
                     step |-> checkpoints[branches[b].head].step + 1]
  <2>3. /\ NewCheckpoint(n, row, kv, files) /\ branches[b].head \in CheckpointIds
        /\ BranchIds' = BranchIds
        /\ \A a \in BranchIds : branches'[a].head = IF a = b THEN n ELSE branches[a].head
    BY <2>1, <2>2, <1>1, CommitShape
  <2>4. /\ lineage'[n] = {n} \cup lineage[branches[b].head] /\ checkpoints'[n].branch = b
    BY <2>3 DEF NewCheckpoint, CheckpointIds, NULL
  <2>5. OwnLineage(b)'
    <3>1. /\ lineage[branches[b].head] \subseteq CheckpointIds
          /\ branches[b].fork # NULL => branches[b].fork \in CheckpointIds
      BY <1>1, StoreFacts
    <3>2. /\ \A d \in lineage[branches[b].head] : checkpoints'[d] = checkpoints[d]
          /\ branches[b].fork # NULL => lineage'[branches[b].fork] = lineage[branches[b].fork]
          /\ branches'[b].fork = branches[b].fork /\ branches'[b].head = n
      BY <3>1, <2>3, <1>1 DEF StoreGrows, OldCheckpointsStay
    <3>3. OwnLineage(b)
      BY DEF StoreInv
    <3> QED
      BY <3>2, <3>3, <2>4 DEF OwnLineage
  <2> QED
    BY <2>3, <2>5, <1>1, NewHeadOwns
<1>5. ASSUME NEW b \in BranchIds, NEW target \in CheckpointIds, rewind(b, target)
      PROVE  \A a \in BranchIds' : OwnLineage(a)'
  <2>1. PICK m : m = Len(branches) + 1
    OBVIOUS
  <2> DEFINE fresh == [run |-> branches[b].run, status |-> "active",
                       head |-> target, fork |-> target, of |-> b]
  <2>4. /\ NewBranch(m, fresh) /\ lineage' = lineage
        /\ \A a \in BranchIds : branches'[a].head = branches[a].head
    BY <2>1, <1>1, <1>5, RewindShape
  <2>5. fresh.head = target /\ fresh.fork = target /\ target \in lineage[target]
    BY <1>1, StoreFacts
  <2> HIDE DEF fresh
  <2>2. /\ BranchIds' = BranchIds \cup {m}
        /\ branches'[m].head = target /\ branches'[m].fork = target
        /\ \A a \in BranchIds : branches'[a].head = branches[a].head
        /\ lineage' = lineage /\ target \in lineage[target]
    BY <2>4, <2>5 DEF NewBranch
  <2>3. OwnLineage(m)'
    <3>1. target # NULL
      BY DEF CheckpointIds, NULL
    <3> QED
      BY <3>1, <2>2 DEF OwnLineage
  <2> QED
    BY <2>2, <2>3, <1>1, NewHeadOwns
<1>6. ASSUME NEW b \in BranchIds, NEW c \in CheckpointIds, Record(b, c)
      PROVE  \A a \in BranchIds' : OwnLineage(a)'
  <2>1. branches' = branches
    BY <1>6 DEF Record, record_effect, history
  <2> QED
    BY <2>1, <1>2 DEF BranchIds
<1>7. ASSUME NEW e \in EffectIds, Flushed(e)
      PROVE  \A a \in BranchIds' : OwnLineage(a)'
  <2>1. branches' = branches
    BY <1>7 DEF Flushed, set_effect_status, history
  <2> QED
    BY <2>1, <1>2 DEF BranchIds
<1>8. CASE UNCHANGED storeVars
  <2>1. branches' = branches
    BY <1>8 DEF storeVars
  <2> QED
    BY <2>1, <1>2 DEF BranchIds
<1> QED
  BY <1>3, <1>4, <1>5, <1>6, <1>7, <1>8 DEF Next

LEMMA NewCheckpointNests ==
  ASSUME StoreInv, NEW n, NEW row, NEW kv, NEW files, NewCheckpoint(n, row, kv, files),
         row.parent \in CheckpointIds \cup {NULL}
  PROVE  LineagesNest'
<1>1. /\ CheckpointIds' = CheckpointIds \cup {n}
      /\ \A c \in CheckpointIds : lineage'[c] = lineage[c]
      /\ lineage'[n] = {n} \cup (IF row.parent = NULL THEN {} ELSE lineage[row.parent])
  BY DEF NewCheckpoint, OldCheckpointsStay
<1>2. \A c \in CheckpointIds : \A d \in lineage[c] :
         d \in CheckpointIds /\ lineage[d] \subseteq lineage[c]
  BY StoreFacts DEF StoreInv, LineagesNest
<1>3. ASSUME NEW c \in CheckpointIds, NEW d \in lineage'[c]
      PROVE  lineage'[d] \subseteq lineage'[c]
  BY <1>1, <1>2
<1>4. ASSUME NEW d \in lineage'[n]
      PROVE  lineage'[d] \subseteq lineage'[n]
  BY <1>1, <1>2
<1> QED
  BY <1>1, <1>3, <1>4 DEF LineagesNest

LEMMA LineagesNestStep ==
  ASSUME StoreInv, [Next]_storeVars
  PROVE  LineagesNest'
<1>1. TreeInv
  BY DEF StoreInv
<1>2. ASSUME checkpoints' = checkpoints
      PROVE  LineagesNest'
  BY <1>2, SameCheckpoints DEF StoreInv, LineagesNest
<1>3. CASE create_run
  <2>1. PICK n : n = Len(checkpoints) + 1
    OBVIOUS
  <2>2. PICK m : m = Len(branches) + 1
    OBVIOUS
  <2> DEFINE row == [run |-> runs + 1, branch |-> m, parent |-> NULL, step |-> 0]
  <2>3. NewCheckpoint(n, row, NoRows(Keys), NoRows(Paths))
    BY <2>1, <2>2, <1>1, <1>3, CreateRunShape
  <2>4. row.parent = NULL
    OBVIOUS
  <2> HIDE DEF row
  <2> QED
    BY <2>3, <2>4, NewCheckpointNests
<1>4. ASSUME NEW b \in BranchIds, Checkpoint(b)
      PROVE  LineagesNest'
  <2>1. PICK n : n = Len(checkpoints) + 1
    OBVIOUS
  <2>2. PICK kv, files, expected : create_checkpoint(b, kv, files, expected)
    BY <1>4 DEF Checkpoint
  <2> DEFINE row == [run |-> branches[b].run, branch |-> b, parent |-> branches[b].head,
                     step |-> checkpoints[branches[b].head].step + 1]
  <2>3. NewCheckpoint(n, row, kv, files) /\ branches[b].head \in CheckpointIds
    BY <2>1, <2>2, <1>1, CommitShape
  <2>4. row.parent = branches[b].head
    OBVIOUS
  <2> HIDE DEF row
  <2> QED
    BY <2>3, <2>4, NewCheckpointNests
<1>5. ASSUME NEW b \in BranchIds, NEW target \in CheckpointIds, rewind(b, target)
      PROVE  LineagesNest'
  BY <1>2, <1>5 DEF rewind
<1>6. ASSUME NEW b \in BranchIds, NEW c \in CheckpointIds, Record(b, c)
      PROVE  LineagesNest'
  BY <1>2, <1>6 DEF Record, record_effect, history
<1>7. ASSUME NEW e \in EffectIds, Flushed(e)
      PROVE  LineagesNest'
  BY <1>2, <1>7 DEF Flushed, set_effect_status, history
<1> QED
  BY <1>2, <1>3, <1>4, <1>5, <1>6, <1>7 DEF Next, storeVars

LEMMA StoreStep == StoreInv /\ [Next]_storeVars => StoreInv'
  BY TreeStep, LineagesNestStep, OwnLineageStep DEF StoreInv

LEMMA StoreInit == Init => StoreInv
<1> SUFFICES ASSUME Init  PROVE StoreInv
  OBVIOUS
<1>1. BranchIds = {} /\ CheckpointIds = {}
  BY EmptySeq DEF Init, BranchIds, CheckpointIds
<1> QED
  BY <1>1, TreeInit DEF StoreInv, LineagesNest

(* A head that somebody read some time ago is on the lineage of the head.  *)
LEMMA PastHeadsAreAncestors ==
  ASSUME StoreInv, NEW b \in BranchIds, NEW c \in PastHeads(b)
  PROVE  /\ c \in CheckpointIds /\ c \in lineage[branches[b].head]
         /\ lineage[c] \subseteq lineage[branches[b].head]
         /\ RunOf(c) = branches[b].run
<1>1. /\ c \in CheckpointIds /\ (c = branches[b].fork \/ checkpoints[c].branch = b)
  BY DEF PastHeads
<1>2. /\ branches[b].head \in CheckpointIds /\ RunOf(branches[b].head) = branches[b].run
      /\ \A d \in CheckpointIds : d \in lineage[branches[checkpoints[d].branch].head]
      /\ \A d \in lineage[branches[b].head] : RunOf(d) = RunOf(branches[b].head)
      /\ lineage[branches[b].head] \subseteq CheckpointIds
  BY StoreFacts DEF StoreInv, TreeInv, NoLostCommit, LineageIsChain
<1>3. c \in lineage[branches[b].head]
  <2>1. CASE c = branches[b].fork
    <3>1. c # NULL
      BY <1>1 DEF CheckpointIds, NULL
    <3> QED
      BY <2>1, <3>1 DEF StoreInv, OwnLineage
  <2>2. CASE checkpoints[c].branch = b
    BY <2>2, <1>1, <1>2
  <2> QED
    BY <2>1, <2>2, <1>1
<1> QED
  BY <1>1, <1>2, <1>3 DEF StoreInv, LineagesNest

(* A head stays a past head of its branch.                                 *)
LEMMA PastHeadsStay ==
  ASSUME StoreInv, StoreGrows, NEW b \in BranchIds
  PROVE  PastHeads(b) \subseteq PastHeads(b)'
  BY DEF PastHeads, StoreGrows, OldCheckpointsStay

LEMMA SizesGrow ==
  ASSUME StoreInv, [Next]_storeVars
  PROVE  /\ runs \in Nat /\ runs' \in Nat /\ runs <= runs'
         /\ Len(branches) \in Nat /\ Len(branches') \in Nat /\ Len(branches) <= Len(branches')
         /\ Len(checkpoints) \in Nat /\ Len(checkpoints') \in Nat
         /\ Len(checkpoints) <= Len(checkpoints')
<1>1. StoreGrows /\ StoreInv'
  BY StoreStep, StoreStepGrows DEF StoreInv
<1>2. /\ runs \in Nat /\ Len(branches) \in Nat /\ Len(checkpoints) \in Nat
      /\ runs' \in Nat /\ Len(branches') \in Nat /\ Len(checkpoints') \in Nat
  BY <1>1, RowTypes, TypeOKPrime DEF StoreInv, TreeInv, Types
<1>3. ASSUME NEW m \in Nat, NEW n \in Nat, 1 .. m \subseteq 1 .. n  PROVE m <= n
  BY <1>3
<1>4. runs <= runs'
  <2>1. ASSUME NEW b \in BranchIds, Checkpoint(b)  PROVE runs' = runs
    BY <2>1 DEF Checkpoint, create_checkpoint
  <2>2. ASSUME NEW b, NEW c, Record(b, c)  PROVE runs' = runs
    BY <2>2 DEF Record, record_effect, history
  <2>3. ASSUME NEW e, Flushed(e)  PROVE runs' = runs
    BY <2>3 DEF Flushed, set_effect_status, history
  <2>4. ASSUME NEW b, NEW target, rewind(b, target)  PROVE runs' = runs
    BY <2>4 DEF rewind
  <2>5. create_run \/ UNCHANGED storeVars => runs' \in {runs, runs + 1}
    BY DEF create_run, storeVars
  <2> QED
    BY <1>2, <2>1, <2>2, <2>3, <2>4, <2>5 DEF Next
<1> QED
  BY <1>1, <1>2, <1>3, <1>4 DEF StoreGrows, BranchIds, CheckpointIds

(* A replay finds nothing, or the contents of a row on the lineage.        *)
LEMMA ReplayIsWritten ==
  ASSUME TreeInv, NEW c \in CheckpointIds, NEW table, NEW x,
         ReplayOn(lineage[c], table, checkpoints, x) # Absent
  PROVE  \E d \in lineage[c] :
            /\ d \in CheckpointIds
            /\ ReplayOn(lineage[c], table, checkpoints, x) = table[d][x]
            /\ table[d][x] # Unwritten /\ table[d][x] # Tombstone
<1>1. PICK W : W = {d \in lineage[c] : table[d][x] # Unwritten}
  OBVIOUS
<1>2. PICK last : last = LastOf(W, checkpoints)
  OBVIOUS
<1>3. /\ W # {} /\ table[last][x] # Tombstone
      /\ ReplayOn(lineage[c], table, checkpoints, x) = table[last][x]
  BY <1>1, <1>2 DEF ReplayOn, ReplayOf
<1>4. W \subseteq lineage[c] /\ lineage[c] \subseteq CheckpointIds
  BY <1>1, StepsOfLineage
<1>5. \A d \in W : checkpoints[d].step \in 0 .. checkpoints[c].step
  BY <1>4, StepsOfLineage
<1>6. last \in W
  BY <1>2, <1>3, <1>5, StepsOfLineage, LastIsWriter
<1> QED
  BY <1>1, <1>3, <1>4, <1>6

(* The row of a checkpoint itself hides all that its ancestors wrote.      *)
LEMMA OwnRowReplays ==
  ASSUME TreeInv, NEW c \in CheckpointIds, NEW table, NEW x, table[c][x] # Unwritten
  PROVE  ReplayOn(lineage[c], table, checkpoints, x)
           = IF table[c][x] = Tombstone THEN Absent ELSE table[c][x]
<1>1. PICK W : W = {d \in lineage[c] : table[d][x] # Unwritten}
  OBVIOUS
<1>2. PICK last : last = LastOf(W, checkpoints)
  OBVIOUS
<1>3. /\ c \in W /\ c \in lineage[c] /\ W \subseteq lineage[c]
      /\ lineage[c] \subseteq CheckpointIds /\ checkpoints[c].step \in Nat
      /\ \A d \in lineage[c] : checkpoints[d].step \in 0 .. checkpoints[c].step
  BY <1>1, StepsOfLineage
<1>4. last \in W /\ checkpoints[c].step <= checkpoints[last].step
  BY <1>2, <1>3, LastIsWriter
<1>5. checkpoints[last].step = checkpoints[c].step
  BY <1>3, <1>4
<1>6. last = c
  BY <1>3, <1>4, <1>5 DEF TreeInv, LineageIsChain
<1> QED
  BY <1>1, <1>2, <1>3, <1>6 DEF ReplayOn, ReplayOf

(* The head of a branch is its fork point or a commit of its own.          *)
LEMMA HeadIsOwn ==
  ASSUME StoreInv, NEW b \in BranchIds
  PROVE  \/ checkpoints[branches[b].head].branch = b
         \/ branches[b].fork # NULL /\ branches[b].head = branches[b].fork
<1>1. PICK h, f : h = branches[b].head /\ f = branches[b].fork
  OBVIOUS
<1>2. /\ h \in CheckpointIds /\ h \in lineage[h]
      /\ f # NULL => f \in CheckpointIds /\ f \in lineage[h]
      /\ checkpoints[h].branch = b \/ (f # NULL /\ h \in lineage[f])
  BY <1>1, StoreFacts DEF StoreInv, OwnLineage
<1>3. f # NULL => /\ checkpoints[f].step \in Nat /\ checkpoints[h].step \in Nat
                  /\ checkpoints[f].step <= checkpoints[h].step
                  /\ h \in lineage[f] => checkpoints[h].step <= checkpoints[f].step
  BY <1>2, StepsOfLineage DEF StoreInv, TreeInv, LineageIsChain
<1>4. f # NULL /\ h \in lineage[f] => checkpoints[h].step = checkpoints[f].step
  BY <1>3
<1>5. f # NULL /\ h \in lineage[f] => h = f
  BY <1>2, <1>4 DEF StoreInv, TreeInv, LineageIsChain
<1> QED
  BY <1>1, <1>2, <1>5

LEMMA NoRowsAreRows == \A X : NoRows(X) \in Rows(X)
  BY DEF NoRows, Rows

(* A commit that deletes no key is a checkpoint.                           *)
LEMMA CommitsAreCheckpoints ==
  ASSUME NEW b \in BranchIds, NEW kv \in [Keys -> Contents \cup {Unwritten}],
         NEW files \in Rows(Paths), NEW expected \in CheckpointIds \cup {NULL},
         create_checkpoint(b, kv, files, expected)
  PROVE  Checkpoint(b)
<1>1. {} \in SUBSET Keys /\ kv \in KvRows(kv, {})
  BY DEF KvRows, Rows
<1> QED
  BY <1>1 DEF Checkpoint

LEMMA FilesOnlyCheckpoint ==
  ASSUME NEW b \in BranchIds, NEW files \in Rows(Paths),
         NEW expected \in CheckpointIds \cup {NULL},
         create_checkpoint(b, NoRows(Keys), files, expected)
  PROVE  Checkpoint(b)
<1>1. NoRows(Keys) \in [Keys -> Contents \cup {Unwritten}]
  BY DEF NoRows
<1> QED
  BY <1>1, CommitsAreCheckpoints
=============================================================================
