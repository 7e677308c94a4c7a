---------------------------- MODULE AtomicBlocks ----------------------------
(***************************************************************************)
(* What the stores built on a Database (src/src/rewind/db.py) rely on:     *)
(* units of writes, blocks and lone statements, that run one at a time and *)
(* become durable as a whole when they return and not at all when they     *)
(* raise.  Only when a COMMIT itself raised is there doubt: whether that   *)
(* block is durable, and, until a later block commits or the connection is *)
(* opened anew, whether lone statements that return are.                   *)
(***************************************************************************)
EXTENDS Naturals, Sequences

VARIABLES
    units,      \* Seq of [kind, writes, status], in the order they began
    durable,    \* the set of <<unit, n>> that survive a crash
    doubt       \* a COMMIT raised and none has succeeded since

WritesOf(u) == {<<u, n>> : n \in 1 .. units[u].writes}
OpenUnits == {u \in DOMAIN units : units[u].status = "open"}

Open ==
    /\ OpenUnits = {}
    /\ units' = Append(units, [kind |-> "block", writes |-> 0, status |-> "open"])
    /\ UNCHANGED <<durable, doubt>>

Write(u) ==
    /\ u \in OpenUnits
    /\ units' = [units EXCEPT ![u].writes = @ + 1]
    /\ UNCHANGED <<durable, doubt>>

Return(u) ==
    /\ u \in OpenUnits
    /\ units' = [units EXCEPT ![u].status = "returned"]
    /\ durable' = durable \cup WritesOf(u)
    /\ doubt' = FALSE

Raise(u) ==
    /\ u \in OpenUnits
    /\ units' = [units EXCEPT ![u].status = "raised"]
    /\ UNCHANGED <<durable, doubt>>

CommitRaises(u) ==
    /\ u \in OpenUnits
    /\ units' = [units EXCEPT ![u].status = "raised"]
    /\ durable' \in {durable, durable \cup WritesOf(u)}
    /\ doubt' = TRUE

Statement ==
    /\ OpenUnits = {}
    /\ units' = Append(units, [kind |-> "lone", writes |-> 1, status |-> "returned"])
    /\ \/ durable' = durable \cup {<<Len(units'), 1>>}
       \/ doubt /\ UNCHANGED durable
    /\ UNCHANGED doubt

Restart ==
    /\ units' = [u \in DOMAIN units |->
                    IF u \in OpenUnits THEN [units[u] EXCEPT !.status = "raised"] ELSE units[u]]
    /\ doubt' = FALSE
    /\ UNCHANGED durable

Init == units = <<>> /\ durable = {} /\ doubt = FALSE

Next ==
    \/ Open
    \/ \E u \in DOMAIN units : Write(u) \/ Return(u) \/ Raise(u) \/ CommitRaises(u)
    \/ Statement
    \/ Restart

Spec == Init /\ [][Next]_<<units, durable, doubt>>
=============================================================================
