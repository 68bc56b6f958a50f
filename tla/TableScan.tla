----------------------------- MODULE TableScan -----------------------------
(***************************************************************************)
(* What a table function of the extension promises its caller: a query     *)
(* over a table of known rows is answered in chunks; no row is returned    *)
(* twice; the query ends once, either "done" or "failed".  The chunks of   *)
(* a failed query are discarded by DuckDB.                                 *)
(*                                                                         *)
(* The promise is the strongest one the code keeps: a completed scan may   *)
(* lack the row with the highest rowid (see MetaScan) and no other.        *)
(***************************************************************************)
EXTENDS Integers

CONSTANT Rowids            \* the rowids a table may use

VARIABLES
    rows,                  \* the rowids of the scanned table
    returned,              \* how often each row has been handed to DuckDB
    outcome                \* "running", "done" or "failed"

vars == <<rows, returned, outcome>>

Outcomes == {"running", "done", "failed"}

Missing == {r \in rows : returned[r] = 0}

IsLastRow(r) == \A s \in rows : s <= r

Init ==
    /\ rows \in SUBSET Rowids
    /\ returned = [r \in Rowids |-> 0]
    /\ outcome = "running"

ReturnChunk ==
    /\ outcome = "running"
    /\ \E S \in SUBSET Missing :
          returned' = [r \in Rowids |-> IF r \in S THEN 1 ELSE returned[r]]
    /\ UNCHANGED <<rows, outcome>>

Complete ==
    /\ outcome = "running"
    /\ \A r \in Missing : IsLastRow(r)
    /\ outcome' = "done"
    /\ UNCHANGED <<rows, returned>>

Fail ==
    /\ outcome = "running"
    /\ outcome' = "failed"
    /\ UNCHANGED <<rows, returned>>

Next == ReturnChunk \/ Complete \/ Fail

Spec == Init /\ [][Next]_vars
=============================================================================
