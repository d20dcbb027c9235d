----------------------------- MODULE VersionedRow -----------------------------
(***************************************************************************)
(* What the Dataverse gateway promises about a row: a conditional change   *)
(* (If-Match) happens at one instant between its call and its answer, to   *)
(* the version that the caller named and to no other; it is refused only   *)
(* at an instant at which it is out of date, and reported as not found     *)
(* only at one at which there is no such row or the database has failed.   *)
(***************************************************************************)
EXTENDS Naturals

CONSTANTS Clients, Versions

VARIABLES
    row,    \* whether it exists, its version, whether it is soft-deleted
    born,   \* whether it was ever inserted: ids are used once
    call    \* of each client: its last call, undecided while it is open, and the outcome

vars == <<row, born, call>>

Changes == {"update", "delete", "restore"}
NoRow == [there |-> FALSE, version |-> 0, deleted |-> FALSE]
NewRow == [there |-> TRUE, version |-> 0, deleted |-> FALSE]

\* The row as it is, under the next version.
Bumped(deleted) == [there |-> TRUE, version |-> row.version + 1, deleted |-> deleted]

\* Whether a change of version v applies to the row.
Applies(op, v) == row.there /\ row.version = v /\ row.deleted = (op = "restore")

Decided(what) == [open |-> FALSE, op |-> "none", version |-> 0, outcome |-> what]

Init ==
    /\ row = NoRow /\ born = FALSE
    /\ call = [c \in Clients |-> Decided("none")]

Decide(c, what) == call' = [call EXCEPT ![c] = Decided(what)]

Insert(c) ==
    /\ ~call[c].open /\ ~born
    /\ row' = NewRow /\ born' = TRUE
    /\ Decide(c, "applied")

Call(c, op, v) ==
    /\ ~call[c].open
    /\ call' = [call EXCEPT ![c] = [open |-> TRUE, op |-> op, version |-> v, outcome |-> "none"]]
    /\ UNCHANGED <<row, born>>

Take(c) ==
    /\ call[c].open /\ Applies(call[c].op, call[c].version)
    /\ row' = Bumped(call[c].op = "delete")
    /\ Decide(c, "applied")
    /\ UNCHANGED born

Refuse(c) ==
    /\ call[c].open /\ ~Applies(call[c].op, call[c].version)
    /\ Decide(c, IF row.there THEN "precondition_failed" ELSE "not_found")
    /\ UNCHANGED <<row, born>>

\* The database fails before the change is made.
Fail(c) ==
    /\ call[c].open
    /\ Decide(c, "error") \/ Decide(c, "not_found")
    /\ UNCHANGED <<row, born>>

\* The orchestrator dies: the calls that are undecided never take effect.
Crash ==
    /\ call' = [c \in Clients |-> IF call[c].open THEN Decided("error") ELSE call[c]]
    /\ UNCHANGED <<row, born>>

\* The unconditional changes of GraphQL.
Other ==
    /\ row.there /\ row' \in {Bumped(row.deleted), NoRow}
    /\ UNCHANGED <<born, call>>

Next ==
    \/ Crash \/ Other
    \/ \E c \in Clients : Insert(c) \/ Take(c) \/ Refuse(c) \/ Fail(c)
    \/ \E c \in Clients, op \in Changes, v \in Versions : Call(c, op, v)

Spec == Init /\ [][Next]_vars
=============================================================================
