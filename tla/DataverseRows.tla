---------------------------- MODULE DataverseRows ----------------------------
(***************************************************************************)
(* Changes of one row through the Dataverse gateway (dv_handler, crud,     *)
(* dv_io, audit) and through GraphQL, which shares the table but neither   *)
(* asks for a version nor writes audit rows.  A step of a request is one   *)
(* statement, or one transaction, on the database; the audit row is        *)
(* written by a statement of its own after the change.                     *)
(*                                                                         *)
(* The columns of the application are left out: every change makes a new   *)
(* version, which stands for what they hold.  The lookup of the table in   *)
(* the schema comes before all of this (see DataverseSchema).              *)
(***************************************************************************)
EXTENDS Integers, Sequences, FiniteSets

CONSTANTS
    Clients,        \* requests at the gateway
    MaxVersion,     \* bound: versions of the row
    MaxFailures     \* bound: statements that fail, and crashes

ASSUME RowsAssumption == MaxVersion \in Nat /\ MaxFailures \in Nat /\ IsFiniteSet(Clients)

VARIABLES
    row, born,      \* the row, and whether it was ever inserted
    audit,          \* _dv_audit, in the order of its ids
    known,          \* of each client: the last version it has seen, -1 for none
    req,            \* of each client: its request
    failures,
    applied,        \* history: the changes of the gateway that took effect
    unaudited       \* history: an audit row was lost

vars == <<row, born, audit, known, req, failures, applied, unaudited>>

Changes == {"update", "delete", "restore"}
NoRow == [there |-> FALSE, version |-> 0, deleted |-> FALSE]
Closed(what) == [pc |-> "idle", op |-> "none", version |-> 0, before |-> NoRow, after |-> NoRow,
                 outcome |-> what]

Init ==
    /\ row = NoRow /\ born = FALSE /\ audit = <<>>
    /\ known = [c \in Clients |-> -1]
    /\ req = [c \in Clients |-> Closed("none")]
    /\ failures = 0 /\ applied = {} /\ unaudited = FALSE

At(c, step) == req[c].pc = step
\* The trigger of the table: every UPDATE makes a new version.
Bumped(deleted) == [there |-> TRUE, version |-> row.version + 1, deleted |-> deleted]
MayChange == row.version < MaxVersion
Answer(c, what) == req' = [req EXCEPT ![c] = Closed(what)]

-----------------------------------------------------------------------------
(* DvGet and DvInsert.                                                     *)

\* dv_get: a client sees a row, with include_deleted even a deleted one.
Get(c) ==
    /\ At(c, "idle") /\ row.there
    /\ known' = [known EXCEPT ![c] = row.version]
    /\ UNCHANGED <<row, born, audit, req, failures, applied, unaudited>>

Insert(c) ==
    LET new == [there |-> TRUE, version |-> 0, deleted |-> FALSE] IN
    /\ At(c, "idle") /\ ~born
    /\ born' = TRUE /\ row' = new
    /\ req' = [req EXCEPT ![c] = [pc |-> "changed", op |-> "insert", version |-> 0, before |-> NoRow,
                                  after |-> new, outcome |-> "applied"]]
    /\ applied' = applied \cup {[op |-> "insert", version |-> 0]}
    /\ UNCHANGED <<audit, known, failures, unaudited>>

-----------------------------------------------------------------------------
(* DvUpdate, DvSoftDelete and DvRestore, with the version the client knows. *)

Begin(c, op) ==
    /\ At(c, "idle") /\ known[c] >= 0
    /\ req' = [req EXCEPT ![c] = [pc |-> IF op = "update" THEN "before" ELSE "write", op |-> op,
                                  version |-> known[c], before |-> NoRow, after |-> NoRow,
                                  outcome |-> "none"]]
    /\ UNCHANGED <<row, born, audit, known, failures, applied, unaudited>>

\* The row as it is before the change, for the audit row; an error is taken for no row.
ReadBefore(c) ==
    /\ At(c, "before")
    /\ \/ /\ req' = [req EXCEPT ![c].pc = "write", ![c].before = row]
          /\ UNCHANGED failures
       \/ /\ failures < MaxFailures /\ failures' = failures + 1
          /\ req' = [req EXCEPT ![c].pc = "write"]
    /\ UNCHANGED <<row, born, audit, known, applied, unaudited>>

\* Mutant: the flag of the soft delete is not part of the condition.
Applies_AnyFlag(r) == row.there /\ row.version = r.version

\* WHERE id = .. AND version = .. AND is_deleted = ..
Applies(r) == row.there /\ row.version = r.version /\ row.deleted = (r.op = "restore")

\* Mutant: the row before the change is taken from the change.
Write_BeforeIsAfter(c) ==
    LET r == req[c]  after == Bumped(r.op = "delete") IN
    /\ At(c, "write") /\ Applies(r) /\ MayChange
    /\ row' = after
    /\ req' = [req EXCEPT ![c].pc = "changed", ![c].after = after, ![c].before = after,
                            ![c].outcome = "applied"]
    /\ applied' = applied \cup {[op |-> r.op, version |-> after.version]}
    /\ UNCHANGED <<born, audit, known, failures, unaudited>>

Write(c) ==
    LET r == req[c]  after == Bumped(r.op = "delete") IN
    /\ At(c, "write") /\ Applies(r) /\ MayChange
    /\ row' = after
    /\ req' = [req EXCEPT ![c].pc = "changed", ![c].after = after, ![c].outcome = "applied"]
    /\ applied' = applied \cup {[op |-> r.op, version |-> after.version]}
    /\ UNCHANGED <<born, audit, known, failures, unaudited>>

\* No row satisfies the condition: the transaction is rolled back.
WriteMisses(c) ==
    /\ At(c, "write") /\ ~Applies(req[c])
    /\ req' = [req EXCEPT ![c].pc = "probe"]
    /\ UNCHANGED <<row, born, audit, known, failures, applied, unaudited>>

WriteFails(c) ==
    /\ At(c, "write") /\ failures < MaxFailures
    /\ failures' = failures + 1 /\ Answer(c, "error")
    /\ UNCHANGED <<row, born, audit, known, applied, unaudited>>

\* probe_outcome: a second statement tells 412 from 404; if it fails the answer is 404.
Probe(c) ==
    /\ At(c, "probe")
    /\ \/ /\ Answer(c, IF row.there THEN "precondition_failed" ELSE "not_found")
          /\ UNCHANGED failures
       \/ /\ failures < MaxFailures /\ failures' = failures + 1
          /\ Answer(c, "not_found")
    /\ UNCHANGED <<row, born, audit, known, applied, unaudited>>

\* Mutant: a change is audited before it is known to have happened, and once more after it.
Audit_Twice(c) ==
    /\ At(c, "changed")
    /\ \E n \in {1, 2} : audit' = audit \o [i \in 1..n |->
            [op |-> req[c].op, version |-> req[c].after.version, before |-> req[c].before]]
    /\ Answer(c, "applied") /\ known' = [known EXCEPT ![c] = req[c].after.version]
    /\ UNCHANGED <<row, born, failures, applied, unaudited>>

\* audit_after: best effort.  The answer carries the new version.
Audit(c) ==
    /\ At(c, "changed")
    /\ \/ /\ audit' = Append(audit, [op |-> req[c].op, version |-> req[c].after.version,
                                     before |-> req[c].before])
          /\ UNCHANGED <<failures, unaudited>>
       \/ /\ failures < MaxFailures /\ failures' = failures + 1
          /\ unaudited' = TRUE /\ UNCHANGED audit
    /\ Answer(c, "applied")
    /\ known' = [known EXCEPT ![c] = req[c].after.version]
    /\ UNCHANGED <<row, born, applied>>

-----------------------------------------------------------------------------
(* GraphQL and the process.                                                *)

\* run_update of the GraphQL builder: WHERE id = .., whatever the version and the flag.
GraphqlUpdate ==
    /\ row.there /\ MayChange /\ row' = Bumped(row.deleted)
    /\ UNCHANGED <<born, audit, known, req, failures, applied, unaudited>>

\* run_delete of the GraphQL builder: a DELETE.
GraphqlDelete ==
    /\ row.there /\ row' = NoRow
    /\ UNCHANGED <<born, audit, known, req, failures, applied, unaudited>>

Crash ==
    /\ failures < MaxFailures /\ failures' = failures + 1
    /\ req' = [c \in Clients |->
                  IF At(c, "idle") THEN req[c]
                  ELSE Closed(IF At(c, "changed") THEN "applied" ELSE "error")]
    /\ unaudited' = (unaudited \/ \E c \in Clients : At(c, "changed"))
    /\ UNCHANGED <<row, born, audit, known, applied>>

Next ==
    \/ \E c \in Clients :
        \/ Get(c) \/ Insert(c) \/ (\E op \in Changes : Begin(c, op))
        \/ ReadBefore(c) \/ Write(c) \/ WriteMisses(c) \/ WriteFails(c) \/ Probe(c) \/ Audit(c)
    \/ GraphqlUpdate \/ GraphqlDelete \/ Crash

Spec == Init /\ [][Next]_vars

-----------------------------------------------------------------------------
Row == [there : BOOLEAN, version : Nat, deleted : BOOLEAN]
Steps == {"idle", "before", "write", "probe", "changed"}

TypeOK ==
    /\ row \in Row /\ born \in BOOLEAN
    /\ audit \in Seq([op : Changes \cup {"insert"}, version : Nat, before : Row])
    /\ known \in [Clients -> Int]
    /\ req \in [Clients -> [pc : Steps, op : Changes \cup {"insert", "none"}, version : Nat,
                            before : Row, after : Row,
                            outcome : {"none", "applied", "error", "precondition_failed", "not_found"}]]
    /\ failures \in Nat /\ unaudited \in BOOLEAN
    /\ applied \subseteq [op : Changes \cup {"insert"}, version : Nat]

\* The difference an audit row shows is the one its change made: the row it calls the row before is
\* the version that the change overwrote, although it was read by an earlier statement.
AuditShowsTheChange ==
    \A i \in DOMAIN audit :
        audit[i].before.there => /\ audit[i].op = "update"
                                 /\ audit[i].before.version + 1 = audit[i].version
                                 /\ ~audit[i].before.deleted

\* When nothing is under way and no statement has failed, _dv_audit has every change that was made
\* through the gateway, and has it once.
AuditedOnce ==
    ((\A c \in Clients : At(c, "idle")) /\ ~unaudited) =>
        /\ Len(audit) = Cardinality(applied)
        /\ \A a \in applied : \E i \in DOMAIN audit :
                audit[i].op = a.op /\ audit[i].version = a.version

\* The steps of a request as one change of VersionedRow.
Promise == INSTANCE VersionedRow
    WITH Versions <- 0..MaxVersion, call <- [c \in Clients |->
            IF req[c].pc \in {"before", "write", "probe"}
            THEN [open |-> TRUE, op |-> req[c].op, version |-> req[c].version, outcome |-> "none"]
            ELSE [open |-> FALSE, op |-> "none", version |-> 0, outcome |-> req[c].outcome]]

\* Each conditional change takes place at one instant, on the version its caller knew, and is refused
\* only when it is out of date, although the reason is found by a second statement.
Implements == Promise!Spec

\* _dv_audit has each change once, and shows it as it was.
AuditIsTrue == AuditShowsTheChange /\ AuditedOnce
=============================================================================
