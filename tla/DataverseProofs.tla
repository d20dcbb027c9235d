--------------------------- MODULE DataverseProofs ---------------------------
(***************************************************************************)
(* Proofs about what PostgreSQL keeps for an application.  DataverseRows,  *)
(* for any number of requests, versions and failures: the types, that the  *)
(* audit is true, and that the gateway's statements implement              *)
(* VersionedRow.  What a request remembers - the version its client knows, *)
(* the row it read before the change - is never newer than the row,        *)
(* because an id is inserted once and versions only grow: Sound says this  *)
(* of each request.  DataverseMigration, for any tables, rows, runs and    *)
(* failures: what a run of the migration leaves behind.  DataverseSchema,  *)
(* for any editors, tables, columns and failures: the metadata, the        *)
(* triggers, the version and the cached schema say what the database has.  *)
(***************************************************************************)
EXTENDS DataverseRows, DataverseMigration, DataverseSchema, FiniteSetTheorems, FunctionTheorems,
        SequenceTheorems, TLAPS

Open == {"before", "write", "probe"}

\* What the client of a request knows is a version the row has had.
KnowsPast(c) ==
    /\ known[c] \in -1..MaxVersion
    /\ known[c] >= 0 => born
    /\ row.there => known[c] <= row.version

\* So is the version a request asks for, ...
AsksPast(c) ==
    req[c].pc \in Open =>
        /\ born /\ req[c].op \in Changes /\ req[c].version \in 0..MaxVersion
        /\ row.there => req[c].version <= row.version

\* ... and the row it has read: as old as the row, and then the same, or older.
SawPast(c) ==
    /\ req[c].pc = "before" => req[c].op = "update" /\ ~req[c].before.there
    /\ (req[c].pc \in {"write", "probe"} /\ req[c].before.there) =>
        /\ req[c].op = "update" /\ req[c].before.version >= req[c].version
        /\ row.there =>
            \/ req[c].before.version < row.version
            \/ req[c].before.version = row.version /\ req[c].before.deleted = row.deleted

\* A condition that has failed once stays false.
Missed(c) == req[c].pc = "probe" => ~Applies(req[c])

\* A change that was made, with the row that it overwrote.
Changed(c) ==
    req[c].pc = "changed" =>
        /\ born /\ req[c].op # "none" /\ req[c].outcome = "applied"
        /\ req[c].after.version \in 0..MaxVersion
        /\ row.there => req[c].after.version <= row.version
        /\ req[c].before.there =>
            /\ req[c].op = "update"
            /\ req[c].before.version + 1 = req[c].after.version
            /\ ~req[c].before.deleted

Sound(c) == KnowsPast(c) /\ AsksPast(c) /\ SawPast(c) /\ Missed(c) /\ Changed(c)

IInv ==
    /\ TypeOK
    /\ row.version <= MaxVersion /\ (row.there => born)
    /\ \A c \in Clients : Sound(c)
    /\ AuditShowsTheChange

-----------------------------------------------------------------------------
\* What any step does to the row: nothing, a new version, its end, or its beginning.
Evolves ==
    \/ UNCHANGED <<row, born>>
    \/ /\ row.there /\ MayChange /\ born' = born
       /\ \E d \in BOOLEAN : row' = Bumped(d)
    \/ row' = NoRow /\ born' = born
    \/ ~born /\ born' /\ row' = [there |-> TRUE, version |-> 0, deleted |-> FALSE]

LEMMA Requests ==
    ASSUME TypeOK, NEW c \in Clients
    PROVE  /\ req[c] \in [pc : Steps, op : Changes \cup {"insert", "none"}, version : Nat,
                            before : Row, after : Row,
                            outcome : {"none", "applied", "error", "precondition_failed", "not_found"}]
           /\ known[c] \in Int
  BY DEF TypeOK

\* A version that is not newer than the row stays so: the row only takes newer ones, or none.
LEMMA PastStays ==
    ASSUME TypeOK, Evolves, born, NEW v \in Nat, row.there => v <= row.version
    PROVE  born' /\ (row'.there => v <= row'.version)
<1>1. row.version \in Nat
  BY DEF TypeOK, Row
<1>2. born'
  BY DEF Evolves
<1>3. CASE UNCHANGED <<row, born>>
  BY <1>2, <1>3
<1>4. CASE row.there /\ \E d \in BOOLEAN : row' = Bumped(d)
  <2>1. row'.version = row.version + 1
    BY <1>4 DEF Bumped
  <2> QED
    BY <1>1, <1>2, <1>4, <2>1
<1>5. CASE row' = NoRow
  BY <1>2, <1>5 DEF NoRow
<1> QED
  BY <1>3, <1>4, <1>5 DEF Evolves

\* A request that does not move stays sound while the row goes on.
LEMMA OthersStay ==
    ASSUME TypeOK, row.there => born, NEW c \in Clients, Sound(c), Evolves,
           req'[c] = req[c], known'[c] = known[c]
    PROVE  Sound(c)'
<1> USE Requests, RowsAssumption
<1>1. row \in Row /\ row.version \in Nat
  BY DEF TypeOK, Row
<1>2. KnowsPast(c)'
  BY <1>1 DEF Evolves, Sound, KnowsPast, MayChange, Bumped, NoRow, Row
<1>3. AsksPast(c)'
  BY <1>1 DEF Evolves, Sound, AsksPast, MayChange, Bumped, NoRow, Row, Open
<1>4. SawPast(c)'
  BY <1>1 DEF Evolves, Sound, AsksPast, SawPast, MayChange, Bumped, NoRow, Row, Open
<1>5. Missed(c)'
  <2> SUFFICES ASSUME req[c].pc = "probe"
               PROVE  ~(row'.there /\ row'.version = req[c].version
                                   /\ row'.deleted = (req[c].op = "restore"))
    BY DEF Missed, Applies
  <2>1. /\ born /\ req[c].version \in Nat
        /\ row.there => req[c].version <= row.version
        /\ ~Applies(req[c])
    BY DEF Sound, AsksPast, Missed, Open
  <2>2. CASE UNCHANGED <<row, born>>
    BY <2>1, <2>2 DEF Applies
  <2>3. CASE row.there /\ \E d \in BOOLEAN : row' = Bumped(d)
    <3>1. row'.version = row.version + 1
      BY <2>3 DEF Bumped
    <3> QED
      BY <1>1, <2>1, <2>3, <3>1
  <2>4. CASE row' = NoRow
    BY <2>4 DEF NoRow
  <2> QED
    BY <2>1, <2>2, <2>3, <2>4 DEF Evolves
<1>6. Changed(c)'
  BY PastStays DEF Sound, Changed
<1> QED
  BY <1>2, <1>3, <1>4, <1>5, <1>6 DEF Sound

-----------------------------------------------------------------------------
(* The types.                                                              *)

LEMMA TypeInit == Init => TypeOK
<1> SUFFICES ASSUME Init PROVE TypeOK
  OBVIOUS
<1>1. NoRow \in Row
  BY DEF NoRow, Row
<1>2. row \in Row /\ born \in BOOLEAN /\ unaudited \in BOOLEAN /\ failures \in Nat /\ applied = {}
  BY <1>1 DEF Init
<1>3. audit \in Seq([op : Changes \cup {"insert"}, version : Nat, before : Row])
  BY DEF Init
<1>4. known \in [Clients -> Int]
  BY DEF Init
<1>5. Closed("none") \in [pc : Steps, op : Changes \cup {"insert", "none"}, version : Nat,
                before : Row, after : Row,
                outcome : {"none", "applied", "error", "precondition_failed", "not_found"}]
  BY <1>1 DEF Closed, Steps
<1> QED
  BY <1>2, <1>3, <1>4, <1>5 DEF Init, TypeOK

\* What the actions make of rows and of requests.
LEMMA RowTypes ==
    ASSUME TypeOK
    PROVE  /\ NoRow \in Row
           /\ \A d \in BOOLEAN : Bumped(d) \in Row /\ Bumped(d).version = row.version + 1
           /\ row.version \in Nat
<1>1. row.version \in Nat
  BY DEF TypeOK, Row
<1>2. NoRow \in Row
  BY DEF Row, NoRow
<1>4. \A d \in BOOLEAN : Bumped(d) \in Row /\ Bumped(d).version = row.version + 1
  BY <1>1 DEF Row, Bumped
<1> QED
  BY <1>1, <1>2, <1>4

Outcomes == {"none", "applied", "error", "precondition_failed", "not_found"}
Request == [pc : Steps, op : Changes \cup {"insert", "none"}, version : Nat,
            before : Row, after : Row, outcome : Outcomes]

LEMMA Answered ==
    ASSUME TypeOK, NEW what \in Outcomes
    PROVE  Closed(what) \in Request
  BY RowTypes DEF Closed, Request, Outcomes, Steps, Changes

LEMMA TypeStep == TypeOK /\ (\A c \in Clients : Sound(c)) /\ [Next]_vars => TypeOK'
<1> SUFFICES ASSUME TypeOK, \A c \in Clients : Sound(c), [Next]_vars PROVE TypeOK'
  OBVIOUS
<1> USE RowsAssumption
<1>r. row \in Row /\ req \in [Clients -> Request] /\ known \in [Clients -> Int]
  BY DEF TypeOK, Request, Outcomes
<1>1. ASSUME NEW c \in Clients, Get(c) PROVE TypeOK'
  BY <1>1, <1>r, RowTypes DEF Get, TypeOK
<1>2. ASSUME NEW c \in Clients, Insert(c) PROVE TypeOK'
  <2>1. row' \in Row
    BY <1>2, RowTypes DEF Insert, Row
  <2>2. req' \in [Clients -> Request]
    <3> DEFINE new == [there |-> TRUE, version |-> 0, deleted |-> FALSE]
    <3>1. [pc |-> "changed", op |-> "insert", version |-> 0, before |-> NoRow, after |-> new,
           outcome |-> "applied"] \in Request
      BY RowTypes DEF Request, Outcomes, Steps, Changes, Row
    <3> QED
      BY <1>2, <1>r, <3>1 DEF Insert
  <2> QED
    BY <1>2, <2>1, <2>2 DEF Insert, TypeOK, Request, Outcomes
<1>3. ASSUME NEW c \in Clients, NEW op \in Changes, Begin(c, op) PROVE TypeOK'
  <2> DEFINE step == IF op = "update" THEN "before" ELSE "write"
             new == [pc |-> step, op |-> op, version |-> known[c], before |-> NoRow,
                     after |-> NoRow, outcome |-> "none"]
  <2>1. req' \in [Clients -> Request]
    <3>1. step \in Steps /\ known[c] \in Nat
      BY <1>3, <1>r DEF Begin, Steps
    <3> HIDE DEF step
    <3>2. new \in Request
      BY <3>1, RowTypes DEF Request, Outcomes, Changes
    <3>3. req' = [req EXCEPT ![c] = new]
      BY <1>3 DEF Begin, step
    <3> QED
      BY <1>r, <3>2, <3>3
  <2> QED
    BY <1>3, <2>1 DEF Begin, TypeOK, Request, Outcomes
<1>4. ASSUME NEW c \in Clients, ReadBefore(c) PROVE TypeOK'
  <2>1. req' \in [Clients -> Request]
    BY <1>4, <1>r DEF ReadBefore, Request, Steps
  <2> QED
    BY <1>4, <2>1 DEF ReadBefore, TypeOK, Request, Outcomes
<1>5. ASSUME NEW c \in Clients, Write(c) PROVE TypeOK'
  <2>1. row' \in Row /\ row'.version \in Nat
    BY <1>5, RowTypes DEF Write, Row
  <2>2. req[c].op \in Changes
    BY <1>5 DEF Write, At, Sound, AsksPast, Open
  <2>3. req' = [req EXCEPT ![c].pc = "changed", ![c].after = row', ![c].outcome = "applied"]
    BY <1>5 DEF Write
  <2>4. req' \in [Clients -> Request]
    <3> DEFINE r1 == [req EXCEPT ![c].pc = "changed"]
               r2 == [r1 EXCEPT ![c].after = row']
               r3 == [r2 EXCEPT ![c].outcome = "applied"]
    <3>1. r1 \in [Clients -> Request]
      BY <1>r DEF Request, Steps
    <3>2. r2 \in [Clients -> Request]
      BY <2>1, <3>1 DEF Request
    <3>3. r3 \in [Clients -> Request]
      <4> HIDE DEF r2
      <4> QED
        BY <3>2 DEF Request, Outcomes
    <3> QED
      BY <2>3, <3>3
  <2>5. applied' = applied \cup {[op |-> req[c].op, version |-> row'.version]}
    BY <1>5 DEF Write
  <2>6. applied' \subseteq [op : Changes \cup {"insert"}, version : Nat]
    BY <2>1, <2>2, <2>5 DEF TypeOK
  <2> QED
    BY <1>5, <2>1, <2>4, <2>6 DEF Write, TypeOK, Request, Outcomes
<1>6. ASSUME NEW c \in Clients, WriteMisses(c) PROVE TypeOK'
  <2>1. req' \in [Clients -> Request]
    BY <1>6, <1>r DEF WriteMisses, Request, Steps
  <2> QED
    BY <1>6, <2>1 DEF WriteMisses, TypeOK, Request, Outcomes
<1>7. ASSUME NEW c \in Clients, WriteFails(c) PROVE TypeOK'
  <2>1. req' \in [Clients -> Request]
    BY <1>7, <1>r, Answered DEF WriteFails, Answer, Outcomes
  <2> QED
    BY <1>7, <2>1 DEF WriteFails, TypeOK, Request, Outcomes
<1>8. ASSUME NEW c \in Clients, Probe(c) PROVE TypeOK'
  <2>1. req' \in [Clients -> Request]
    BY <1>8, <1>r, Answered DEF Probe, Answer, Outcomes
  <2> QED
    BY <1>8, <2>1 DEF Probe, TypeOK, Request, Outcomes
<1>9. ASSUME NEW c \in Clients, Audit(c) PROVE TypeOK'
  <2>1. req' \in [Clients -> Request]
    BY <1>9, <1>r, Answered DEF Audit, Answer, Outcomes
  <2>2. known' \in [Clients -> Int]
    BY <1>9, <1>r DEF Audit, Request, Row
  <2>3. [op |-> req[c].op, version |-> req[c].after.version, before |-> req[c].before]
            \in [op : Changes \cup {"insert"}, version : Nat, before : Row]
    <3>1. req[c].op # "none"
      BY <1>9 DEF Audit, At, Sound, Changed
    <3>2. req[c] \in Request
      BY <1>r
    <3> QED
      BY <3>1, <3>2 DEF Request, Row
  <2>4. audit' \in Seq([op : Changes \cup {"insert"}, version : Nat, before : Row])
    <3>1. CASE audit' = audit
      BY <3>1 DEF TypeOK
    <3>2. CASE audit' # audit
      <4> DEFINE Entries == [op : Changes \cup {"insert"}, version : Nat, before : Row]
                 new == [op |-> req[c].op, version |-> req[c].after.version, before |-> req[c].before]
      <4>1. audit' = Append(audit, new)
        BY <1>9, <3>2 DEF Audit
      <4>2. audit \in Seq(Entries) /\ new \in Entries
        BY <2>3 DEF TypeOK
      <4> HIDE DEF Entries, new
      <4>3. audit' \in Seq(Entries)
        BY <4>1, <4>2
      <4> QED
        BY <4>3 DEF Entries
    <3> QED
      BY <3>1, <3>2
  <2>5. failures' \in Nat /\ unaudited' \in BOOLEAN
    <3>1. CASE UNCHANGED <<failures, unaudited>>
      BY <3>1 DEF TypeOK
    <3>2. CASE failures' = failures + 1 /\ unaudited' = TRUE
      BY <3>2 DEF TypeOK
    <3> QED
      BY <1>9, <3>1, <3>2 DEF Audit
  <2>6. row' \in Row /\ born' \in BOOLEAN
        /\ applied' \subseteq [op : Changes \cup {"insert"}, version : Nat]
    BY <1>9 DEF Audit, TypeOK
  <2> QED
    BY <2>1, <2>2, <2>4, <2>5, <2>6 DEF TypeOK, Request, Outcomes
<1>10. CASE GraphqlUpdate
  BY <1>10, RowTypes DEF GraphqlUpdate, TypeOK, Row
<1>11. CASE GraphqlDelete
  BY <1>11, RowTypes DEF GraphqlDelete, TypeOK
<1>12. CASE Crash
  <2>1. Closed("applied") \in Request /\ Closed("error") \in Request
    BY Answered DEF Outcomes
  <2>2. ASSUME NEW c \in Clients PROVE req'[c] \in Request
    <3>1. CASE At(c, "idle")
      BY <1>12, <1>r, <3>1 DEF Crash
    <3>2. CASE ~At(c, "idle") /\ At(c, "changed")
      BY <1>12, <2>1, <3>2 DEF Crash
    <3>3. CASE ~At(c, "idle") /\ ~At(c, "changed")
      BY <1>12, <2>1, <3>3 DEF Crash
    <3> QED
      BY <3>1, <3>2, <3>3
  <2>3. req' \in [Clients -> Request]
    BY <1>12, <2>2 DEF Crash
  <2> QED
    BY <1>12, <2>3 DEF Crash, TypeOK, Request, Outcomes
<1>13. CASE UNCHANGED vars
  BY <1>13 DEF vars, TypeOK
<1> QED
  BY <1>1, <1>2, <1>3, <1>4, <1>5, <1>6, <1>7, <1>8, <1>9, <1>10, <1>11, <1>12, <1>13 DEF Next

-----------------------------------------------------------------------------
(* The request that moves.                                                 *)

\* A request that was answered asks for nothing.
LEMMA ClosedSound ==
    ASSUME NEW c \in Clients, NEW what, req'[c] = Closed(what), KnowsPast(c)'
    PROVE  Sound(c)'
<1>1. req'[c].pc = "idle"
  BY DEF Closed
<1> QED
  BY <1>1 DEF Sound, AsksPast, SawPast, Missed, Changed, Open

LEMMA GetSound == ASSUME IInv, NEW c \in Clients, Get(c) PROVE Sound(c)'
<1> USE RowsAssumption
<1>1. Sound(c) /\ row.version \in 0..MaxVersion /\ born /\ row' = row /\ born' = born /\ req' = req
  BY RowTypes DEF IInv, Get
<1>2. known'[c] = row.version
  BY DEF Get, IInv, TypeOK
<1>3. KnowsPast(c)'
  BY <1>1, <1>2 DEF KnowsPast
<1> QED
  BY <1>1, <1>3 DEF Sound, AsksPast, SawPast, Missed, Changed, Applies

LEMMA InsertSound == ASSUME IInv, NEW c \in Clients, Insert(c) PROVE Sound(c)'
<1> USE RowsAssumption
<1>1. /\ req'[c] = [pc |-> "changed", op |-> "insert", version |-> 0, before |-> NoRow,
                    after |-> [there |-> TRUE, version |-> 0, deleted |-> FALSE],
                    outcome |-> "applied"]
      /\ born' /\ ~born /\ row'.version = 0 /\ known' = known
  BY DEF Insert, IInv, TypeOK
<1>2. KnowsPast(c)'
  BY <1>1, Requests DEF IInv, Sound, KnowsPast
<1>3. /\ req'[c].pc = "changed" /\ req'[c].op = "insert" /\ req'[c].after.version = 0
      /\ ~req'[c].before.there /\ req'[c].outcome = "applied"
  BY <1>1 DEF NoRow
<1> QED
  BY <1>1, <1>2, <1>3 DEF Sound, AsksPast, SawPast, Missed, Changed, Open

LEMMA BeginSound ==
    ASSUME IInv, NEW c \in Clients, NEW op \in Changes, Begin(c, op) PROVE Sound(c)'
<1> USE RowsAssumption
<1>1. /\ req'[c] = [pc |-> IF op = "update" THEN "before" ELSE "write", op |-> op,
                    version |-> known[c], before |-> NoRow, after |-> NoRow, outcome |-> "none"]
      /\ known[c] >= 0 /\ UNCHANGED <<row, born, known>>
  BY DEF Begin, IInv, TypeOK
<1>2. KnowsPast(c) /\ KnowsPast(c)' /\ known[c] \in Int
  BY <1>1, Requests DEF IInv, Sound, KnowsPast
<1>3. /\ req'[c].op = op /\ req'[c].version = known[c] /\ ~req'[c].before.there
      /\ req'[c].pc = IF op = "update" THEN "before" ELSE "write"
  BY <1>1 DEF NoRow
<1>4. AsksPast(c)'
  BY <1>1, <1>2, <1>3 DEF AsksPast, KnowsPast
<1> QED
  BY <1>2, <1>3, <1>4 DEF Sound, SawPast, Missed, Changed

LEMMA ReadBeforeSound == ASSUME IInv, NEW c \in Clients, ReadBefore(c) PROVE Sound(c)'
<1>1. /\ req[c].pc = "before" /\ Sound(c) /\ UNCHANGED <<row, born, known>>
      /\ row.version \in Nat /\ req[c].version \in Nat
  BY RowTypes, Requests DEF ReadBefore, At, IInv
<1>2. /\ req'[c].pc = "write" /\ req'[c].op = req[c].op /\ req'[c].version = req[c].version
      /\ req'[c].before = row \/ req'[c].before = req[c].before
  BY DEF ReadBefore, IInv, TypeOK
<1>3. KnowsPast(c)' /\ AsksPast(c)'
  BY <1>1, <1>2 DEF Sound, KnowsPast, AsksPast, Open
<1>4. SawPast(c)'
  BY <1>1, <1>2 DEF Sound, SawPast, AsksPast, Open
<1> QED
  BY <1>2, <1>3, <1>4 DEF Sound, Missed, Changed

\* The heart of the matter: the row that was read is the one that the change overwrites, because
\* the change asks for the version the client knew, which is no newer than what was read.
LEMMA WriteSound == ASSUME IInv, NEW c \in Clients, Write(c) PROVE Sound(c)'
<1> USE RowsAssumption
<1>1. /\ req[c].pc = "write" /\ Sound(c) /\ Applies(req[c]) /\ row.version < MaxVersion
      /\ born' = born /\ known' = known
      /\ row.version \in Nat /\ req[c].version \in Nat /\ known[c] \in Int
      /\ req[c].before \in Row
  BY RowTypes, Requests DEF Write, At, MayChange, IInv
<1>2. row'.version = row.version + 1
  BY DEF Write, Bumped
<1>3. /\ req'[c].pc = "changed" /\ req'[c].op = req[c].op /\ req'[c].before = req[c].before
      /\ req'[c].after = row' /\ req'[c].outcome = "applied"
  BY DEF Write, IInv, TypeOK
<1>4. KnowsPast(c)'
  BY <1>1, <1>2 DEF Sound, KnowsPast, Applies
<1>5. born /\ req[c].op \in Changes
  BY <1>1 DEF Sound, AsksPast, Open
<1>6. ASSUME req[c].before.there
      PROVE  /\ req[c].op = "update" /\ req[c].before.version = row.version
             /\ ~req[c].before.deleted
  <2>1. /\ req[c].op = "update" /\ row.there /\ row.version = req[c].version
        /\ row.deleted = (req[c].op = "restore")
    BY <1>1, <1>6 DEF Sound, SawPast, Applies
  <2>2. /\ req[c].before.version >= row.version
        /\ \/ req[c].before.version < row.version
           \/ req[c].before.version = row.version /\ req[c].before.deleted = row.deleted
    BY <1>1, <1>6, <2>1 DEF Sound, SawPast
  <2>3. req[c].before.version \in Nat
    BY <1>1 DEF Row
  <2>4. ~(req[c].before.version < row.version)
    BY <1>1, <2>2, <2>3
  <2>5. ~row.deleted
    BY <2>1
  <2> QED
    BY <2>1, <2>2, <2>4, <2>5, Zenon
<1>7. Changed(c)'
  BY <1>1, <1>2, <1>3, <1>5, <1>6 DEF Changed, Changes
<1> QED
  BY <1>3, <1>4, <1>7 DEF Sound, AsksPast, SawPast, Missed, Open

LEMMA WriteMissesSound == ASSUME IInv, NEW c \in Clients, WriteMisses(c) PROVE Sound(c)'
<1>1. /\ req[c].pc = "write" /\ Sound(c) /\ ~Applies(req[c]) /\ UNCHANGED <<row, born, known>>
  BY DEF WriteMisses, At, IInv
<1>2. /\ req'[c].pc = "probe" /\ req'[c].op = req[c].op /\ req'[c].version = req[c].version
      /\ req'[c].before = req[c].before
  BY DEF WriteMisses, IInv, TypeOK
<1> QED
  BY <1>1, <1>2 DEF Sound, KnowsPast, AsksPast, SawPast, Missed, Changed, Applies, Open

LEMMA AuditSound == ASSUME IInv, NEW c \in Clients, Audit(c) PROVE Sound(c)'
<1>1. /\ req[c].pc = "changed" /\ Sound(c) /\ row' = row /\ born' = born
      /\ known'[c] = req[c].after.version /\ req'[c] = Closed("applied")
  BY DEF Audit, At, Answer, IInv, TypeOK
<1>2. KnowsPast(c)'
  BY <1>1, RowsAssumption DEF Sound, Changed, KnowsPast
<1> QED
  BY <1>1, <1>2, ClosedSound

-----------------------------------------------------------------------------
(* The invariant.                                                          *)

LEMMA Init0 == Init => IInv
<1> SUFFICES ASSUME Init PROVE IInv
  OBVIOUS
<1>1. TypeOK
  BY TypeInit
<1>2. row.version = 0 /\ ~row.there /\ ~born /\ audit = <<>>
  BY DEF Init, NoRow
<1>3. ASSUME NEW c \in Clients PROVE Sound(c)
  <2>1. req[c] = Closed("none") /\ known[c] = -1
    BY DEF Init
  <2>2. req[c].pc = "idle"
    BY <2>1 DEF Closed
  <2> QED
    BY <1>2, <2>1, <2>2, RowsAssumption
       DEF Sound, KnowsPast, AsksPast, SawPast, Missed, Changed, Open
<1> QED
  BY <1>1, <1>2, <1>3, RowsAssumption DEF IInv, AuditShowsTheChange

\* The steps of one request, by what they do to the row and to the others.
LEMMA OnlyMover ==
    ASSUME IInv, NEW c \in Clients,
           \/ Get(c) \/ Insert(c) \/ (\E op \in Changes : Begin(c, op))
           \/ ReadBefore(c) \/ Write(c) \/ WriteMisses(c) \/ WriteFails(c) \/ Probe(c) \/ Audit(c)
    PROVE  \A d \in Clients : d # c => req'[d] = req[d]
  BY DEF IInv, TypeOK, Get, Insert, Begin, ReadBefore, Write, WriteMisses, WriteFails, Probe, Audit,
         Answer

LEMMA MoverEvolves ==
    ASSUME NEW c \in Clients,
           \/ Get(c) \/ Insert(c) \/ (\E op \in Changes : Begin(c, op))
           \/ ReadBefore(c) \/ Write(c) \/ WriteMisses(c) \/ WriteFails(c) \/ Probe(c) \/ Audit(c)
    PROVE  Evolves
<1>1. CASE Insert(c)
  BY <1>1 DEF Insert, Evolves
<1>2. CASE Write(c)
  <2>1. row.there /\ MayChange /\ born' = born /\ row' = Bumped(req[c].op = "delete")
    BY <1>2 DEF Write, Applies
  <2> QED
    BY <2>1, (req[c].op = "delete") \in BOOLEAN DEF Evolves
<1>3. CASE UNCHANGED <<row, born>>
  BY <1>3 DEF Evolves
<1> QED
  BY <1>1, <1>2, <1>3 DEF Get, Begin, ReadBefore, WriteMisses, WriteFails, Probe, Audit

LEMMA MoverLeavesOthers ==
    ASSUME IInv, NEW c \in Clients, NEW d \in Clients, d # c,
           \/ Get(c) \/ Insert(c) \/ (\E op \in Changes : Begin(c, op))
           \/ ReadBefore(c) \/ Write(c) \/ WriteMisses(c) \/ WriteFails(c) \/ Probe(c) \/ Audit(c)
    PROVE  Sound(d)'
<1>1. req'[d] = req[d] /\ known'[d] = known[d]
  BY DEF IInv, TypeOK, Get, Insert, Begin, ReadBefore, Write, WriteMisses, WriteFails, Probe, Audit,
         Answer
<1>2. Evolves
  BY MoverEvolves
<1> QED
  BY <1>1, <1>2, OthersStay DEF IInv

LEMMA SoundStep == IInv /\ [Next]_vars => \A c \in Clients : Sound(c)'
<1> SUFFICES ASSUME IInv, [Next]_vars, NEW d \in Clients PROVE Sound(d)'
  OBVIOUS
<1>1. ASSUME NEW c \in Clients,
             \/ Get(c) \/ Insert(c) \/ (\E op \in Changes : Begin(c, op))
             \/ ReadBefore(c) \/ Write(c) \/ WriteMisses(c) \/ WriteFails(c) \/ Probe(c) \/ Audit(c)
      PROVE  Sound(d)'
  <2>1. CASE d # c
    BY <1>1, <2>1, MoverLeavesOthers
  <2>2. CASE d = c
    <3>1. CASE Get(d)
      BY <3>1, GetSound
    <3>2. CASE Insert(d)
      BY <3>2, InsertSound
    <3>3. CASE \E op \in Changes : Begin(d, op)
      BY <3>3, BeginSound
    <3>4. CASE ReadBefore(d)
      BY <3>4, ReadBeforeSound
    <3>5. CASE Write(d)
      BY <3>5, WriteSound
    <3>6. CASE WriteMisses(d)
      BY <3>6, WriteMissesSound
    <3>7. CASE WriteFails(d) \/ Probe(d)
      <4>1. UNCHANGED <<row, born, known>> /\ KnowsPast(d)
        BY <3>7 DEF WriteFails, Probe, IInv, Sound
      <4>2. \E what \in Outcomes : req'[d] = Closed(what)
        BY <3>7 DEF WriteFails, Probe, Answer, IInv, TypeOK, Outcomes
      <4> QED
        BY <4>1, <4>2, ClosedSound DEF KnowsPast
    <3>8. CASE Audit(d)
      BY <3>8, AuditSound
    <3> QED
      BY <1>1, <2>2, <3>1, <3>2, <3>3, <3>4, <3>5, <3>6, <3>7, <3>8
  <2> QED
    BY <2>1, <2>2
<1>2. CASE GraphqlUpdate
  <2>1. Evolves
    <3>1. row.deleted \in BOOLEAN
      BY DEF IInv, TypeOK, Row
    <3> QED
      BY <1>2, <3>1 DEF GraphqlUpdate, Evolves
  <2> QED
    BY <1>2, <2>1, OthersStay DEF GraphqlUpdate, IInv
<1>3. CASE GraphqlDelete
  <2>1. Evolves
    BY <1>3 DEF GraphqlDelete, Evolves
  <2> QED
    BY <1>3, <2>1, OthersStay DEF GraphqlDelete, IInv
<1>4. CASE Crash
  <2>1. UNCHANGED <<row, born, known>>
    BY <1>4 DEF Crash
  <2>2. CASE At(d, "idle")
    <3>1. req'[d] = req[d] /\ Evolves
      BY <1>4, <2>1, <2>2 DEF Crash, Evolves
    <3> QED
      BY <2>1, <3>1, OthersStay DEF IInv
  <2>3. CASE ~At(d, "idle")
    <3>1. \E what \in Outcomes : req'[d] = Closed(what)
      BY <1>4, <2>3 DEF Crash, Outcomes
    <3>2. KnowsPast(d)'
      BY <2>1 DEF IInv, Sound, KnowsPast
    <3> QED
      BY <3>1, <3>2, ClosedSound
  <2> QED
    BY <2>2, <2>3
<1>5. CASE UNCHANGED vars
  <2>1. Evolves
    BY <1>5 DEF vars, Evolves
  <2> QED
    BY <1>5, <2>1, OthersStay DEF vars, IInv
<1> QED
  BY <1>1, <1>2, <1>3, <1>4, <1>5 DEF Next

\* The row is never older than its bound, and never there without having been inserted.
LEMMA RowStep ==
    ASSUME IInv, [Next]_vars
    PROVE  row'.version <= MaxVersion /\ (row'.there => born')
<1>1. row.version \in Nat /\ row.version <= MaxVersion /\ (row.there => born)
  BY RowTypes DEF IInv
<1>2. CASE UNCHANGED <<row, born>>
  BY <1>1, <1>2
<1>3. ASSUME NEW c \in Clients, Insert(c) PROVE row'.version <= MaxVersion /\ (row'.there => born')
  BY <1>3, RowsAssumption DEF Insert
<1>4. ASSUME NEW c \in Clients, Write(c) PROVE row'.version <= MaxVersion /\ (row'.there => born')
  <2>1. row'.version = row.version + 1 /\ row.version < MaxVersion /\ row.there /\ born' = born
    BY <1>4 DEF Write, Bumped, MayChange, Applies
  <2> QED
    BY <1>1, <2>1, RowsAssumption
<1>5. CASE GraphqlUpdate
  <2>1. row'.version = row.version + 1 /\ row.version < MaxVersion /\ row.there /\ born' = born
    BY <1>5 DEF GraphqlUpdate, Bumped, MayChange
  <2> QED
    BY <1>1, <2>1, RowsAssumption
<1>6. CASE GraphqlDelete
  BY <1>6, RowsAssumption DEF GraphqlDelete, NoRow
<1> QED
  BY <1>2, <1>3, <1>4, <1>5, <1>6
     DEF Next, Get, Begin, ReadBefore, WriteMisses, WriteFails, Probe, Audit, Crash, vars

LEMMA AuditStep == ASSUME IInv, [Next]_vars PROVE AuditShowsTheChange'
<1>1. CASE UNCHANGED audit
  BY <1>1 DEF IInv, AuditShowsTheChange
<1>2. ASSUME NEW c \in Clients, Audit(c), audit' # audit PROVE AuditShowsTheChange'
  <2> DEFINE new == [op |-> req[c].op, version |-> req[c].after.version, before |-> req[c].before]
             Entries == [op : Changes \cup {"insert"}, version : Nat, before : Row]
  <2>1. audit' = Append(audit, new) /\ req[c].pc = "changed" /\ Sound(c)
    BY <1>2 DEF Audit, At, IInv
  <2>2. new.before.there => /\ new.op = "update"
                            /\ new.before.version + 1 = new.version
                            /\ ~new.before.deleted
    BY <2>1 DEF Sound, Changed
  <2>3. audit \in Seq(Entries)
    BY DEF IInv, TypeOK
  <2> SUFFICES ASSUME NEW i \in DOMAIN audit', audit'[i].before.there
               PROVE  /\ audit'[i].op = "update"
                      /\ audit'[i].before.version + 1 = audit'[i].version
                      /\ ~audit'[i].before.deleted
    BY DEF AuditShowsTheChange
  <2> HIDE DEF new, Entries
  <2>4. CASE i \in DOMAIN audit
    <3>1. audit'[i] = audit[i]
      BY <2>1, <2>3, <2>4
    <3> QED
      BY <2>4, <3>1 DEF IInv, AuditShowsTheChange
  <2>5. CASE i \notin DOMAIN audit
    <3>1. audit'[i] = new
      BY <2>1, <2>3, <2>5
    <3> QED
      BY <2>2, <3>1
  <2> QED
    BY <2>4, <2>5
<1> QED
  BY <1>1, <1>2
     DEF Next, Get, Insert, Begin, ReadBefore, Write, WriteMisses, WriteFails, Probe, Audit,
         GraphqlUpdate, GraphqlDelete, Crash, vars

LEMMA IInvStep == IInv /\ [Next]_vars => IInv'
  BY TypeStep, SoundStep, RowStep, AuditStep DEF IInv

\* The rows, requests and audit rows of the gateway keep their types.
THEOREM RowsTypes == Spec => []TypeOK
<1>1. Init => IInv
  BY Init0
<1>2. IInv /\ [Next]_vars => IInv'
  BY IInvStep
<1>3. IInv => TypeOK
  BY DEF IInv
<1> QED
  BY <1>1, <1>2, <1>3, PTL DEF Spec

-----------------------------------------------------------------------------
(* The ledger: changes, audit rows and the requests between the two.       *)

Entry(c) == [op |-> req[c].op, version |-> req[c].after.version]
Shown(i) == [op |-> audit[i].op, version |-> audit[i].version]

\* Every change has a version of its own, that the row has had.
ChangesDiffer ==
    /\ \A a \in applied : born /\ (row.there => a.version <= row.version)
    /\ \A a, b \in applied : a.version = b.version => a = b

\* A request that has still to write its audit row has made a change, and nobody else writes it.
WaitingAreApart ==
    /\ \A c \in Clients : At(c, "changed") =>
            /\ Entry(c) \in applied
            /\ \A i \in DOMAIN audit : audit[i].version # req[c].after.version
    /\ \A c, d \in Clients : (At(c, "changed") /\ At(d, "changed") /\ c # d) =>
            req[c].after.version # req[d].after.version

\* An audit row is of a change, and no two are of the same.
ShownOnce ==
    /\ \A i \in DOMAIN audit : Shown(i) \in applied
    /\ \A i, j \in DOMAIN audit : audit[i].version = audit[j].version => i = j

\* No change is forgotten unless a failure was noticed.
NoneForgotten ==
    ~unaudited => \A a \in applied : \/ \E i \in DOMAIN audit : Shown(i) = a
                                     \/ \E c \in Clients : At(c, "changed") /\ Entry(c) = a

Ledger == ChangesDiffer /\ WaitingAreApart /\ ShownOnce /\ NoneForgotten

\* A change takes a version that no change before it had.
LEMMA NewChange ==
    ASSUME IInv, Ledger, NEW c \in Clients, NEW v \in Nat, req[c].pc # "changed",
           \A a \in applied : a.version # v,
           \A a \in applied : born' /\ (row'.there => a.version <= row'.version),
           born', row'.there => v <= row'.version,
           \A d \in Clients : d # c => req'[d] = req[d],
           req'[c].pc = "changed", req'[c].after.version = v,
           applied' = applied \cup {[op |-> req'[c].op, version |-> v]},
           audit' = audit, unaudited' = unaudited
    PROVE  Ledger'
<1> DEFINE new == [op |-> req'[c].op, version |-> v]
<1>1. new.version = v /\ new.op = req'[c].op /\ new \in applied'
      /\ \A a \in applied' : a \in applied \/ a = new
  OBVIOUS
<1> HIDE DEF new
<1>2. ChangesDiffer'
  BY <1>1 DEF Ledger, ChangesDiffer
<1>3. Entry(c)' = new
  BY DEF Entry, new
<1>4. \A d \in Clients : d # c => Entry(d)' = Entry(d) /\ (At(d, "changed")' <=> At(d, "changed"))
  BY DEF Entry, At
<1>5. \A i \in DOMAIN audit : audit[i].version # v
  BY DEF Ledger, ShownOnce, Shown
<1>6. \A d \in Clients : (d # c /\ At(d, "changed")) => req[d].after.version # v
  BY DEF Ledger, WaitingAreApart, Entry
<1>7. applied \subseteq applied'
  OBVIOUS
<1>8. ASSUME NEW d \in Clients, At(d, "changed")'
      PROVE  Entry(d)' \in applied' /\ \A i \in DOMAIN audit : audit[i].version # req'[d].after.version
  <2>1. CASE d = c
    BY <1>1, <1>3, <1>5, <2>1
  <2>2. CASE d # c
    BY <1>4, <1>7, <1>8, <2>2 DEF Ledger, WaitingAreApart
  <2> QED
    BY <2>1, <2>2
<1>9. WaitingAreApart'
  <2>1. ASSUME NEW d \in Clients, NEW e \in Clients,
               At(d, "changed")', At(e, "changed")', d # e
        PROVE  req'[d].after.version # req'[e].after.version
    <3>1. CASE d = c
      BY <1>4, <1>6, <2>1, <3>1
    <3>2. CASE e = c
      BY <1>4, <1>6, <2>1, <3>2
    <3>3. CASE d # c /\ e # c
      BY <1>4, <2>1, <3>3 DEF Ledger, WaitingAreApart
    <3> QED
      BY <3>1, <3>2, <3>3
  <2> QED
    BY <1>8, <2>1 DEF WaitingAreApart
<1>10. ShownOnce'
  BY <1>7 DEF Ledger, ShownOnce, Shown
<1>11. NoneForgotten'
  <2> SUFFICES ASSUME ~unaudited, NEW a \in applied'
               PROVE  \/ \E i \in DOMAIN audit : Shown(i) = a
                      \/ \E d \in Clients : At(d, "changed")' /\ Entry(d)' = a
    BY DEF NoneForgotten, Shown
  <2>1. CASE a = new
    BY <1>3, <2>1 DEF At
  <2>2. CASE a \in applied
    <3>1. CASE \E i \in DOMAIN audit : Shown(i) = a
      BY <3>1
    <3>2. CASE \E d \in Clients : At(d, "changed") /\ Entry(d) = a
      BY <1>4, <3>2 DEF At
    <3> QED
      BY <2>2, <3>1, <3>2 DEF Ledger, NoneForgotten
  <2> QED
    BY <1>1, <2>1, <2>2
<1> QED
  BY <1>2, <1>9, <1>10, <1>11 DEF Ledger

\* Steps that make no change and write no audit row: only the row goes on.
LEMMA LedgerRests ==
    ASSUME IInv, Ledger, Evolves, UNCHANGED <<applied, audit, unaudited>>,
           \A c \in Clients : req'[c].pc = "changed" => req[c].pc = "changed",
           \A c \in Clients : req[c].pc = "changed" =>
               /\ req'[c].pc = "changed" /\ req'[c].op = req[c].op /\ req'[c].after = req[c].after
    PROVE  Ledger'
<1>1. \A a \in applied : a.version \in Nat
  BY DEF IInv, TypeOK
<1>2. ASSUME NEW a \in applied PROVE born' /\ (row'.there => a.version <= row'.version)
  BY <1>1, PastStays DEF IInv, Ledger, ChangesDiffer
<1>3. ChangesDiffer'
  BY <1>2 DEF Ledger, ChangesDiffer
<1>4. ASSUME NEW c \in Clients, At(c, "changed") \/ At(c, "changed")'
      PROVE  /\ At(c, "changed") /\ Entry(c)' = Entry(c)
             /\ req'[c].after.version = req[c].after.version
  BY <1>4 DEF Entry, At
<1>5. WaitingAreApart'
  <2>1. ASSUME NEW c \in Clients, At(c, "changed")'
        PROVE  /\ Entry(c)' \in applied'
               /\ \A i \in DOMAIN audit' : audit'[i].version # req'[c].after.version
    BY <1>4, <2>1 DEF Ledger, WaitingAreApart
  <2>2. ASSUME NEW c \in Clients, NEW d \in Clients, At(c, "changed")', At(d, "changed")', c # d
        PROVE  req'[c].after.version # req'[d].after.version
    BY <1>4, <2>2 DEF Ledger, WaitingAreApart
  <2> QED
    BY <2>1, <2>2 DEF WaitingAreApart
<1>6. ShownOnce'
  BY DEF Ledger, ShownOnce, Shown
<1>7. NoneForgotten'
  <2> SUFFICES ASSUME ~unaudited, NEW a \in applied
               PROVE  \/ \E i \in DOMAIN audit : Shown(i) = a
                      \/ \E c \in Clients : At(c, "changed")' /\ Entry(c)' = a
    BY DEF NoneForgotten, Shown
  <2>1. CASE \E c \in Clients : At(c, "changed") /\ Entry(c) = a
    <3>1. PICK c \in Clients : At(c, "changed") /\ Entry(c) = a
      BY <2>1
    <3>2. At(c, "changed")' /\ Entry(c)' = a
      BY <1>4, <3>1 DEF At, Entry
    <3> QED
      BY <3>2
  <2> QED
    BY <2>1 DEF Ledger, NoneForgotten
<1> QED
  BY <1>3, <1>5, <1>6, <1>7 DEF Ledger

LEMMA LedgerInit == Init => Ledger
<1> SUFFICES ASSUME Init PROVE Ledger
  OBVIOUS
<1>1. applied = {} /\ audit = <<>> /\ \A c \in Clients : ~At(c, "changed")
  BY DEF Init, Closed, At
<1> QED
  BY <1>1 DEF Ledger, ChangesDiffer, WaitingAreApart, ShownOnce, NoneForgotten

\* The change is written down: its request waits no longer, and its row is the last.
LEMMA AuditWritesDown ==
    ASSUME IInv, Ledger, NEW c \in Clients, Audit(c), audit' # audit
    PROVE  Ledger'
<1> DEFINE new == [op |-> req[c].op, version |-> req[c].after.version, before |-> req[c].before]
           Entries == [op : Changes \cup {"insert"}, version : Nat, before : Row]
<1>1. /\ audit' = Append(audit, new) /\ req[c].pc = "changed"
      /\ UNCHANGED <<row, born, applied, unaudited>>
  BY DEF Audit, At
<1>2. audit \in Seq(Entries)
  BY DEF IInv, TypeOK
<1>3. new.op = req[c].op /\ new.version = req[c].after.version
  OBVIOUS
<1>4. \A d \in Clients : d # c => req'[d] = req[d]
  BY OnlyMover
<1>5. req'[c].pc = "idle"
  BY DEF Audit, Answer, Closed, IInv, TypeOK
<1> HIDE DEF new, Entries
<1>6. /\ Len(audit) + 1 \in DOMAIN audit' /\ audit'[Len(audit) + 1] = new
      /\ \A i \in DOMAIN audit : i \in DOMAIN audit' /\ audit'[i] = audit[i]
      /\ \A i \in DOMAIN audit' : i \in DOMAIN audit \/ i = Len(audit) + 1
  BY <1>1, <1>2
<1>7. /\ Entry(c) \in applied
      /\ \A i \in DOMAIN audit : audit[i].version # req[c].after.version
  BY <1>1 DEF Ledger, WaitingAreApart, At
<1>8. ChangesDiffer'
  BY <1>1 DEF Ledger, ChangesDiffer
<1>9. WaitingAreApart'
  <2>1. ASSUME NEW d \in Clients, At(d, "changed")'
        PROVE  d # c /\ At(d, "changed") /\ req'[d] = req[d] /\ Entry(d)' = Entry(d)
    BY <1>4, <1>5, <2>1 DEF At, Entry
  <2>2. ASSUME NEW d \in Clients, At(d, "changed")'
        PROVE  /\ Entry(d)' \in applied'
               /\ \A i \in DOMAIN audit' : audit'[i].version # req'[d].after.version
    <3>1. req[d].after.version # req[c].after.version
      BY <1>1, <2>1, <2>2 DEF Ledger, WaitingAreApart, At
    <3>2. Entry(d) \in applied /\ \A i \in DOMAIN audit : audit[i].version # req[d].after.version
      BY <2>1, <2>2 DEF Ledger, WaitingAreApart
    <3> QED
      BY <1>1, <1>3, <1>6, <2>1, <2>2, <3>1, <3>2
  <2>3. ASSUME NEW d \in Clients, NEW e \in Clients, At(d, "changed")', At(e, "changed")', d # e
        PROVE  req'[d].after.version # req'[e].after.version
    BY <2>1, <2>3 DEF Ledger, WaitingAreApart
  <2> QED
    BY <2>2, <2>3 DEF WaitingAreApart
<1>10. ShownOnce'
  <2>1. ASSUME NEW i \in DOMAIN audit' PROVE Shown(i)' \in applied'
    <3>1. CASE i \in DOMAIN audit
      BY <1>1, <1>6, <3>1 DEF Ledger, ShownOnce, Shown
    <3>2. CASE i = Len(audit) + 1
      BY <1>1, <1>3, <1>6, <1>7, <3>2 DEF Shown, Entry
    <3> QED
      BY <1>6, <3>1, <3>2
  <2>2. ASSUME NEW i \in DOMAIN audit', NEW j \in DOMAIN audit',
               audit'[i].version = audit'[j].version
        PROVE  i = j
    BY <1>3, <1>6, <1>7, <2>2 DEF Ledger, ShownOnce
  <2> QED
    BY <2>1, <2>2 DEF ShownOnce
<1>11. NoneForgotten'
  <2> SUFFICES ASSUME ~unaudited, NEW a \in applied
               PROVE  \/ \E i \in DOMAIN audit' : Shown(i)' = a
                      \/ \E d \in Clients : At(d, "changed")' /\ Entry(d)' = a
    BY <1>1 DEF NoneForgotten
  <2>1. CASE \E i \in DOMAIN audit : Shown(i) = a
    BY <1>6, <2>1 DEF Shown
  <2>2. CASE a = Entry(c)
    <3>1. PICK n \in DOMAIN audit' : audit'[n] = new
      BY <1>6
    <3>2. Shown(n)' = a
      BY <1>3, <2>2, <3>1 DEF Shown, Entry
    <3> QED
      BY <3>2
  <2>3. CASE \E d \in Clients : d # c /\ At(d, "changed") /\ Entry(d) = a
    <3>1. PICK d \in Clients : d # c /\ At(d, "changed") /\ Entry(d) = a
      BY <2>3
    <3>2. At(d, "changed")' /\ Entry(d)' = a
      BY <1>4, <3>1 DEF At, Entry
    <3> QED
      BY <3>2
  <2> QED
    BY <2>1, <2>2, <2>3 DEF Ledger, NoneForgotten
<1> QED
  BY <1>8, <1>9, <1>10, <1>11 DEF Ledger

\* An audit row is lost: the ledger has no more to say of what is missing.
LEMMA LedgerLoses ==
    ASSUME IInv, Ledger, UNCHANGED <<row, born, applied, audit>>, unaudited',
           \A c \in Clients : req'[c].pc = "changed" => req'[c] = req[c]
    PROVE  Ledger'
<1>1. ChangesDiffer' /\ ShownOnce' /\ NoneForgotten'
  BY DEF Ledger, ChangesDiffer, ShownOnce, Shown, NoneForgotten
<1>2. WaitingAreApart'
  <2>1. ASSUME NEW c \in Clients, At(c, "changed")'
        PROVE  At(c, "changed") /\ req'[c] = req[c] /\ Entry(c)' = Entry(c)
    BY <2>1 DEF At, Entry
  <2> QED
    BY <2>1 DEF Ledger, WaitingAreApart
<1> QED
  BY <1>1, <1>2 DEF Ledger

LEMMA LedgerWrite == ASSUME IInv, Ledger, NEW c \in Clients, Write(c) PROVE Ledger'
<1> DEFINE v == row.version + 1
<1>1. row.version \in Nat /\ (\A a \in applied : a.version \in Nat) /\ Sound(c)
  BY RowTypes DEF IInv, TypeOK
<1>2. /\ req[c].pc = "write" /\ row.there /\ born' = born
      /\ row'.there /\ row'.version = v /\ audit' = audit /\ unaudited' = unaudited
      /\ req'[c].pc = "changed" /\ req'[c].op = req[c].op /\ req'[c].after = row'
      /\ applied' = applied \cup {[op |-> req[c].op, version |-> row'.version]}
  BY DEF Write, At, Applies, Bumped, IInv, TypeOK
<1>3. born
  BY <1>1, <1>2 DEF Sound, AsksPast, Open
<1>4. \A a \in applied : a.version <= row.version
  BY <1>2 DEF Ledger, ChangesDiffer
<1>5. v \in Nat /\ \A a \in applied : a.version # v /\ a.version <= v
  BY <1>1, <1>4
<1>6. \A d \in Clients : d # c => req'[d] = req[d]
  BY OnlyMover
<1>7. born' /\ row'.version <= v /\ v <= row'.version /\ req'[c].after.version = v
      /\ applied' = applied \cup {[op |-> req'[c].op, version |-> v]}
      /\ \A a \in applied : a.version <= row'.version
  BY <1>1, <1>2, <1>3, <1>5
<1> HIDE DEF v
<1> QED
  BY <1>2, <1>5, <1>6, <1>7, NewChange

LEMMA LedgerInsert == ASSUME IInv, Ledger, NEW c \in Clients, Insert(c) PROVE Ledger'
<1>1. applied = {}
  BY DEF Insert, Ledger, ChangesDiffer
<1>2. /\ req[c].pc = "idle" /\ born' /\ row'.version = 0
      /\ audit' = audit /\ unaudited' = unaudited
      /\ req'[c].pc = "changed" /\ req'[c].op = "insert" /\ req'[c].after.version = 0
      /\ applied' = applied \cup {[op |-> "insert", version |-> 0]}
  BY DEF Insert, At, IInv, TypeOK
<1>3. \A d \in Clients : d # c => req'[d] = req[d]
  BY OnlyMover
<1> QED
  BY <1>1, <1>2, <1>3, NewChange, 0 \in Nat

LEMMA LedgerStep == ASSUME IInv, Ledger, [Next]_vars PROVE Ledger'
<1>1. ASSUME NEW c \in Clients, Insert(c) PROVE Ledger'
  BY <1>1, LedgerInsert
<1>2. ASSUME NEW c \in Clients, Write(c) PROVE Ledger'
  BY <1>2, LedgerWrite
<1>3. ASSUME NEW c \in Clients, Audit(c) PROVE Ledger'
  <2>1. CASE audit' # audit
    BY <1>3, <2>1, AuditWritesDown
  <2>2. CASE audit' = audit
    <3>1. unaudited' /\ UNCHANGED <<row, born, applied, audit>>
      <4>1. audit' # Append(audit, [op |-> req[c].op, version |-> req[c].after.version,
                                    before |-> req[c].before])
        <5>1. audit \in Seq([op : Changes \cup {"insert"}, version : Nat, before : Row])
          BY DEF IInv, TypeOK
        <5> QED
          BY <2>2, <5>1
      <4> QED
        BY <1>3, <2>2, <4>1 DEF Audit
    <3>2. \A d \in Clients : d # c => req'[d] = req[d]
      BY <1>3, OnlyMover
    <3>3. req'[c].pc = "idle"
      BY <1>3 DEF Audit, Answer, Closed, IInv, TypeOK
    <3> QED
      BY <3>1, <3>2, <3>3, LedgerLoses
  <2> QED
    BY <2>1, <2>2
<1>4. ASSUME NEW c \in Clients,
             \/ Get(c) \/ (\E op \in Changes : Begin(c, op))
             \/ ReadBefore(c) \/ WriteMisses(c) \/ WriteFails(c) \/ Probe(c)
      PROVE  Ledger'
  <2>1. Evolves /\ \A d \in Clients : d # c => req'[d] = req[d]
    BY <1>4, MoverEvolves, OnlyMover
  <2>2. UNCHANGED <<applied, audit, unaudited>>
    BY <1>4 DEF Get, Begin, ReadBefore, WriteMisses, WriteFails, Probe
  <2>3. req'[c] = req[c] \/ (req[c].pc # "changed" /\ req'[c].pc # "changed")
    <3>1. CASE Get(c)
      BY <3>1 DEF Get
    <3>2. CASE \E op \in Changes : Begin(c, op)
      BY <3>2 DEF Begin, At, IInv, TypeOK
    <3>3. CASE ReadBefore(c) \/ WriteMisses(c)
      BY <3>3 DEF ReadBefore, WriteMisses, At, IInv, TypeOK
    <3>4. CASE WriteFails(c) \/ Probe(c)
      BY <3>4 DEF WriteFails, Probe, Answer, Closed, At, IInv, TypeOK
    <3> QED
      BY <1>4, <3>1, <3>2, <3>3, <3>4
  <2> QED
    BY <2>1, <2>2, <2>3, LedgerRests
<1>5. CASE GraphqlUpdate
  <2>1. Evolves
    BY <1>5 DEF GraphqlUpdate, Evolves, IInv, TypeOK, Row
  <2> QED
    BY <1>5, <2>1, LedgerRests DEF GraphqlUpdate
<1>6. CASE GraphqlDelete
  <2>1. Evolves
    BY <1>6 DEF GraphqlDelete, Evolves
  <2> QED
    BY <1>6, <2>1, LedgerRests DEF GraphqlDelete
<1>7. CASE Crash
  <2>1. ASSUME NEW c \in Clients, req'[c].pc = "changed" PROVE req'[c] = req[c]
    <3>1. CASE At(c, "idle")
      BY <1>7, <3>1 DEF Crash
    <3>2. CASE ~At(c, "idle")
      BY <1>7, <2>1, <3>2 DEF Crash, Closed
    <3> QED
      BY <3>1, <3>2
  <2>2. CASE \E c \in Clients : At(c, "changed")
    BY <1>7, <2>1, <2>2, LedgerLoses DEF Crash
  <2>3. CASE ~\E c \in Clients : At(c, "changed")
    <3>1. unaudited' = unaudited /\ UNCHANGED <<row, born, applied, audit>>
      BY <1>7, <2>3 DEF Crash, IInv, TypeOK
    <3>2. Evolves
      BY <3>1 DEF Evolves
    <3> QED
      BY <2>1, <2>3, <3>1, <3>2, LedgerRests DEF At
  <2> QED
    BY <2>2, <2>3
<1>8. CASE UNCHANGED vars
  <2>1. Evolves
    BY <1>8 DEF vars, Evolves
  <2> QED
    BY <1>8, <2>1, LedgerRests DEF vars
<1> QED
  BY <1>1, <1>2, <1>3, <1>4, <1>5, <1>6, <1>7, <1>8 DEF Next

\* At rest every change has its row and every row its change: there are as many of both.
LEMMA LedgerCounts == ASSUME IInv, Ledger PROVE AuditedOnce
<1> SUFFICES ASSUME \A c \in Clients : At(c, "idle"), ~unaudited
             PROVE  /\ Len(audit) = Cardinality(applied)
                    /\ \A a \in applied : \E i \in DOMAIN audit :
                            audit[i].op = a.op /\ audit[i].version = a.version
  BY DEF AuditedOnce
<1>1. \A a \in applied : \E i \in DOMAIN audit : Shown(i) = a
  <2>1. \A c \in Clients : ~At(c, "changed")
    BY DEF At
  <2> QED
    BY <2>1 DEF Ledger, NoneForgotten
<1>2. \A i \in DOMAIN audit : Shown(i).op = audit[i].op /\ Shown(i).version = audit[i].version
  BY DEF Shown
<1>3. DOMAIN audit = 1..Len(audit) /\ Len(audit) \in Nat
  BY DEF IInv, TypeOK
<1> DEFINE f == [i \in 1..Len(audit) |-> Shown(i)]
<1>4. f \in Bijection(1..Len(audit), applied)
  <2>1. f \in [1..Len(audit) -> applied]
    BY <1>3 DEF Ledger, ShownOnce
  <2>2. \A i, j \in 1..Len(audit) : f[i] = f[j] => i = j
    BY <1>2, <1>3 DEF Ledger, ShownOnce
  <2>3. \A a \in applied : \E i \in 1..Len(audit) : f[i] = a
    BY <1>1, <1>3
  <2> QED
    BY <2>1, <2>2, <2>3, Fun_IsBij
<1>5. Cardinality(applied) = Len(audit)
  BY <1>3, <1>4, FS_CountingElements DEF ExistsBijection
<1> QED
  BY <1>1, <1>2, <1>5

\* _dv_audit is true: a row that shows the row before a change shows the version the change overwrote,
\* although an earlier statement read it (dv_update reads, crud writes, audit_after appends), and when
\* nothing is under way and no statement has failed every change has one row.
THEOREM RowsAudit == Spec => []AuditIsTrue
<1>1. Init => IInv /\ Ledger
  BY Init0, LedgerInit
<1>2. IInv /\ Ledger /\ [Next]_vars => IInv' /\ Ledger'
  BY IInvStep, LedgerStep
<1>3. IInv /\ Ledger => AuditIsTrue
  BY LedgerCounts DEF AuditIsTrue, IInv
<1> QED
  BY <1>1, <1>2, <1>3, PTL DEF Spec

-----------------------------------------------------------------------------
(* The refinement: the call of VersionedRow that a request stands for.     *)

Pending(r) ==
    IF r.pc \in Open
    THEN [open |-> TRUE, op |-> r.op, version |-> r.version, outcome |-> "none"]
    ELSE [open |-> FALSE, op |-> "none", version |-> 0, outcome |-> r.outcome]

Calls == [c \in Clients |-> Pending(req[c])]

\* A step of one request moves its call and no other.
LEMMA CallMoves ==
    ASSUME NEW c \in Clients, \A d \in Clients : d # c => req'[d] = req[d]
    PROVE  Calls' = [Calls EXCEPT ![c] = Pending(req'[c])]
  BY DEF Calls, Pending

LEMMA CallRests ==
    ASSUME NEW c \in Clients, \A d \in Clients : d # c => req'[d] = req[d],
           Pending(req'[c]) = Pending(req[c])
    PROVE  Calls' = Calls
<1>1. ASSUME NEW d \in Clients PROVE Pending(req'[d]) = Pending(req[d])
  <2>1. CASE d = c
    BY <2>1
  <2>2. CASE d # c
    BY <2>2
  <2> QED
    BY <2>1, <2>2
<1> QED
  BY <1>1 DEF Calls

\* What an answered request stands for.
LEMMA ClosedIsDecided ==
    ASSUME NEW what
    PROVE  Pending(Closed(what)) = [open |-> FALSE, op |-> "none", version |-> 0, outcome |-> what]
<1>1. Closed(what).pc = "idle" /\ Closed(what).outcome = what
  BY DEF Closed
<1> QED
  BY <1>1 DEF Pending, Open

LEMMA PromiseInit == Init => Promise!Init
<1> SUFFICES ASSUME Init PROVE Promise!Init
  OBVIOUS
<1>1. ASSUME NEW c \in Clients
      PROVE  Pending(req[c]) = [open |-> FALSE, op |-> "none", version |-> 0, outcome |-> "none"]
  BY ClosedIsDecided DEF Init
<1>2. Calls = [c \in Clients |-> [open |-> FALSE, op |-> "none", version |-> 0, outcome |-> "none"]]
  BY <1>1 DEF Calls
<1> QED
  BY <1>2 DEF Init, NoRow, Promise!Init, Promise!NoRow, Promise!Decided, Calls, Pending, Open

LEMMA InsertKept == ASSUME IInv, NEW c \in Clients, Insert(c) PROVE Promise!Insert(c)
<1>1. Calls' = [Calls EXCEPT ![c] = Pending(req'[c])]
  BY CallMoves, OnlyMover
<1>2. req'[c].pc = "changed" /\ req'[c].outcome = "applied" /\ req[c].pc = "idle"
  BY DEF Insert, At, IInv, TypeOK
<1>3. Pending(req'[c]) = [open |-> FALSE, op |-> "none", version |-> 0, outcome |-> "applied"]
  BY <1>2 DEF Pending, Open
<1>4. ~Calls[c].open
  BY <1>2 DEF Calls, Pending, Open
<1>5. ~born /\ born' = TRUE /\ row' = [there |-> TRUE, version |-> 0, deleted |-> FALSE]
  BY DEF Insert
<1> QED
  BY <1>1, <1>3, <1>4, <1>5 DEF Promise!Insert, Promise!Decide, Promise!Decided, Promise!NewRow,
     Calls, Pending, Open

LEMMA BeginKept ==
    ASSUME IInv, NEW c \in Clients, NEW op \in Changes, Begin(c, op)
    PROVE  \E v \in 0..MaxVersion : Promise!Call(c, op, v)
<1>1. Calls' = [Calls EXCEPT ![c] = Pending(req'[c])]
  BY CallMoves, OnlyMover
<1>2. /\ req'[c] = [pc |-> IF op = "update" THEN "before" ELSE "write", op |-> op,
                    version |-> known[c], before |-> NoRow, after |-> NoRow, outcome |-> "none"]
      /\ req[c].pc = "idle" /\ known[c] >= 0 /\ UNCHANGED <<row, born>>
  BY DEF Begin, At, IInv, TypeOK
<1>3. Pending(req'[c]) = [open |-> TRUE, op |-> op, version |-> known[c], outcome |-> "none"]
  BY <1>2 DEF Pending, Open
<1>4. ~Calls[c].open
  BY <1>2 DEF Calls, Pending, Open
<1>5. known[c] \in 0..MaxVersion
  BY <1>2, RowsAssumption DEF IInv, Sound, KnowsPast
<1>6. Promise!Call(c, op, known[c])
  BY <1>1, <1>2, <1>3, <1>4 DEF Promise!Call, Calls, Pending, Open
<1> QED
  BY <1>5, <1>6 DEF Promise!Call

LEMMA WriteKept == ASSUME IInv, NEW c \in Clients, Write(c) PROVE Promise!Take(c)
<1>1. Calls' = [Calls EXCEPT ![c] = Pending(req'[c])]
  BY CallMoves, OnlyMover
<1>2. /\ req[c].pc = "write" /\ Applies(req[c])
      /\ req'[c].pc = "changed" /\ req'[c].outcome = "applied"
      /\ row' = Bumped(req[c].op = "delete") /\ born' = born
  BY DEF Write, At, IInv, TypeOK
<1>3. Pending(req'[c]) = [open |-> FALSE, op |-> "none", version |-> 0, outcome |-> "applied"]
  BY <1>2 DEF Pending, Open
<1>4. Calls[c] = [open |-> TRUE, op |-> req[c].op, version |-> req[c].version, outcome |-> "none"]
  BY <1>2 DEF Calls, Pending, Open
<1> QED
  BY <1>1, <1>2, <1>3, <1>4 DEF Promise!Take, Promise!Decide, Promise!Decided, Promise!Applies,
     Promise!Bumped, Bumped, Applies, Calls, Pending, Open

\* The request that fails, or misses and then asks why.
LEMMA AnswerKept ==
    ASSUME IInv, NEW c \in Clients, WriteFails(c) \/ Probe(c)
    PROVE  Promise!Fail(c) \/ Promise!Refuse(c)
<1> DEFINE Gives(what) == [Calls EXCEPT ![c] =
                               [open |-> FALSE, op |-> "none", version |-> 0, outcome |-> what]]
<1>1. Calls' = [Calls EXCEPT ![c] = Pending(req'[c])]
  BY CallMoves, OnlyMover
<1>2. req[c].pc \in {"write", "probe"} /\ UNCHANGED <<row, born>>
  BY DEF WriteFails, Probe, At
<1>3. Calls[c] = [open |-> TRUE, op |-> req[c].op, version |-> req[c].version, outcome |-> "none"]
  BY <1>2 DEF Calls, Pending, Open
<1>4. ASSUME NEW what, req'[c] = Closed(what) PROVE Calls' = Gives(what)
  BY <1>1, <1>4, ClosedIsDecided
<1>5. CASE req'[c] = Closed("error") \/ req'[c] = Closed("not_found")
  <2>1. Calls' = Gives("error") \/ Calls' = Gives("not_found")
    BY <1>4, <1>5
  <2>2. Promise!Fail(c)
    BY <1>2, <1>3, <2>1 DEF Promise!Fail, Promise!Decide, Promise!Decided, Calls, Pending, Open
  <2> QED
    BY <2>2
<1>6. CASE Probe(c) /\ req'[c] = Closed(IF row.there THEN "precondition_failed" ELSE "not_found")
  <2>1. ~Applies(req[c])
    BY <1>6 DEF Probe, At, IInv, Sound, Missed
  <2>2. Calls' = Gives(IF row.there THEN "precondition_failed" ELSE "not_found")
    BY <1>4, <1>6
  <2>3. Promise!Refuse(c)
    BY <1>2, <1>3, <2>1, <2>2 DEF Promise!Refuse, Promise!Decide, Promise!Decided, Promise!Applies,
       Applies, Calls, Pending, Open
  <2> QED
    BY <2>3
<1>7. \/ req'[c] = Closed("error") \/ req'[c] = Closed("not_found")
      \/ Probe(c) /\ req'[c] = Closed(IF row.there THEN "precondition_failed" ELSE "not_found")
  BY DEF WriteFails, Probe, Answer, IInv, TypeOK
<1> QED
  BY <1>5, <1>6, <1>7

\* The steps that VersionedRow does not see.
LEMMA Hidden ==
    ASSUME IInv, NEW c \in Clients, Get(c) \/ ReadBefore(c) \/ WriteMisses(c) \/ Audit(c)
    PROVE  UNCHANGED <<row, born, Calls>>
<1>1. \A d \in Clients : d # c => req'[d] = req[d]
  BY OnlyMover
<1>2. CASE Get(c)
  BY <1>1, <1>2, CallRests DEF Get
<1>3. CASE ReadBefore(c) \/ WriteMisses(c)
  <2>1. /\ req[c].pc \in Open /\ req'[c].pc \in Open
        /\ req'[c].op = req[c].op /\ req'[c].version = req[c].version
    BY <1>3 DEF ReadBefore, WriteMisses, At, Open, IInv, TypeOK
  <2>2. Pending(req'[c]) = Pending(req[c])
    BY <2>1 DEF Pending
  <2> QED
    BY <1>1, <1>3, <2>2, CallRests DEF ReadBefore, WriteMisses
<1>4. CASE Audit(c)
  <2>1. req[c].pc = "changed" /\ req[c].outcome = "applied" /\ req'[c] = Closed("applied")
    BY <1>4 DEF Audit, Answer, At, IInv, Sound, Changed, TypeOK
  <2>2. Pending(req'[c]) = Pending(req[c])
    BY <2>1, ClosedIsDecided DEF Pending, Open
  <2> QED
    BY <1>1, <1>4, <2>2, CallRests DEF Audit
<1> QED
  BY <1>2, <1>3, <1>4

LEMMA CrashKept == ASSUME IInv, Crash PROVE Promise!Crash
<1>1. ASSUME NEW c \in Clients
      PROVE  Pending(req'[c]) =
                 IF Calls[c].open
                 THEN [open |-> FALSE, op |-> "none", version |-> 0, outcome |-> "error"]
                 ELSE Calls[c]
  <2>0. Calls[c] = Pending(req[c])
    BY DEF Calls
  <2>1. CASE At(c, "idle")
    <3>1. req'[c] = req[c] /\ req[c].pc = "idle"
      BY <2>1 DEF Crash, At
    <3> QED
      BY <2>0, <3>1 DEF Pending, Open
  <2>2. CASE At(c, "changed")
    <3>1. req'[c] = Closed("applied") /\ req[c].pc = "changed" /\ req[c].outcome = "applied"
      BY <2>2 DEF Crash, At, IInv, Sound, Changed
    <3> QED
      BY <2>0, <3>1, ClosedIsDecided DEF Pending, Open
  <2>3. CASE ~At(c, "idle") /\ ~At(c, "changed")
    <3>1. req'[c] = Closed("error")
      BY <2>3 DEF Crash
    <3>2. req[c].pc \in Open
      BY <2>3, Requests DEF IInv, At, Steps, Open
    <3> QED
      BY <2>0, <3>1, <3>2, ClosedIsDecided DEF Pending
  <2> QED
    BY <2>1, <2>2, <2>3
<1>2. Calls' = [c \in Clients |->
                   IF Calls[c].open
                   THEN [open |-> FALSE, op |-> "none", version |-> 0, outcome |-> "error"]
                   ELSE Calls[c]]
  BY <1>1 DEF Calls
<1>3. UNCHANGED <<row, born>>
  BY DEF Crash
<1> QED
  BY <1>2, <1>3 DEF Promise!Crash, Promise!Decided, Calls, Pending, Open

LEMMA PromiseStep == IInv /\ [Next]_vars => [Promise!Next]_(Promise!vars)
<1> SUFFICES ASSUME IInv, [Next]_vars
             PROVE  Promise!Next \/ UNCHANGED <<row, born, Calls>>
  BY DEF Promise!vars, Calls, Pending, Open
<1>1. ASSUME NEW c \in Clients, Insert(c) PROVE Promise!Next
  BY <1>1, InsertKept DEF Promise!Next
<1>2. ASSUME NEW c \in Clients, NEW op \in Changes, Begin(c, op) PROVE Promise!Next
  BY <1>2, BeginKept DEF Promise!Next, Promise!Changes, Changes
<1>3. ASSUME NEW c \in Clients, Write(c) PROVE Promise!Next
  BY <1>3, WriteKept DEF Promise!Next
<1>4. ASSUME NEW c \in Clients, WriteFails(c) \/ Probe(c) PROVE Promise!Next
  BY <1>4, AnswerKept DEF Promise!Next
<1>5. ASSUME NEW c \in Clients, Get(c) \/ ReadBefore(c) \/ WriteMisses(c) \/ Audit(c)
      PROVE  UNCHANGED <<row, born, Calls>>
  BY <1>5, Hidden
<1>6. CASE GraphqlUpdate \/ GraphqlDelete
  <2>1. Calls' = Calls
    BY <1>6 DEF GraphqlUpdate, GraphqlDelete, Calls, Pending
  <2>2. row.there /\ row' \in {Bumped(row.deleted), NoRow} /\ born' = born
    BY <1>6 DEF GraphqlUpdate, GraphqlDelete
  <2> QED
    BY <2>1, <2>2 DEF Promise!Next, Promise!Other, Promise!Bumped, Promise!NoRow, Bumped, NoRow,
       Calls, Pending, Open
<1>7. CASE Crash
  BY <1>7, CrashKept DEF Promise!Next
<1>8. CASE UNCHANGED vars
  BY <1>8 DEF vars, Calls, Pending
<1> QED
  BY <1>1, <1>2, <1>3, <1>4, <1>5, <1>6, <1>7, <1>8 DEF Next

\* The gateway keeps its promise: a conditional change that takes several statements is one change of
\* VersionedRow, made at one instant on the version its caller named, or refused at one at which it
\* was out of date (crud.rs update, soft_delete and restore, with probe_outcome).
THEOREM RowsImplement == Spec => Implements
<1>1. Init => IInv /\ Promise!Init
  BY Init0, PromiseInit
<1>2. IInv /\ [Next]_vars => IInv'
  BY IInvStep
<1>3. IInv /\ [Next]_vars => [Promise!Next]_(Promise!vars)
  BY PromiseStep
<1> QED
  BY <1>1, <1>2, <1>3, PTL DEF Spec, Implements, Promise!Spec

-----------------------------------------------------------------------------
(* DataverseMigration.  Two facts carry the invariant: while no count was   *)
(* miscounted the rows of a table are the first of SQLite in their order,   *)
(* and a run copies into a table it has counted as empty; and the role, the *)
(* database, the password and the secret have their place at each step.     *)

RunSteps ==
    {"idle", "exists", "createRole", "grant", "createDb", "grantDb", "init", "alter", "save", "engine",
     "create", "list", "count", "copy", "validate", "dropDb", "dropRole", "forget"}
RunRecords ==
    [pc : RunSteps, outcome : {"none", "ok", "error"}, dry : BOOLEAN, save : BOOLEAN,
     adopted : BOOLEAN, todo : SUBSET Tables, table : Tables \cup {NoTable}, next : Nat,
     expected : [Tables -> Nat]]

\* What MigrationTypeOK says, with the whole of the run, and with counts of any size.
RunTypes ==
    /\ source \in [Tables -> 0..MaxRows] /\ db \in BOOLEAN /\ role \in 0..(MaxRuns + 1)
    /\ secret \in 0..(MaxRuns + 1)
    /\ listed \subseteq made /\ made \subseteq Tables
    /\ pg \in [Tables -> Seq(1..MaxRows)] /\ added \in [Tables -> 0..MaxAdded]
    /\ run \in RunRecords
    /\ runs \in 0..MaxRuns /\ breaks \in 0..MaxBreaks
    /\ stranded \in BOOLEAN /\ cut \in BOOLEAN /\ blind \in BOOLEAN
    /\ run.pc \in {"copy", "list"} => run.table \in run.todo
    /\ run.pc = "list" => run.table \in made
    /\ run.pc = "copy" => run.next > 0
    /\ run.pc # "idle" => run.outcome # "ok" /\ runs > 0

\* The rows of a table are the first of SQLite, in their order.
InOrder ==
    ~blind => \A t \in Tables : Len(pg[t]) <= source[t] /\ pg[t] = [i \in 1..Len(pg[t]) |-> i]

\* A copy goes on where the table ends.
CopyStands ==
    run.pc = "copy" =>
        /\ run.next \in 1..(source[run.table] + 1)
        /\ ~blind => Len(pg[run.table]) = run.next - 1

\* What is validated is the count of SQLite.
Expects ==
    /\ run.pc \in {"count", "copy"} =>
            \A t \in Tables : t \notin run.todo => run.expected[t] = source[t]
    /\ run.pc = "validate" => \A t \in Tables : run.expected[t] = source[t]

Full(t) == added[t] = 0 => Len(pg[t]) = source[t]

\* A table that was validated stays as full as SQLite.
Validated ==
    /\ run.pc = "validate" => \A t \in Tables : t \notin run.todo => Full(t)
    /\ run.outcome = "ok" => \A t \in Tables : Full(t)

\* Where the role and the database stand at each step.
Paired ==
    ~stranded =>
        /\ run.pc \in {"idle", "exists", "forget"} => (db <=> role # 0)
        /\ run.pc = "createRole" => ~db /\ role = 0
        /\ run.pc \in {"grant", "createDb"} => ~db /\ role # 0
        /\ run.pc = "dropRole" => role # 0
        /\ run.pc \notin {"idle", "exists", "forget", "createRole", "grant", "createDb", "dropRole"} =>
                db /\ role # 0

\* Where the password and the secret stand at each step.
Opens ==
    /\ run.pc \in {"createRole", "grant", "createDb"} => ~db
    /\ run.pc \in {"grant", "createDb", "grantDb", "init", "save"} => role = Password
    /\ (~cut /\ db /\ run.pc \notin {"grantDb", "init", "save", "forget"}) => secret = role

MigrationInv ==
    RunTypes /\ InOrder /\ CopyStands /\ Expects /\ Validated /\ Paired /\ Opens

-----------------------------------------------------------------------------
LEMMA EndTypes ==
    ASSUME NEW o \in {"none", "ok", "error"}, EndRun(o)
    PROVE  run' \in RunRecords /\ run'.pc = "idle" /\ run'.outcome = o /\ run'.todo = {}
BY DEF EndRun, NoRun, RunRecords, RunSteps, NoTable

LEMMA ProceedTypes ==
    ASSUME NEW step \in RunSteps, run \in RunRecords, Proceed(step)
    PROVE  /\ run' \in RunRecords /\ run'.pc = step
           /\ run'.todo = run.todo /\ run'.outcome = run.outcome /\ run'.table = run.table
           /\ run'.expected = run.expected /\ run'.next = run.next
BY DEF Proceed, RunRecords

LEMMA NoRowsType == NoRows \in [Tables -> Seq(1..MaxRows)]
BY EmptySeq DEF NoRows

LEMMA RunTypesNext ==
    ASSUME RunTypes, MigrationNext
    PROVE  RunTypes'
<1> USE MigrationAssumption
<1> DEFINE Others ==
        /\ source' = source /\ db' \in BOOLEAN /\ role' \in 0..(MaxRuns + 1)
        /\ secret' \in 0..(MaxRuns + 1)
        /\ listed' \subseteq made' /\ made' \subseteq Tables
        /\ pg' \in [Tables -> Seq(1..MaxRows)] /\ added' \in [Tables -> 0..MaxAdded]
        /\ runs' \in 0..MaxRuns /\ breaks' \in 0..MaxBreaks
        /\ stranded' \in BOOLEAN /\ cut' \in BOOLEAN /\ blind' \in BOOLEAN
        /\ runs' >= runs
<1> DEFINE Moves ==
        /\ run' \in RunRecords
        /\ run'.pc \in {"copy", "list"} => run'.table \in run'.todo
        /\ run'.pc = "list" => run'.table \in made'
        /\ run'.pc = "copy" => run'.next > 0
        /\ run'.pc # "idle" => run'.outcome # "ok" /\ runs' > 0
<1>a. Others /\ Moves => RunTypes'
  BY DEF RunTypes
<1>b. runs \in Nat
  BY DEF RunTypes
<1>1. ASSUME NEW dry \in BOOLEAN, NEW save \in BOOLEAN, StartRun(dry, save)
      PROVE  RunTypes'
  <2>1. Others
    BY <1>1 DEF StartRun, RunTypes, postgres, history
  <2>2. run' = [pc |-> "exists", outcome |-> "none", dry |-> dry, save |-> save, adopted |-> FALSE,
                todo |-> {}, table |-> NoTable, next |-> 0, expected |-> [t \in Tables |-> 0]]
    BY <1>1 DEF StartRun, NoRun
  <2>3. run' \in RunRecords
    BY <2>2 DEF RunRecords, RunSteps
  <2>4. runs' > 0
    BY <1>1, <1>b DEF StartRun
  <2>5. Moves
    BY <2>2, <2>3, <2>4
  <2> QED  BY <1>a, <2>1, <2>5
<1>2. CASE HasDatabase
  <2>1. Others
    BY <1>2 DEF HasDatabase, RunTypes, postgres, history
  <2>2. run \in RunRecords /\ db \in BOOLEAN
    BY DEF RunTypes
  <2>3. Moves
    BY <1>2, <2>2 DEF HasDatabase, RunRecords, RunSteps, Doing, RunTypes
  <2> QED  BY <1>a, <2>1, <2>3
<1>3. CASE CreateRole \/ AlterRole
  <2>1. Others
    BY <1>3 DEF CreateRole, AlterRole, Password, RunTypes, postgres, history
  <2>3. Moves
    BY <1>3, EndTypes, ProceedTypes DEF CreateRole, AlterRole, RunSteps, RunTypes, Doing
  <2> QED  BY <1>a, <2>1, <2>3
<1>4. CASE GrantMembership \/ CreateDatabase \/ GrantDatabase \/ InitMetadata \/ SaveSecret
  <2>0. cut' \in BOOLEAN
    BY <1>4, Zenon DEF GrantMembership, CreateDatabase, GrantDatabase, InitMetadata, SaveSecret, RunTypes, history
  <2>1. Others
    <3>1. CASE CreateDatabase
      BY <3>1, NoRowsType DEF CreateDatabase, RunTypes, history
    <3>2. CASE GrantMembership \/ GrantDatabase \/ InitMetadata \/ SaveSecret
      BY <3>2, <2>0
      DEF GrantMembership, GrantDatabase, InitMetadata, SaveSecret, Password, RunTypes, postgres, history
    <3> QED  BY <1>4, <3>1, <3>2
  <2>3. Moves
    BY <1>4, ProceedTypes
    DEF GrantMembership, CreateDatabase, GrantDatabase, InitMetadata, SaveSecret, RunSteps, RunTypes, Doing
  <2> QED  BY <1>a, <2>1, <2>3
<1>5. CASE RollBack \/ Breaks
  <2>0. stranded' \in BOOLEAN /\ cut' \in BOOLEAN
    BY <1>5, Zenon DEF RollBack, Breaks, RunTypes
  <2>1. Others
    BY <1>5, <2>0 DEF RollBack, Breaks, RunTypes, postgres, Breaking
  <2>3. Moves
    BY <1>5, EndTypes DEF RollBack, Breaks
  <2> QED  BY <1>a, <2>1, <2>3
<1>6. CASE ListTables \/ AllCreated \/ AllCopied
  <2>1. Others
    BY <1>6 DEF ListTables, AllCreated, AllCopied, RunTypes, postgres, history, Breaking
  <2>2. PICK step \in RunSteps, s \in SUBSET Tables :
            step \notin {"copy", "list"} /\ run' = [run EXCEPT !.pc = step, !.todo = s]
    BY <1>6 DEF ListTables, AllCreated, AllCopied, RunSteps
  <2>3. Moves
    BY <1>6, <2>1, <2>2 DEF ListTables, AllCreated, AllCopied, RunRecords, RunTypes, Doing
  <2> QED  BY <1>a, <2>1, <2>3
<1>7. CASE ListTable
  <2>0. run.table \in Tables /\ run \in RunRecords /\ listed \subseteq made
    BY <1>7 DEF ListTable, RunTypes, RunRecords, Doing
  <2>2. run.table \in made
    BY <1>7 DEF ListTable, RunTypes, Doing
  <2>1. Others
    BY <1>7, <2>0, <2>2 DEF ListTable, RunTypes, history
  <2>3. Moves
    BY <1>7, <2>0, <2>1 DEF ListTable, RunRecords, RunSteps, RunTypes, Doing
  <2> QED  BY <1>a, <2>1, <2>3
<1>8. CASE CopyBatch
  <2>0. run \in RunRecords /\ run.table \in Tables /\ run.pc = "copy" /\ run.table \in run.todo
        /\ source[run.table] \in 0..MaxRows /\ run.next \in Nat \ {0}
        /\ runs > 0 /\ runs' = runs /\ run.outcome # "ok"
    BY <1>8 DEF CopyBatch, RunTypes, RunRecords, Doing
  <2>1. CASE run.next <= source[run.table]
    <3>1. pg' = [pg EXCEPT ![run.table] = Append(@, run.next)] /\ run' = [run EXCEPT !.next = run.next + 1]
      BY <1>8, <2>1 DEF CopyBatch
    <3>2. run.next \in 1..MaxRows /\ pg[run.table] \in Seq(1..MaxRows)
      BY <2>0, <2>1 DEF RunTypes
    <3>2b. pg' \in [Tables -> Seq(1..MaxRows)]
      BY <3>1, <3>2, <2>0, AppendProperties DEF RunTypes
    <3>2c. UNCHANGED <<source, role, db, made, listed, added, secret, runs, breaks, stranded, cut, blind>>
      BY <1>8 DEF CopyBatch, history
    <3>3. Others
      BY <3>2b, <3>2c DEF RunTypes
    <3>4. run' \in RunRecords /\ run'.pc = "copy" /\ run'.table \in run'.todo
          /\ run'.outcome = run.outcome /\ run'.next = run.next + 1
      BY <2>0, <3>1 DEF RunRecords
    <3>5. Moves
      BY <2>0, <3>4
    <3> QED  BY <1>a, <3>3, <3>5
  <2>2. CASE ~(run.next <= source[run.table])
    <3>1. Others
      BY <1>8, <2>2 DEF CopyBatch, RunTypes, history
    <3>2. run' = [run EXCEPT !.pc = "count", !.todo = @ \ {run.table}, !.table = NoTable, !.next = 0,
                             !.expected[run.table] = source[run.table]]
      BY <1>8, <2>2 DEF CopyBatch
    <3>3. source[run.table] \in Nat /\ run.expected \in [Tables -> Nat]
      BY <2>0 DEF RunRecords
    <3>4. run' \in RunRecords /\ run'.pc = "count" /\ run'.outcome = run.outcome
      BY <2>0, <3>2, <3>3 DEF RunRecords, RunSteps
    <3>5. Moves
      BY <2>0, <3>4
    <3> QED  BY <1>a, <3>1, <3>5
  <2> QED  BY <2>1, <2>2
<1>9. CASE Report
  <2>1. Others
    BY <1>9 DEF Report, RunTypes, postgres, history
  <2>3. Moves
    BY <1>9, EndTypes, ProceedTypes DEF Report, RunSteps, RunTypes, Doing
  <2> QED  BY <1>a, <2>1, <2>3
<1>10. CASE DropDatabase \/ DropRole \/ ForgetSecret
  <2>0. stranded' \in BOOLEAN /\ cut' \in BOOLEAN
    BY <1>10, Zenon DEF DropDatabase, DropRole, ForgetSecret, RunTypes, history
  <2>1. Others
    <3>1. CASE DropDatabase
      <4>1. pg' \in [Tables -> Seq(1..MaxRows)] /\ added' \in [Tables -> 0..MaxAdded]
        BY <3>1, NoRowsType DEF DropDatabase, RunTypes
      <4>2. db' \in BOOLEAN /\ listed' \subseteq made' /\ made' \subseteq Tables
        BY <3>1 DEF DropDatabase, RunTypes
      <4>3. breaks' \in 0..MaxBreaks
        BY <3>1 DEF DropDatabase, RunTypes, Breaking
      <4> QED  BY <3>1, <4>1, <4>2, <4>3 DEF DropDatabase, RunTypes
    <3>2. CASE DropRole \/ ForgetSecret
      BY <3>2, <2>0 DEF DropRole, ForgetSecret, RunTypes, postgres, Breaking
    <3> QED  BY <1>10, <3>1, <3>2
  <2>3. Moves
    BY <1>10, EndTypes, ProceedTypes DEF DropDatabase, DropRole, ForgetSecret, RunSteps, RunTypes, Doing
  <2> QED  BY <1>a, <2>1, <2>3
<1>11. ASSUME NEW t \in Tables, CreateTable(t)
       PROVE  RunTypes'
  <2>0. run \in RunRecords /\ run.pc = "create" /\ run.outcome # "ok" /\ runs > 0
    BY <1>11 DEF CreateTable, RunTypes, Doing
  <2>1. Others
    BY <1>11 DEF CreateTable, RunTypes, postgres, history
  <2>3. CASE t \in made
    BY <1>a, <1>11, <2>1, <2>3, EndTypes DEF CreateTable
  <2>4. CASE t \notin made
    <3>1. run' = [run EXCEPT !.pc = "list", !.table = t] /\ t \in run.todo
      BY <1>11, <2>4 DEF CreateTable
    <3>2. run' \in RunRecords /\ run'.pc = "list" /\ run'.table = t /\ run'.todo = run.todo
          /\ run'.outcome = run.outcome
      BY <2>0, <3>1 DEF RunRecords, RunSteps
    <3>3. t \in made' /\ runs' = runs
      BY <1>11, <2>4 DEF CreateTable
    <3>4. Moves
      BY <2>0, <3>1, <3>2, <3>3
    <3> QED  BY <1>a, <2>1, <3>4
  <2> QED  BY <2>3, <2>4
<1>12. ASSUME NEW t \in Tables, CountTable(t)
       PROVE  RunTypes'
  <2>0. run \in RunRecords /\ run.outcome # "ok" /\ runs > 0 /\ Count(t) \in Nat /\ t \in run.todo
    BY <1>12 DEF CountTable, RunTypes, Doing, Count
  <2>1. blind' \in BOOLEAN
    BY <1>12, Zenon DEF CountTable, RunTypes
  <2>2. Others
    BY <1>12, <2>1 DEF CountTable, RunTypes, postgres, Breaking
  <2>3. PICK n \in Nat : Settle(t, n)
    BY <1>12, <2>0 DEF CountTable
  <2>3a. runs' = runs
    BY <1>12 DEF CountTable
  <2>4. CASE n = source[t] /\ n > 0
    <3>1. run' = [run EXCEPT !.todo = @ \ {t}, !.expected[t] = n] /\ run.pc = "count"
      BY <1>12, <2>3, <2>4 DEF Settle, CountTable, Doing
    <3>2. run' \in RunRecords /\ run'.pc = "count" /\ run'.outcome = run.outcome
      BY <2>0, <3>1 DEF RunRecords
    <3>3. Moves
      BY <2>0, <2>3a, <3>2
    <3> QED  BY <1>a, <2>2, <3>3
  <2>5. CASE n > 0 /\ n # source[t]
    <3>1. EndRun("error")
      BY <2>3, <2>5 DEF Settle, EndRun
    <3> QED  BY <1>a, <2>2, <3>1, EndTypes
  <2>6. CASE ~(n > 0)
    <3>1. run' = [run EXCEPT !.pc = "copy", !.table = t, !.next = 1]
      BY <2>3, <2>6 DEF Settle
    <3>2. run' \in RunRecords /\ run'.pc = "copy" /\ run'.table = t /\ run'.todo = run.todo
          /\ run'.outcome = run.outcome /\ run'.next = 1
      BY <2>0, <3>1 DEF RunRecords, RunSteps
    <3>3. Moves
      BY <2>0, <2>3a, <3>2
    <3> QED  BY <1>a, <2>2, <3>3
  <2> QED  BY <2>4, <2>5, <2>6
<1>13. ASSUME NEW t \in Tables, Validate(t)
       PROVE  RunTypes'
  <2>1. Others
    BY <1>13 DEF Validate, RunTypes, postgres, history
  <2>2. run \in RunRecords /\ run.pc = "validate" /\ run.outcome # "ok" /\ runs > 0
    BY <1>13 DEF Validate, RunTypes, Doing
  <2>3. CASE EndRun("error")
    BY <1>a, <2>1, <2>3, EndTypes
  <2>4. CASE run' = [run EXCEPT !.todo = @ \ {t}]
    <3>2. run' \in RunRecords /\ run'.pc = "validate" /\ run'.outcome = run.outcome
      BY <2>2, <2>4 DEF RunRecords
    <3>3. runs' = runs
      BY <1>13 DEF Validate
    <3>1. Moves
      BY <2>2, <3>2, <3>3
    <3> QED  BY <1>a, <2>1, <3>1
  <2> QED  BY <1>13, <2>3, <2>4 DEF Validate
<1>14. ASSUME NEW t \in Tables, AddRow(t)
       PROVE  RunTypes'
  BY <1>14 DEF AddRow, RunTypes, history
<1> QED
  BY <1>1, <1>2, <1>3, <1>4, <1>5, <1>6, <1>7, <1>8, <1>9, <1>10, <1>11, <1>12, <1>13, <1>14,
     MigrationNext DEF MigrationNext

\* The actions that leave the rows, the table that is copied and what has been counted alone.
Aside ==
    \/ \E dry, save \in BOOLEAN : StartRun(dry, save)
    \/ HasDatabase \/ CreateRole \/ GrantMembership \/ RollBack \/ GrantDatabase \/ InitMetadata
    \/ AlterRole \/ SaveSecret \/ ListTables \/ ListTable \/ DropRole \/ ForgetSecret \/ Breaks
    \/ \E t \in Tables : CreateTable(t)

LEMMA AsideKeeps ==
    ASSUME RunTypes, Aside
    PROVE  /\ UNCHANGED <<source, pg, added, blind>>
           /\ run'.pc \notin {"count", "copy", "validate"} /\ run'.outcome # "ok"
<1> USE DEF history, postgres, RunTypes
<1>1. ASSUME NEW dry \in BOOLEAN, NEW save \in BOOLEAN, StartRun(dry, save)
      PROVE  run'.pc \notin {"count", "copy", "validate"} /\ run'.outcome # "ok"
  BY <1>1 DEF StartRun, NoRun
<1>2. CASE HasDatabase \/ ListTables \/ ListTable
  BY <1>2 DEF HasDatabase, ListTables, ListTable, RunRecords, Doing
<1>3. CASE CreateRole \/ GrantMembership \/ RollBack \/ GrantDatabase \/ InitMetadata
           \/ AlterRole \/ SaveSecret \/ DropRole \/ ForgetSecret \/ Breaks
  BY <1>3, EndTypes, ProceedTypes
     DEF CreateRole, GrantMembership, RollBack, GrantDatabase, InitMetadata, AlterRole, SaveSecret,
         DropRole, ForgetSecret, Breaks, RunSteps, Doing
<1>4. ASSUME NEW t \in Tables, CreateTable(t)
      PROVE  run'.pc \notin {"count", "copy", "validate"} /\ run'.outcome # "ok"
  BY <1>4, EndTypes DEF CreateTable, RunRecords, Doing
<1>5. UNCHANGED <<source, pg, added, blind>>
  BY DEF Aside, StartRun, HasDatabase, CreateRole, GrantMembership, RollBack, GrantDatabase,
         InitMetadata, AlterRole, SaveSecret, ListTables, ListTable, DropRole, ForgetSecret, Breaks, CreateTable
<1> QED  BY <1>1, <1>2, <1>3, <1>4, <1>5 DEF Aside

LEMMA InOrderNext ==
    ASSUME RunTypes, InOrder, CopyStands, MigrationNext
    PROVE  InOrder'
<1> USE DEF InOrder
<1>1. CASE Aside
  BY <1>1, AsideKeeps
<1>2. CASE CreateDatabase \/ DropDatabase
  <2>1. source' = source /\ blind' = blind /\ pg' \in {pg, NoRows}
    BY <1>2 DEF CreateDatabase, DropDatabase, history
  <2>2. \A t \in Tables : NoRows[t] = <<>>
    BY DEF NoRows
  <2>4. \A t \in Tables : source[t] \in Nat
    <3> 0..MaxRows \subseteq Nat
      BY MigrationAssumption
    <3> QED  BY Zenon DEF RunTypes
  <2>3. Len(<<>>) = 0 /\ <<>> = [i \in 1..0 |-> i]
    OBVIOUS
  <2> QED  BY <2>1, <2>2, <2>3, <2>4
<1>3. CASE CopyBatch
  <2> DEFINE t == run.table
  <2>0. t \in Tables /\ source' = source /\ blind' = blind /\ run.next \in Nat /\ source[t] \in Nat
        /\ pg \in [Tables -> Seq(1..MaxRows)] /\ run.pc = "copy"
    BY <1>3, MigrationAssumption DEF CopyBatch, RunTypes, RunRecords, history, Doing
  <2>1. CASE pg' = pg
    BY <2>0, <2>1
  <2>2. CASE run.next <= source[t] /\ pg' = [pg EXCEPT ![t] = Append(@, run.next)]
    <3> SUFFICES ASSUME ~blind
                 PROVE  Len(pg'[t]) <= source[t] /\ pg'[t] = [i \in 1..Len(pg'[t]) |-> i]
      BY <2>0, <2>2
    <3>1. Len(pg[t]) = run.next - 1 /\ pg[t] = [i \in 1..Len(pg[t]) |-> i] /\ pg[t] \in Seq(1..MaxRows)
      BY <2>0 DEF CopyStands
    <3>2. pg'[t] = Append(pg[t], run.next)
      BY <2>0, <2>2
    <3>3. Len(pg'[t]) = run.next /\ pg'[t] = [i \in 1..run.next |-> i]
      BY <2>0, <3>1, <3>2
    <3> QED  BY <2>2, <3>3
  <2> QED  BY <1>3, <2>1, <2>2 DEF CopyBatch
<1>4. CASE AllCreated \/ AllCopied \/ Report
  BY <1>4 DEF AllCreated, AllCopied, Report, postgres, history
<1>5. ASSUME NEW t \in Tables, CountTable(t) \/ Validate(t) \/ AddRow(t)
      PROVE  InOrder'
  <2>1. UNCHANGED <<pg, source>>
    BY <1>5 DEF CountTable, Validate, AddRow, postgres
  <2>2. blind => blind'
    BY <1>5, Zenon DEF CountTable, Validate, AddRow, history
  <2> QED  BY <2>1, <2>2
<1> QED  BY <1>1, <1>2, <1>3, <1>4, <1>5, MigrationNext DEF MigrationNext, Aside

LEMMA CopyStandsNext ==
    ASSUME RunTypes, CopyStands, MigrationNext
    PROVE  CopyStands'
<1> USE DEF CopyStands
<1>1. CASE Aside
  BY <1>1, AsideKeeps
<1>2. CASE CreateDatabase \/ DropDatabase \/ AllCreated \/ AllCopied \/ Report
  BY <1>2, EndTypes, ProceedTypes
     DEF CreateDatabase, DropDatabase, AllCreated, AllCopied, Report, RunTypes, RunSteps, RunRecords, Doing
<1>3. CASE CopyBatch
  <2> DEFINE t == run.table
  <2>0. t \in Tables /\ source' = source /\ blind' = blind /\ run.next \in Nat /\ source[t] \in Nat
        /\ pg \in [Tables -> Seq(1..MaxRows)] /\ run.pc = "copy" /\ run \in RunRecords
    BY <1>3, MigrationAssumption DEF CopyBatch, RunTypes, RunRecords, history, Doing
  <2>1. CASE run.next <= source[t]
    <3>1. pg' = [pg EXCEPT ![t] = Append(@, run.next)] /\ run' = [run EXCEPT !.next = run.next + 1]
      BY <1>3, <2>1 DEF CopyBatch
    <3>2. run'.table = t /\ run'.next = run.next + 1
      BY <2>0, <3>1 DEF RunRecords
    <3>3. Len(pg'[t]) = Len(pg[t]) + 1
      BY <2>0, <3>1
    <3> QED  BY <2>0, <2>1, <3>2, <3>3
  <2>2. CASE ~(run.next <= source[t])
    BY <1>3, <2>0, <2>2 DEF CopyBatch, RunRecords
  <2> QED  BY <2>1, <2>2
<1>4. ASSUME NEW t \in Tables, CountTable(t)
      PROVE  CopyStands'
  <2>0. run \in RunRecords /\ run.pc = "count" /\ source' = source /\ pg' = pg /\ source[t] \in Nat
        /\ added[t] \in Nat /\ Len(pg[t]) \in Nat /\ Count(t) = added[t] + Len(pg[t])
    BY <1>4, MigrationAssumption DEF CountTable, RunTypes, postgres, Doing, Count
  <2>1. CASE run'.pc # "copy"
    BY <2>1
  <2>2. CASE run'.pc = "copy"
    <3>1. PICK n \in Nat : Settle(t, n) /\ (~blind' => n = Count(t))
      <4>1. CASE Settle(t, Count(t))
        BY <2>0, <4>1
      <4>2. CASE Settle(t, 0) /\ blind' = (blind \/ Count(t) > 0)
        <5>1. ~blind' => ~(Count(t) > 0)
          BY <4>2, Zenon
        <5> QED  BY <2>0, <4>2, <5>1
      <4> QED  BY <1>4, <4>1, <4>2 DEF CountTable
    <3>2. n = 0 /\ run' = [run EXCEPT !.pc = "copy", !.table = t, !.next = 1]
      BY <2>0, <2>2, <3>1 DEF Settle, NoRun, RunRecords
    <3>3. run'.table = t /\ run'.next = 1
      BY <2>0, <3>2 DEF RunRecords
    <3> QED  BY <2>0, <3>1, <3>2, <3>3
  <2> QED  BY <2>1, <2>2
<1>5. ASSUME NEW t \in Tables, Validate(t) \/ AddRow(t)
      PROVE  CopyStands'
  BY <1>5, EndTypes DEF Validate, AddRow, RunTypes, RunRecords, Doing, postgres, history
<1> QED  BY <1>1, <1>2, <1>3, <1>4, <1>5, MigrationNext DEF MigrationNext, Aside

LEMMA ExpectsNext ==
    ASSUME RunTypes, Expects, MigrationNext
    PROVE  Expects'
<1> USE DEF Expects
<1>1. CASE Aside
  BY <1>1, AsideKeeps
<1>2. CASE CreateDatabase \/ DropDatabase \/ AllCreated \/ AllCopied \/ Report
  BY <1>2, EndTypes, ProceedTypes
     DEF CreateDatabase, DropDatabase, AllCreated, AllCopied, Report, RunTypes, RunSteps, RunRecords, Doing
<1>3. CASE CopyBatch
  <2>0. run.pc = "copy" /\ run \in RunRecords /\ source' = source /\ run.expected \in [Tables -> Nat]
    BY <1>3 DEF CopyBatch, RunTypes, RunRecords, Doing
  <2>1. CASE run' = [run EXCEPT !.next = run.next + 1]
    BY <2>0, <2>1 DEF RunRecords
  <2>2. CASE run' = [run EXCEPT !.pc = "count", !.todo = @ \ {run.table}, !.table = NoTable, !.next = 0,
                                !.expected[run.table] = source[run.table]]
    <3>1. run'.pc = "count" /\ run'.todo = run.todo \ {run.table}
          /\ run'.expected = [run.expected EXCEPT ![run.table] = source[run.table]]
      BY <2>0, <2>2 DEF RunRecords
    <3> QED  BY <2>0, <3>1
  <2> QED  BY <1>3, <2>1, <2>2 DEF CopyBatch
<1>4. ASSUME NEW t \in Tables, CountTable(t)
      PROVE  Expects'
  <2>0. run.pc = "count" /\ run \in RunRecords /\ source' = source /\ run.expected \in [Tables -> Nat]
    BY <1>4 DEF CountTable, RunTypes, RunRecords, Doing
  <2>1. PICK n : Settle(t, n)
    BY <1>4 DEF CountTable
  <2>2. CASE n = source[t] /\ n > 0
    <3>1. run' = [run EXCEPT !.todo = @ \ {t}, !.expected[t] = n]
      BY <2>1, <2>2 DEF Settle
    <3>2. run'.pc = "count" /\ run'.todo = run.todo \ {t} /\ run'.expected = [run.expected EXCEPT ![t] = n]
      BY <2>0, <3>1 DEF RunRecords
    <3> QED  BY <2>0, <2>2, <3>2
  <2>3. CASE n > 0 /\ n # source[t]
    BY <2>1, <2>3 DEF Settle, NoRun
  <2>4. CASE ~(n > 0)
    <3>1. run' = [run EXCEPT !.pc = "copy", !.table = t, !.next = 1]
      BY <2>1, <2>4 DEF Settle
    <3>2. run'.pc = "copy" /\ run'.todo = run.todo /\ run'.expected = run.expected
      BY <2>0, <3>1 DEF RunRecords
    <3> QED  BY <2>0, <3>2
  <2> QED  BY <2>2, <2>3, <2>4
<1>5. ASSUME NEW t \in Tables, Validate(t) \/ AddRow(t)
      PROVE  Expects'
  BY <1>5, EndTypes DEF Validate, AddRow, RunTypes, RunRecords, Doing, postgres, history
<1> QED  BY <1>1, <1>2, <1>3, <1>4, <1>5, MigrationNext DEF MigrationNext, Aside

LEMMA ValidatedNext ==
    ASSUME RunTypes, Expects, Validated, MigrationNext
    PROVE  Validated'
<1> USE DEF Validated
<1>1. CASE Aside
  BY <1>1, AsideKeeps
<1>2. CASE CreateDatabase \/ DropDatabase \/ AllCreated
  BY <1>2, ProceedTypes DEF CreateDatabase, DropDatabase, AllCreated, RunTypes, RunSteps, RunRecords, Doing
<1>3. CASE AllCopied
  <2>1. run'.pc = "validate" /\ run'.todo = Tables /\ run'.outcome # "ok"
    BY <1>3 DEF AllCopied, RunTypes, RunRecords, Doing
  <2> QED  BY <2>1
<1>4. CASE Report
  BY <1>4, EndTypes, ProceedTypes DEF Report, RunTypes, RunSteps, Doing, Full, postgres
<1>5. CASE CopyBatch
  <2>1. run'.pc # "validate" /\ run'.outcome # "ok"
    BY <1>5 DEF CopyBatch, RunTypes, RunRecords, Doing
  <2> QED  BY <2>1
<1>6. ASSUME NEW t \in Tables, CountTable(t)
      PROVE  Validated'
  <2>1. run'.pc # "validate" /\ run'.outcome # "ok"
    BY <1>6 DEF CountTable, Settle, NoRun, RunTypes, RunRecords, Doing
  <2> QED  BY <2>1
<1>7. ASSUME NEW t \in Tables, Validate(t)
      PROVE  Validated'
  <2>0. UNCHANGED <<source, pg, added>> /\ run.pc = "validate" /\ run.outcome # "ok" /\ run \in RunRecords
    BY <1>7 DEF Validate, postgres, RunTypes, Doing
  <2>1. CASE EndRun("error")
    BY <2>1, EndTypes
  <2>2. CASE Count(t) = run.expected[t] /\ run' = [run EXCEPT !.todo = @ \ {t}]
    <3>1. Count(t) = source[t]
      BY <2>0, <2>2 DEF Expects
    <3>2. Full(t)
      BY <3>1 DEF Full, Count, RunTypes
    <3>3. run'.todo = run.todo \ {t} /\ run'.outcome # "ok"
      BY <2>0, <2>2 DEF RunRecords
    <3>4. \A u \in Tables : Full(u) => Full(u)'
      BY <2>0 DEF Full
    <3> QED  BY <2>0, <3>2, <3>3, <3>4
  <2> QED  BY <1>7, <2>1, <2>2 DEF Validate
<1>8. ASSUME NEW t \in Tables, AddRow(t)
      PROVE  Validated'
  <2>1. UNCHANGED <<source, pg, run>> /\ added' = [added EXCEPT ![t] = @ + 1]
        /\ added \in [Tables -> 0..MaxAdded]
    BY <1>8 DEF AddRow, RunTypes
  <2>2. \A u \in Tables : Full(u) => Full(u)'
    BY <2>1 DEF Full
  <2> QED  BY <2>1, <2>2
<1> QED  BY <1>1, <1>2, <1>3, <1>4, <1>5, <1>6, <1>7, <1>8, MigrationNext DEF MigrationNext, Aside

LEMMA PairedNext ==
    ASSUME RunTypes, Paired, MigrationNext
    PROVE  Paired'
<1> USE DEF Paired
<1>1. ASSUME NEW dry \in BOOLEAN, NEW save \in BOOLEAN, StartRun(dry, save)
      PROVE  Paired'
  BY <1>1 DEF StartRun, NoRun, Doing, postgres, history
<1>2. CASE HasDatabase
  <2>1. run'.pc = IF db THEN "alter" ELSE "createRole"
    BY <1>2 DEF HasDatabase, RunTypes, RunRecords
  <2> QED  BY <1>2, <2>1 DEF HasDatabase, Doing, postgres, history
<1>2a. CASE CreateRole \/ AlterRole
  <2>0. UNCHANGED <<db, stranded>> /\ run \in RunRecords
    BY <1>2a DEF CreateRole, AlterRole, RunTypes, history
  <2>1. CASE EndRun("error") /\ role' = role
    BY <1>2a, <2>0, <2>1, EndTypes DEF CreateRole, AlterRole, Doing
  <2>2. CASE CreateRole /\ role' # 0 /\ Proceed("grant")
    BY <2>0, <2>2, ProceedTypes DEF CreateRole, RunSteps, Doing
  <2>3. CASE AlterRole /\ role' # 0 /\ Proceed("save")
    BY <2>0, <2>3, ProceedTypes DEF AlterRole, RunSteps, Doing
  <2>4. Password # 0
    BY MigrationAssumption DEF Password, RunTypes
  <2> QED  BY <1>2a, <2>1, <2>2, <2>3, <2>4 DEF CreateRole, AlterRole
<1>3. CASE GrantMembership \/ CreateDatabase \/ GrantDatabase \/ InitMetadata \/ SaveSecret
  BY <1>3, ProceedTypes
     DEF GrantMembership, CreateDatabase, GrantDatabase, InitMetadata, SaveSecret, RunTypes, RunSteps,
         Doing, postgres, history
<1>4. CASE RollBack
  <2>1. run'.pc = "idle" /\ db' = db /\ run.pc \in {"grant", "createDb"}
    BY <1>4, EndTypes DEF RollBack
  <2>2. (role' = 0 /\ stranded' = stranded) \/ stranded'
    BY <1>4 DEF RollBack
  <2> QED  BY <2>1, <2>2
<1>5. CASE Breaks
  BY <1>5, EndTypes DEF Breaks, postgres, RunTypes, Doing
<1>6. CASE ListTables \/ ListTable \/ AllCreated \/ CopyBatch \/ AllCopied
  BY <1>6 DEF ListTables, ListTable, AllCreated, CopyBatch, AllCopied, RunTypes, RunRecords, Doing,
              postgres, history
<1>7. CASE Report
  BY <1>7, EndTypes, ProceedTypes DEF Report, RunTypes, RunSteps, Doing, postgres, history
<1>8. CASE DropDatabase \/ DropRole \/ ForgetSecret
  BY <1>8, EndTypes, ProceedTypes
     DEF DropDatabase, DropRole, ForgetSecret, RunTypes, RunSteps, Doing, postgres
<1>9. ASSUME NEW t \in Tables, CreateTable(t) \/ CountTable(t) \/ Validate(t)
      PROVE  Paired'
  <2>1. UNCHANGED <<role, db, stranded>>
    BY <1>9 DEF CreateTable, CountTable, Validate, postgres, history
  <2>2. run.pc \in {"create", "count", "validate"}
    BY <1>9 DEF CreateTable, CountTable, Validate, Doing
  <2>3. run'.pc \in {"list", "idle", "create", "count", "copy", "validate"}
    BY <1>9, EndTypes
       DEF CreateTable, CountTable, Validate, Settle, RunTypes, RunRecords, Doing, NoRun
  <2> QED  BY <2>1, <2>2, <2>3
<1>10. ASSUME NEW t \in Tables, AddRow(t)
      PROVE  Paired'
  BY <1>10 DEF AddRow, history
<1> QED
  BY <1>1, <1>2, <1>2a, <1>3, <1>4, <1>5, <1>6, <1>7, <1>8, <1>9, <1>10, MigrationNext DEF MigrationNext

LEMMA OpensNext ==
    ASSUME RunTypes, Opens, MigrationNext
    PROVE  Opens'
<1> USE DEF Opens
<1>1. ASSUME NEW dry \in BOOLEAN, NEW save \in BOOLEAN, StartRun(dry, save)
      PROVE  Opens'
  BY <1>1 DEF StartRun, NoRun, Doing, postgres, history
<1>2. CASE HasDatabase
  <2>1. run'.pc = IF db THEN "alter" ELSE "createRole"
    BY <1>2 DEF HasDatabase, RunTypes, RunRecords
  <2> QED  BY <1>2, <2>1 DEF HasDatabase, Doing, postgres, history
<1>3. CASE CreateRole \/ AlterRole
  <2>0. UNCHANGED <<db, cut, secret, runs>> /\ run \in RunRecords
    BY <1>3 DEF CreateRole, AlterRole, RunTypes, history
  <2>1. CASE EndRun("error") /\ role' = role
    BY <1>3, <2>0, <2>1, EndTypes DEF CreateRole, AlterRole, Doing
  <2>2. CASE CreateRole /\ role' = Password /\ Proceed("grant")
    BY <2>0, <2>2, ProceedTypes DEF CreateRole, RunSteps, Doing, Password
  <2>3. CASE AlterRole /\ role' = Password /\ Proceed("save")
    BY <2>0, <2>3, ProceedTypes DEF AlterRole, RunSteps, Doing, Password
  <2> QED  BY <1>3, <2>1, <2>2, <2>3 DEF CreateRole, AlterRole
<1>4. CASE GrantMembership \/ CreateDatabase \/ GrantDatabase \/ InitMetadata
  BY <1>4, ProceedTypes
     DEF GrantMembership, CreateDatabase, GrantDatabase, InitMetadata, RunTypes, RunSteps, Doing,
         postgres, history, Password
<1>5. CASE SaveSecret
  <2>0. run'.pc = "engine" /\ UNCHANGED <<role, db, runs>> /\ run.pc = "save"
    BY <1>5, ProceedTypes DEF SaveSecret, RunTypes, RunSteps, Doing, postgres
  <2>1. ~cut' => run.save
    BY <1>5, Zenon DEF SaveSecret
  <2>2. run.save => secret' = Password
    BY <1>5 DEF SaveSecret
  <2> QED  BY <2>0, <2>1, <2>2
<1>6. CASE RollBack
  <2>1. run'.pc = "idle" /\ db' = db /\ ~db
    BY <1>6, EndTypes DEF RollBack
  <2> QED  BY <2>1
<1>7. CASE Breaks
  <2>1. run'.pc = "idle" /\ UNCHANGED <<role, db, secret>>
    BY <1>7, EndTypes DEF Breaks, postgres
  <2>2. ~cut' => ~cut /\ ~Exposed /\ run.pc \notin {"dropRole", "forget"}
    BY <1>7, Zenon DEF Breaks
  <2> QED  BY <2>1, <2>2 DEF Exposed
<1>8. CASE ListTables \/ ListTable \/ AllCreated \/ CopyBatch \/ AllCopied
  <2>1. UNCHANGED <<role, db, secret, cut>>
    BY <1>8 DEF ListTables, ListTable, AllCreated, CopyBatch, AllCopied, postgres, history
  <2>2. run.pc \in {"engine", "list", "create", "copy", "count"}
    BY <1>8 DEF ListTables, ListTable, AllCreated, CopyBatch, AllCopied, Doing
  <2>3. run'.pc \in {"create", "count", "copy", "validate"}
    <3>1. run \in RunRecords
      BY DEF RunTypes
    <3>2. CASE CopyBatch
      BY <3>1, <3>2, <2>2 DEF CopyBatch, RunRecords, Doing
    <3>3. CASE ListTables \/ ListTable \/ AllCreated \/ AllCopied
      BY <3>1, <3>3 DEF ListTables, ListTable, AllCreated, AllCopied, RunRecords
    <3> QED  BY <1>8, <3>2, <3>3
  <2> QED  BY <2>1, <2>2, <2>3
<1>9. CASE Report
  BY <1>9, EndTypes, ProceedTypes DEF Report, RunTypes, RunSteps, Doing, postgres, history
<1>10. CASE DropDatabase
  BY <1>10, ProceedTypes DEF DropDatabase, RunTypes, RunSteps, Doing
<1>11. CASE DropRole
  BY <1>11, ProceedTypes DEF DropRole, RunTypes, RunSteps, Doing
<1>12. CASE ForgetSecret
  <2>1. run'.pc = "idle" /\ db' = db
    BY <1>12, EndTypes DEF ForgetSecret, postgres
  <2>2. ~cut' => ~db
    BY <1>12, Zenon DEF ForgetSecret
  <2> QED  BY <2>1, <2>2
<1>13. ASSUME NEW t \in Tables, CreateTable(t) \/ CountTable(t) \/ Validate(t)
      PROVE  Opens'
  <2>1. UNCHANGED <<role, db, secret, cut>>
    BY <1>13 DEF CreateTable, CountTable, Validate, postgres, history
  <2>2. run.pc \in {"create", "count", "validate"}
    BY <1>13 DEF CreateTable, CountTable, Validate, Doing
  <2>3. run'.pc \in {"list", "idle", "create", "count", "copy", "validate"}
    BY <1>13, EndTypes
       DEF CreateTable, CountTable, Validate, Settle, RunTypes, RunRecords, Doing, NoRun
  <2> QED  BY <2>1, <2>2, <2>3
<1>14. ASSUME NEW t \in Tables, AddRow(t)
      PROVE  Opens'
  BY <1>14 DEF AddRow, history, Password
<1> QED
  BY <1>1, <1>2, <1>3, <1>4, <1>5, <1>6, <1>7, <1>8, <1>9, <1>10, <1>11, <1>12, <1>13, <1>14,
     MigrationNext DEF MigrationNext

LEMMA MigrationInvInit == MigrationInit => MigrationInv
<1> SUFFICES ASSUME MigrationInit PROVE MigrationInv
  OBVIOUS
<1> USE MigrationAssumption DEF MigrationInit
<1>1. run = NoRun /\ run \in RunRecords /\ run.pc = "idle" /\ run.outcome = "none"
  BY DEF NoRun, RunRecords, RunSteps
<1>2. pg \in [Tables -> Seq(1..MaxRows)]
  <2>2. ASSUME NEW t \in Tables
        PROVE  InSource(t) \in Seq(1..MaxRows)
    <3>1. source[t] \in Nat /\ source[t] <= MaxRows
      BY <2>2
    <3>2. \A i \in 1..source[t] : i \in 1..MaxRows
      BY <3>1
    <3> HIDE DEF MigrationInit
    <3> QED  BY <3>1, <3>2 DEF InSource
  <2> QED  BY <2>2, EmptySeq
<1>3. \A t \in Tables : Len(pg[t]) <= source[t] /\ pg[t] = [i \in 1..Len(pg[t]) |-> i]
  <2> TAKE t \in Tables
  <2>1. source[t] \in Nat
    OBVIOUS
  <2>2. CASE db
    BY <2>1, <2>2 DEF InSource
  <2>3. CASE ~db
    <3>1. pg[t] = <<>>
      BY <2>3
    <3> QED  BY <2>1, <3>1
  <2> QED  BY <2>2, <2>3
<1>4. role \in 0..(MaxRuns + 1) /\ db = (role # 0) /\ secret = role
  OBVIOUS
<1>5. RunTypes
  <2>1. listed \subseteq made /\ made \subseteq Tables
    OBVIOUS
  <2>2. added \in [Tables -> 0..MaxAdded] /\ runs \in 0..MaxRuns /\ breaks \in 0..MaxBreaks
    OBVIOUS
  <2>3. source \in [Tables -> 0..MaxRows] /\ db \in BOOLEAN
        /\ stranded \in BOOLEAN /\ cut \in BOOLEAN /\ blind \in BOOLEAN
    OBVIOUS
  <2> HIDE DEF MigrationInit
  <2> QED  BY <1>1, <1>2, <1>4, <2>1, <2>2, <2>3 DEF RunTypes
<1> QED
  BY <1>1, <1>3, <1>4, <1>5
     DEF MigrationInv, InOrder, CopyStands, Expects, Validated, Paired, Opens

LEMMA MigrationInvNext == MigrationInv /\ [MigrationNext]_migrationVars => MigrationInv'
<1> SUFFICES ASSUME MigrationInv, [MigrationNext]_migrationVars
             PROVE  MigrationInv'
  OBVIOUS
<1>1. CASE MigrationNext
  BY <1>1, RunTypesNext, InOrderNext, CopyStandsNext, ExpectsNext, ValidatedNext, PairedNext, OpensNext
     DEF MigrationInv
<1>2. CASE UNCHANGED migrationVars
  BY <1>2
     DEF migrationVars, postgres, history, MigrationInv, RunTypes, InOrder, CopyStands, Expects,
         Validated, Full, Paired, Opens, Password
<1> QED  BY <1>1, <1>2

LEMMA MigrationInvAlways == MigrationSpec => []MigrationInv
<1> QED  BY MigrationInvInit, MigrationInvNext, PTL DEF MigrationSpec

(* What a run of the migration leaves behind (do_migrate, copy_rows, provision_app, adopt_app, drop_app),
   for any tables and rows, however often it dies, fails and is repeated: every row once when it reports
   success, and a role with its database that the saved secret opens. *)
THEOREM MigrationIsSafe == MigrationSpec => []MigrationHolds
<1>1. MigrationInv => MigrationHolds
  <2> SUFFICES ASSUME MigrationInv PROVE MigrationHolds
    OBVIOUS
  <2> USE DEF MigrationInv
  <2>0. \A t \in Tables : Len(pg[t]) \in Nat
    BY DEF RunTypes
  <2>1. SuccessIsComplete
    BY <2>0 DEF SuccessIsComplete, Validated, Full, InOrder, InSource
  <2>2. NoRowTwice
    <3> SUFFICES ASSUME ~blind, NEW t \in Tables, NEW i \in DOMAIN pg[t], NEW j \in DOMAIN pg[t],
                        pg[t][i] = pg[t][j]
                 PROVE  i = j
      BY DEF NoRowTwice
    <3>1. pg[t] = [k \in 1..Len(pg[t]) |-> k]
      BY DEF InOrder
    <3>2. i \in 1..Len(pg[t]) /\ j \in 1..Len(pg[t])
      BY <3>1, Zenon
    <3>3. \A k \in 1..Len(pg[t]) : pg[t][k] = k
      BY <3>1
    <3> QED  BY <3>2, <3>3
  <2>3. PairedAtRest /\ SecretOpens
    <3>1. db \in BOOLEAN /\ (Doing("idle") /\ ~stranded => (db <=> role # 0))
      BY DEF Paired, Doing, RunTypes
    <3>2. PairedAtRest
      BY <3>1, Zenon DEF PairedAtRest
    <3>3. SecretOpens
      BY DEF SecretOpens, Opens, Doing
    <3> QED  BY <3>2, <3>3
  <2> QED  BY <2>1, <2>2, <2>3 DEF MigrationHolds
<1> QED  BY <1>1, MigrationInvAlways, PTL

(* The types, for any bounds. *)
THEOREM MigrationKeepsTypes == MigrationSpec => []MigrationTypeOK
<1>1. MigrationInv => MigrationTypeOK
  BY DEF MigrationInv, RunTypes, RunRecords, MigrationTypeOK
<1> QED  BY <1>1, MigrationInvAlways, PTL

-----------------------------------------------------------------------------
\* The steps of each change, and what its request names.
Ops == {"create", "add", "relate", "drop", "remove", "serve"}
AnySnapshot == [version : Nat, tables : SUBSET TableNames, columns : SUBSET (TableNames \X Columns)]
SchemaSteps ==
    {"idle", "check", "ddl", "trigger", "table", "column", "key", "relation", "bump", "journal", "columns",
     "relations", "tables", "put"}
AnyChange ==
    [pc : SchemaSteps, op : Ops \cup {None}, table : TableNames \cup {None}, column : Columns \cup {None},
     target : TableNames \cup {None}, seen : AnySnapshot]

StepsOf(op) ==
    CASE op = "create" -> {"check", "ddl", "trigger", "table", "column", "key", "relation", "bump", "journal"}
      [] op = "add"    -> {"check", "ddl", "column", "key", "relation", "bump", "journal"}
      [] op = "relate" -> {"check", "key", "relation", "bump", "journal"}
      [] op = "drop"   -> {"check", "ddl", "columns", "relations", "table", "bump", "journal"}
      [] op = "remove" -> {"ddl", "columns", "relations", "bump", "journal"}
      [] op = "serve"  -> {"tables", "columns", "put"}
      [] OTHER         -> {"idle"}

Formed(r) ==
    /\ r.pc \in StepsOf(r.op)
    /\ r.op \in Ops \ {"serve"} => r.table \in TableNames
    /\ r.op \in {"add", "relate", "remove"} => r.column \in Columns
    /\ r.op = "relate" => r.target \in TableNames
    /\ r.target # None => r.column \in Columns
    /\ r.pc = "column" => r.column \in Columns
    /\ r.pc \in {"key", "relation"} => r.column \in Columns /\ r.target \in TableNames

SchemaTypes ==
    /\ DOMAIN real \subseteq TableNames /\ \A t \in DOMAIN real : real[t] \subseteq Columns
    /\ armed \subseteq DOMAIN real /\ keys \subseteq AllKeys
    /\ tables \subseteq TableNames /\ columns \subseteq TableNames \X Columns /\ relations \subseteq AllKeys
    /\ version \in Nat /\ journal \in Nat /\ cache \in AnySnapshot
    /\ ask \in [Editors -> AnyChange] /\ \A c \in Editors : Formed(ask[c])
    /\ torn \in BOOLEAN /\ overlapped \in BOOLEAN

\* Each of these is at a step that makes it the only one to answer for a difference.
Building(c, t) == ask[c].op = "create" /\ ask[c].pc \in {"trigger", "table"} /\ ask[c].table = t
Dropping(c, t) == ask[c].op = "drop" /\ ask[c].pc \in {"columns", "relations", "table"} /\ ask[c].table = t
Adding(c, t, k) ==
    /\ ask[c].op \in {"create", "add"} /\ ask[c].table = t /\ ask[c].column = k
    /\ ask[c].pc = "column" \/ (ask[c].op = "create" /\ ask[c].pc \in {"trigger", "table"})
Removing(c, t, k) ==
    ask[c].op = "remove" /\ ask[c].pc \in {"columns", "relations"} /\ ask[c].table = t /\ ask[c].column = k

Straight == ~torn /\ ~overlapped

\* A removal is alone with its table.
NoOverlap ==
    ~overlapped => \A c, d \in Editors :
        c # d /\ Changing(c) /\ Changing(d) /\ Removes(ask[c].op) => Concerns(ask[c]) \cap Concerns(ask[d]) = {}

BuildersHold ==
    ~overlapped => \A c \in Editors, t \in TableNames :
        /\ ask[c].op = "create" /\ ask[c].pc = "ddl" /\ ask[c].table = t => (t \in tables => Exists(t))
        /\ Building(c, t) => /\ Exists(t) /\ t \notin tables
                             /\ t \in armed <=> ask[c].pc = "table"
                             /\ \A d \in Editors : Building(d, t) => c = d

DropsHold ==
    ~overlapped => \A c \in Editors, t \in TableNames :
        Dropping(c, t) => ~Exists(t) /\ \A k \in keys : t \notin {k.from, k.to}

RemovesHold ==
    ~overlapped => \A c \in Editors, t \in TableNames, k \in Columns :
        Removing(c, t, k) => ~HasColumn(t, k) /\ \A x \in keys : ~(x.from = t /\ x.column = k)

TablesHold ==
    Straight =>
        /\ \A t \in DOMAIN real \ tables : \E c \in Editors : Building(c, t)
        /\ \A t \in tables \ DOMAIN real : \E c \in Editors : Dropping(c, t)

AddsHold ==
    Straight => \A c \in Editors, t \in TableNames, k \in Columns :
        Adding(c, t, k) => /\ HasColumn(t, k) /\ <<t, k>> \notin columns
                           /\ \A d \in Editors : Adding(d, t, k) => c = d

ColumnsHold ==
    Straight => \A t \in TableNames, k \in Columns :
        /\ HasColumn(t, k) /\ <<t, k>> \notin columns => \E c \in Editors : Adding(c, t, k)
        /\ ~HasColumn(t, k) /\ <<t, k>> \in columns =>
              \E c \in Editors : ask[c].pc = "columns" /\ (Dropping(c, t) \/ Removing(c, t, k))

KeysHold ==
    /\ ~overlapped => \A c \in Editors : ask[c].pc = "relation" => Key(ask[c]) \in keys
    /\ Straight => \A x \in AllKeys :
        /\ x \in keys \ relations => \E c \in Editors : ask[c].pc = "relation" /\ Key(ask[c]) = x
        /\ x \in relations \ keys => \E c \in Editors :
              ask[c].pc \in {"columns", "relations"}
              /\ (Dropping(c, x.from) \/ Dropping(c, x.to) \/ Removing(c, x.from, x.column))

Journaling == {c \in Editors : ask[c].pc = "journal"}
CountsHold == ~torn => version = journal + 1 + Cardinality(Journaling)

\* A change has written the metadata of tables or columns and not yet raised the version.
Dirty(c) ==
    \/ ask[c].op = "create" /\ ask[c].pc \in {"column", "key", "relation", "bump"}
    \/ ask[c].op = "add" /\ ask[c].pc \in {"key", "relation", "bump"}
    \/ ask[c].op = "drop" /\ ask[c].pc \in {"relations", "table", "bump"}
    \/ ask[c].op = "remove" /\ ask[c].pc \in {"relations", "bump"}

Clean == Straight /\ \A c \in Editors : ~Dirty(c)
Described == {k \in columns : k[1] \in tables}
SnapshotsHold ==
    /\ cache.version <= version
    /\ Clean /\ cache.version = version => cache.tables = tables /\ cache.columns = Described
    /\ \A c \in Editors : ask[c].op = "serve" =>
        /\ ask[c].seen.version <= version
        /\ Clean /\ ask[c].seen.version = version =>
                /\ ask[c].pc \in {"columns", "put"} => ask[c].seen.tables = tables
                /\ ask[c].pc = "put" => ask[c].seen.columns = Described

SchemaInv ==
    /\ SchemaTypes /\ NoOverlap /\ BuildersHold /\ DropsHold /\ RemovesHold /\ ListedIsArmed
    /\ TablesHold /\ AddsHold /\ ColumnsHold /\ KeysHold /\ CountsHold /\ SnapshotsHold

-----------------------------------------------------------------------------
LEMMA Named == None \notin TableNames /\ None \notin Columns
BY SchemaAssumption DEF None

\* A request goes on to another step.
LEMMA AskStep ==
    ASSUME SchemaTypes, NEW c \in Editors, NEW step \in SchemaSteps, ask' = [ask EXCEPT ![c].pc = step]
    PROVE  /\ ask' \in [Editors -> AnyChange]
           /\ ask'[c].pc = step /\ ask'[c].op = ask[c].op /\ ask'[c].table = ask[c].table
           /\ ask'[c].column = ask[c].column /\ ask'[c].target = ask[c].target /\ ask'[c].seen = ask[c].seen
           /\ \A d \in Editors : d # c => ask'[d] = ask[d]
BY DEF SchemaTypes, AnyChange

\* What is said of the requests that do not move.
LEMMA Others ==
    ASSUME NEW c \in Editors, \A d \in Editors : d # c => ask'[d] = ask[d]
    PROVE  \A d \in Editors : d # c =>
            /\ Changing(d)' <=> Changing(d)
            /\ Dirty(d)' <=> Dirty(d)
            /\ \A t \in TableNames : /\ Building(d, t)' <=> Building(d, t)
                                     /\ Dropping(d, t)' <=> Dropping(d, t)
            /\ \A t \in TableNames, k \in Columns : /\ Adding(d, t, k)' <=> Adding(d, t, k)
                                                    /\ Removing(d, t, k)' <=> Removing(d, t, k)
BY DEF Changing, Dirty, Building, Dropping, Adding, Removing

\* A removal finds nobody else at its table, ...
LEMMA RemovesAlone ==
    ASSUME SchemaTypes, NoOverlap, ~overlapped, NEW c \in Editors, Changing(c), Removes(ask[c].op),
           NEW d \in Editors, d # c, Changing(d)
    PROVE  ask[d].table # ask[c].table /\ ask[d].target # ask[c].table
<1>1. Concerns(ask[c]) \cap Concerns(ask[d]) = {}
  BY DEF NoOverlap
<1>2. ask[c].table \in TableNames
  BY DEF SchemaTypes, Formed, Removes, Ops
<1> QED  BY <1>1, <1>2, Named DEF Concerns

\* ... so that others find no removal at their tables.
LEMMA NoneRemoves ==
    ASSUME SchemaTypes, NoOverlap, ~overlapped, NEW c \in Editors, Changing(c), ~Removes(ask[c].op),
           NEW d \in Editors, Changing(d), Removes(ask[d].op)
    PROVE  d # c /\ ask[d].table # ask[c].table /\ ask[d].table # ask[c].target
BY RemovesAlone

LEMMA WitnessesChange ==
    ASSUME SchemaTypes, NEW c \in Editors
    PROVE  /\ \A t \in TableNames : Dropping(c, t) => Changing(c) /\ ask[c].table = t /\ Removes(ask[c].op)
           /\ \A t \in TableNames : Building(c, t) => Changing(c) /\ ask[c].table = t /\ ~Removes(ask[c].op)
           /\ \A t \in TableNames, k \in Columns :
                /\ Removing(c, t, k) => Changing(c) /\ ask[c].table = t /\ ask[c].column = k /\ Removes(ask[c].op)
                /\ Adding(c, t, k) => Changing(c) /\ ask[c].table = t /\ ask[c].column = k /\ ~Removes(ask[c].op)
BY DEF Dropping, Building, Removing, Adding, Changing, Removes

-----------------------------------------------------------------------------
\* A request at one of these steps answers for no difference.
Plain(r) ==
    \/ r.op = "serve" \/ r.pc \in {"idle", "check", "ddl", "bump", "journal"}
    \/ r.op = "relate" /\ r.pc = "key"

Differences ==
    BuildersHold /\ DropsHold /\ RemovesHold /\ ListedIsArmed /\ TablesHold /\ AddsHold /\ ColumnsHold /\ KeysHold

LEMMA PlainAnswers ==
    ASSUME SchemaTypes, NEW c \in Editors, Plain(ask[c])
    PROVE  /\ ask[c].pc # "relation"
           /\ \A t \in TableNames : ~Building(c, t) /\ ~Dropping(c, t)
           /\ \A t \in TableNames, k \in Columns : ~Adding(c, t, k) /\ ~Removing(c, t, k)
BY DEF Plain, SchemaTypes, Formed, StepsOf, Building, Dropping, Adding, Removing

\* A step that leaves the database and its metadata.
LEMMA Calm ==
    ASSUME SchemaInv, SchemaTypes', NEW c \in Editors, \A d \in Editors : d # c => ask'[d] = ask[d],
           UNCHANGED <<database, metadata>>, torn => torn', overlapped => overlapped',
           Plain(ask'[c]), Straight' => Plain(ask[c]),
           ask'[c].op = "create" /\ ask'[c].pc = "ddl" =>
                (ask'[c].table \in tables => Exists(ask'[c].table))
    PROVE  Differences'
<1> USE DEF SchemaInv
<1>1. UNCHANGED <<real, armed, keys, tables, columns, relations>>
  BY DEF database, metadata
<1>2. \A d \in Editors : d # c =>
            /\ \A t \in TableNames : /\ Building(d, t)' <=> Building(d, t)
                                     /\ Dropping(d, t)' <=> Dropping(d, t)
            /\ \A t \in TableNames, k \in Columns : /\ Adding(d, t, k)' <=> Adding(d, t, k)
                                                    /\ Removing(d, t, k)' <=> Removing(d, t, k)
  BY Others
<1>3. /\ ask'[c].pc # "relation"
      /\ \A t \in TableNames : ~Building(c, t)' /\ ~Dropping(c, t)'
      /\ \A t \in TableNames, k \in Columns : ~Adding(c, t, k)' /\ ~Removing(c, t, k)'
  BY DEF Plain, SchemaTypes, Formed, StepsOf, Building, Dropping, Adding, Removing
<1>4. Straight' =>
      /\ Straight /\ ask[c].pc # "relation"
      /\ \A t \in TableNames : ~Building(c, t) /\ ~Dropping(c, t)
      /\ \A t \in TableNames, k \in Columns : ~Adding(c, t, k) /\ ~Removing(c, t, k)
  BY PlainAnswers DEF Straight
<1>5. \A t, k : (Exists(t)' <=> Exists(t)) /\ (HasColumn(t, k)' <=> HasColumn(t, k))
  BY <1>1 DEF Exists, HasColumn
<1>6. BuildersHold'
  <2> SUFFICES ASSUME ~overlapped, NEW d \in Editors, NEW t \in TableNames
               PROVE  /\ ask'[d].op = "create" /\ ask'[d].pc = "ddl" /\ ask'[d].table = t => (t \in tables => Exists(t))
                      /\ Building(d, t)' => /\ Exists(t) /\ t \notin tables
                                            /\ t \in armed <=> ask'[d].pc = "table"
                                            /\ \A e \in Editors : Building(e, t)' => d = e
    BY <1>1, <1>5 DEF BuildersHold
  <2>1. CASE d = c
    BY <1>3, <2>1
  <2>2. CASE d # c
    BY <1>2, <1>3, <2>2 DEF BuildersHold
  <2> QED  BY <2>1, <2>2
<1>7. DropsHold' /\ RemovesHold' /\ ListedIsArmed'
  BY <1>1, <1>2, <1>3, <1>5 DEF DropsHold, RemovesHold, ListedIsArmed
<1>8. TablesHold'
  BY <1>1, <1>2, <1>4 DEF TablesHold, SchemaTypes
<1>9. AddsHold'
  BY <1>1, <1>2, <1>3, <1>4, <1>5 DEF AddsHold
<1>10. ColumnsHold'
  BY <1>1, <1>2, <1>4, <1>5 DEF ColumnsHold
<1>11. KeysHold'
  <2>1. ~overlapped' => \A d \in Editors : ask'[d].pc = "relation" => Key(ask'[d]) \in keys'
    BY <1>1, <1>3 DEF KeysHold
  <2>2. ASSUME Straight', NEW x \in AllKeys, x \in keys \ relations
        PROVE  \E d \in Editors : ask'[d].pc = "relation" /\ Key(ask'[d]) = x
    BY <1>4, <2>2 DEF KeysHold
  <2>3. ASSUME Straight', NEW x \in AllKeys, x \in relations \ keys
        PROVE  \E d \in Editors : ask'[d].pc \in {"columns", "relations"}
                    /\ (Dropping(d, x.from)' \/ Dropping(d, x.to)' \/ Removing(d, x.from, x.column)')
    <3>1. x.from \in TableNames /\ x.to \in TableNames /\ x.column \in Columns
      BY DEF AllKeys
    <3>2. PICK d \in Editors : ask[d].pc \in {"columns", "relations"}
                    /\ (Dropping(d, x.from) \/ Dropping(d, x.to) \/ Removing(d, x.from, x.column))
      BY <1>4, <2>3 DEF KeysHold
    <3>3. d # c
      BY <1>4, <2>3, <3>1, <3>2
    <3> QED  BY <1>2, <3>1, <3>2, <3>3
  <2> QED  BY <1>1, <2>1, <2>2, <2>3 DEF KeysHold
<1> QED  BY <1>6, <1>7, <1>8, <1>9, <1>10, <1>11 DEF Differences

\* A statement of a change: the version is raised later.
LEMMA Works ==
    ASSUME SchemaInv, NEW c \in Editors, NEW step \in SchemaSteps, ask' = [ask EXCEPT ![c].pc = step],
           Changing(c), step \notin {"idle", "journal"}, ask[c].pc # "journal",
           UNCHANGED <<counts, cache, marks>>,
           Dirty(c)' \/ (UNCHANGED <<tables, columns>> /\ ~Dirty(c))
    PROVE  NoOverlap' /\ CountsHold' /\ SnapshotsHold'
<1> USE DEF SchemaInv
<1>1. /\ ask'[c].pc = step /\ ask'[c].op = ask[c].op /\ ask'[c].table = ask[c].table
      /\ ask'[c].target = ask[c].target /\ \A d \in Editors : d # c => ask'[d] = ask[d]
  BY AskStep
<1>2. UNCHANGED <<version, journal, cache, torn, overlapped>>
  BY DEF counts, marks
<1>3. NoOverlap'
  <2>1. \A d \in Editors : /\ Changing(d)' => Changing(d)
                           /\ Concerns(ask'[d]) = Concerns(ask[d])
                           /\ Removes(ask'[d].op) <=> Removes(ask[d].op)
    BY <1>1, Others DEF Concerns, Removes
  <2> QED  BY <1>2, <2>1 DEF NoOverlap
<1>4. CountsHold'
  <2>1. Journaling' = Journaling
    BY <1>1 DEF Journaling
  <2> QED  BY <1>2, <2>1 DEF CountsHold
<1>5. SnapshotsHold'
  <2>1. \A d \in Editors : ask'[d].op = "serve" => ask'[d] = ask[d]
    BY <1>1 DEF Changing
  <2>2. Clean' => Clean /\ UNCHANGED <<tables, columns>>
    BY <1>1, <1>2, Others DEF Clean, Straight
  <2>3. UNCHANGED <<tables, columns>> => Described' = Described
    BY DEF Described
  <2> QED  BY <1>2, <2>1, <2>2, <2>3 DEF SnapshotsHold
<1> QED  BY <1>3, <1>4, <1>5

-----------------------------------------------------------------------------
\* The statements of a change, one by one.
LEMMA MakeTableNext ==
    ASSUME SchemaInv, NEW c \in Editors, MakeTable(c), ~Exists(ask[c].table)
    PROVE  SchemaInv'
<1> DEFINE t == ask[c].table
<1> DEFINE k == ask[c].column
<1> USE DEF SchemaInv
<1>0. /\ ask[c].op = "create" /\ ask[c].pc = "ddl" /\ ask' = [ask EXCEPT ![c].pc = "trigger"]
      /\ real' = [u \in DOMAIN real \cup {t} |-> IF u = t THEN {k} \ {None} ELSE real[u]]
      /\ UNCHANGED <<armed, keys, tables, columns, relations, counts, cache, marks>>
  BY DEF MakeTable, ChangeAt, ChangeGo, metadata
<1>1. /\ ask' \in [Editors -> AnyChange]
      /\ ask'[c].pc = "trigger" /\ ask'[c].op = "create" /\ ask'[c].table = t /\ ask'[c].column = k
      /\ ask'[c].target = ask[c].target /\ \A d \in Editors : d # c => ask'[d] = ask[d]
  <2>1. "trigger" \in SchemaSteps
    BY DEF SchemaSteps
  <2> QED  BY <1>0, <2>1, AskStep
<1>2. t \in TableNames /\ k \in Columns \cup {None} /\ ~Exists(t) /\ Changing(c) /\ ~Removes(ask[c].op)
  BY <1>0 DEF SchemaTypes, Formed, Ops, AnyChange, Changing, Removes
<1>3. SchemaTypes'
  <2>1. Formed(ask'[c])
    BY <1>0, <1>1 DEF SchemaTypes, Formed, StepsOf, Ops
  <2> QED  BY <1>0, <1>1, <1>2, <2>1 DEF SchemaTypes, counts, marks
<1>4. NoOverlap' /\ CountsHold' /\ SnapshotsHold'
  <2>1. "trigger" \in SchemaSteps /\ ~Dirty(c) /\ UNCHANGED <<tables, columns>>
    BY <1>0 DEF Dirty, SchemaSteps
  <2> QED  BY <1>0, <1>2, <2>1, Works
<1>5. \A d \in Editors, u \in TableNames :
        /\ Building(d, u)' <=> Building(d, u) \/ (d = c /\ u = t)
        /\ Dropping(d, u)' <=> Dropping(d, u)
        /\ \A j \in Columns : /\ Adding(d, u, j)' <=> Adding(d, u, j) \/ (d = c /\ u = t /\ j = k)
                              /\ Removing(d, u, j)' <=> Removing(d, u, j)
  BY <1>0, <1>1 DEF Building, Dropping, Adding, Removing
<1>6. \A u \in TableNames :
        /\ Exists(u)' <=> Exists(u) \/ u = t
        /\ \A j \in Columns : HasColumn(u, j)' <=> HasColumn(u, j) \/ (u = t /\ j = k)
  BY <1>0, <1>2, Named DEF Exists, HasColumn
<1>7. overlapped' = overlapped /\ torn' = torn
  BY <1>0 DEF marks
<1>8. ~overlapped => \A d \in Editors : ~Dropping(d, t) /\ \A j \in Columns : ~Removing(d, t, j)
  BY <1>2, NoneRemoves, WitnessesChange
<1>9. BuildersHold'
  <2> SUFFICES ASSUME ~overlapped, NEW d \in Editors, NEW u \in TableNames
               PROVE  /\ ask'[d].op = "create" /\ ask'[d].pc = "ddl" /\ ask'[d].table = u => (u \in tables => Exists(u)')
                      /\ Building(d, u)' => /\ Exists(u)' /\ u \notin tables
                                            /\ u \in armed <=> ask'[d].pc = "table"
                                            /\ \A e \in Editors : Building(e, u)' => d = e
    BY <1>0, <1>7 DEF BuildersHold
  <2>1. CASE u = t
    <3>1. t \notin tables /\ t \notin armed /\ \A e \in Editors : ~Building(e, t)
      BY <1>0, <1>2 DEF BuildersHold, SchemaTypes, Exists
    <3> QED  BY <1>1, <1>5, <1>6, <2>1, <3>1
  <2>2. CASE u # t
    <3>1. ~Building(c, u)
      BY <1>0 DEF Building
    <3> QED  BY <1>1, <1>5, <1>6, <2>2, <3>1 DEF BuildersHold
  <2> QED  BY <2>1, <2>2
<1>10. DropsHold' /\ RemovesHold'
  <2>1. DropsHold'
    BY <1>0, <1>5, <1>6, <1>7, <1>8 DEF DropsHold
  <2>2. RemovesHold'
    BY <1>0, <1>5, <1>6, <1>7, <1>8 DEF RemovesHold
  <2> QED  BY <2>1, <2>2
<1>11. ListedIsArmed'
  <2>1. ~overlapped => t \notin tables
    BY <1>0, <1>2 DEF BuildersHold
  <2> QED  BY <1>0, <1>7, <2>1 DEF ListedIsArmed
<1>12. TablesHold'
  <2>1. DOMAIN real' = DOMAIN real \cup {t} /\ DOMAIN real \subseteq TableNames /\ tables \subseteq TableNames
    BY <1>0 DEF SchemaTypes
  <2> QED  BY <1>0, <1>2, <1>5, <1>7, <2>1 DEF TablesHold, Straight
<1>13. AddsHold'
  <2> SUFFICES ASSUME Straight, NEW d \in Editors, NEW u \in TableNames, NEW j \in Columns, Adding(d, u, j)'
               PROVE  /\ HasColumn(u, j)' /\ <<u, j>> \notin columns
                      /\ \A e \in Editors : Adding(e, u, j)' => d = e
    BY <1>0, <1>7 DEF AddsHold, Straight
  <2>1. CASE u = t /\ j = k
    <3>1. ~HasColumn(t, k) /\ \A e \in Editors : ~Adding(e, t, k)
      BY <1>2, <2>1 DEF AddsHold, HasColumn
    <3>2. <<t, k>> \notin columns
      BY <1>2, <1>8, <2>1, <3>1 DEF ColumnsHold, Straight
    <3> QED  BY <1>5, <1>6, <2>1, <3>1, <3>2
  <2>2. CASE ~(u = t /\ j = k)
    BY <1>5, <1>6, <2>2 DEF AddsHold
  <2> QED  BY <2>1, <2>2
<1>14. ColumnsHold'
  <2>1. \A d \in Editors : ask'[d].pc = "columns" <=> ask[d].pc = "columns"
    BY <1>0, <1>1
  <2> QED  BY <1>0, <1>5, <1>6, <1>7, <2>1 DEF ColumnsHold, Straight
<1>15. KeysHold'
  <2>1. \A d \in Editors : /\ ask'[d].pc = "relation" <=> ask[d].pc = "relation"
                           /\ ask'[d].pc \in {"columns", "relations"} <=> ask[d].pc \in {"columns", "relations"}
                           /\ Key(ask'[d]) = Key(ask[d])
    BY <1>0, <1>1 DEF Key
  <2> QED  BY <1>0, <1>5, <1>7, <2>1 DEF KeysHold, Straight, AllKeys
<1> QED  BY <1>3, <1>4, <1>9, <1>10, <1>11, <1>12, <1>13, <1>14, <1>15

LEMMA CreateTriggerNext ==
    ASSUME SchemaInv, NEW c \in Editors, CreateTrigger(c), Exists(ask[c].table), ask[c].table \notin armed
    PROVE  SchemaInv'
<1> DEFINE t == ask[c].table
<1> USE DEF SchemaInv
<1>0. /\ ask[c].op = "create" /\ ask[c].pc = "trigger" /\ ask' = [ask EXCEPT ![c].pc = "table"]
      /\ armed' = armed \cup {t}
      /\ UNCHANGED <<real, keys, tables, columns, relations, counts, cache, marks>>
  BY DEF CreateTrigger, ChangeAt, ChangeGo, metadata
<1>1. /\ "table" \in SchemaSteps /\ ask' \in [Editors -> AnyChange]
      /\ ask'[c].pc = "table" /\ ask'[c].op = "create" /\ ask'[c].table = t /\ ask'[c].column = ask[c].column
      /\ ask'[c].target = ask[c].target /\ \A d \in Editors : d # c => ask'[d] = ask[d]
  <2>1. "table" \in SchemaSteps
    BY DEF SchemaSteps
  <2> QED  BY <1>0, <2>1, AskStep
<1>2. t \in TableNames /\ t \in DOMAIN real /\ Changing(c) /\ Building(c, t)
  BY <1>0 DEF SchemaTypes, Formed, Ops, Changing, Building, Exists
<1>3. SchemaTypes'
  <2>1. Formed(ask'[c])
    BY <1>0, <1>1 DEF SchemaTypes, Formed, StepsOf, Ops
  <2> QED  BY <1>0, <1>1, <1>2, <2>1 DEF SchemaTypes, counts, marks
<1>4. NoOverlap' /\ CountsHold' /\ SnapshotsHold'
  <2>1. ~Dirty(c) /\ UNCHANGED <<tables, columns>>
    BY <1>0 DEF Dirty
  <2> QED  BY <1>0, <1>1, <1>2, <2>1, Works
<1>5. \A d \in Editors, u \in TableNames :
        /\ Building(d, u)' <=> Building(d, u)
        /\ Dropping(d, u)' <=> Dropping(d, u)
        /\ \A j \in Columns : /\ Adding(d, u, j)' <=> Adding(d, u, j)
                              /\ Removing(d, u, j)' <=> Removing(d, u, j)
  BY <1>0, <1>1 DEF Building, Dropping, Adding, Removing
<1>6. \A u, j : (Exists(u)' <=> Exists(u)) /\ (HasColumn(u, j)' <=> HasColumn(u, j))
  BY <1>0 DEF Exists, HasColumn
<1>7. overlapped' = overlapped /\ torn' = torn
  BY <1>0 DEF marks
<1>8. BuildersHold'
  <2> SUFFICES ASSUME ~overlapped, NEW d \in Editors, NEW u \in TableNames
               PROVE  /\ ask'[d].op = "create" /\ ask'[d].pc = "ddl" /\ ask'[d].table = u => (u \in tables => Exists(u))
                      /\ Building(d, u)' => /\ Exists(u) /\ u \notin tables
                                            /\ u \in armed' <=> ask'[d].pc = "table"
                                            /\ \A e \in Editors : Building(e, u)' => d = e
    BY <1>0, <1>6, <1>7 DEF BuildersHold
  <2>1. CASE d = c
    <3>1. Building(c, u) => u = t
      BY DEF Building
    <3> QED  BY <1>0, <1>1, <1>2, <1>5, <2>1, <3>1 DEF BuildersHold
  <2>2. CASE d # c
    <3>1. Building(d, u) => u # t
      BY <1>2, <2>2 DEF BuildersHold
    <3> QED  BY <1>0, <1>1, <1>5, <2>2, <3>1 DEF BuildersHold
  <2> QED  BY <2>1, <2>2
<1>9. DropsHold' /\ RemovesHold' /\ ListedIsArmed'
  BY <1>0, <1>5, <1>6, <1>7 DEF DropsHold, RemovesHold, ListedIsArmed
<1>10. TablesHold' /\ AddsHold'
  BY <1>0, <1>5, <1>6, <1>7 DEF TablesHold, AddsHold, Straight, SchemaTypes
<1>11. ColumnsHold'
  <2>1. \A d \in Editors : ask'[d].pc = "columns" <=> ask[d].pc = "columns"
    BY <1>0, <1>1
  <2> QED  BY <1>0, <1>5, <1>6, <1>7, <2>1 DEF ColumnsHold, Straight
<1>12. KeysHold'
  <2>1. \A d \in Editors : /\ ask'[d].pc = "relation" <=> ask[d].pc = "relation"
                           /\ ask'[d].pc \in {"columns", "relations"} <=> ask[d].pc \in {"columns", "relations"}
                           /\ Key(ask'[d]) = Key(ask[d])
    BY <1>0, <1>1 DEF Key
  <2> QED  BY <1>0, <1>5, <1>7, <2>1 DEF KeysHold, Straight, AllKeys
<1> QED  BY <1>3, <1>4, <1>8, <1>9, <1>10, <1>11, <1>12

LEMMA EnlistTableNext ==
    ASSUME SchemaInv, NEW c \in Editors, EnlistTable(c), ask[c].table \notin tables
    PROVE  SchemaInv'
<1> DEFINE t == ask[c].table
<1> DEFINE k == ask[c].column
<1> DEFINE step == IF k = None THEN "bump" ELSE "column"
<1> USE DEF SchemaInv
<1>0. /\ ask[c].op = "create" /\ ask[c].pc = "table" /\ ask' = [ask EXCEPT ![c].pc = step]
      /\ tables' = tables \cup {t}
      /\ UNCHANGED <<real, armed, keys, columns, relations, counts, cache, marks>>
  BY DEF EnlistTable, ChangeAt, ChangeGo, database
<1>1. /\ step \in SchemaSteps /\ ask' \in [Editors -> AnyChange]
      /\ ask'[c].pc = step /\ ask'[c].op = "create" /\ ask'[c].table = t /\ ask'[c].column = k
      /\ ask'[c].target = ask[c].target /\ \A d \in Editors : d # c => ask'[d] = ask[d]
  <2>1. step \in SchemaSteps
    BY DEF SchemaSteps
  <2> HIDE DEF step
  <2> QED  BY <1>0, <2>1, AskStep
<1>2. t \in TableNames /\ k \in Columns \cup {None} /\ Changing(c) /\ Building(c, t)
  BY <1>0 DEF SchemaTypes, Formed, Ops, AnyChange, Changing, Building
<1>3. SchemaTypes'
  <2>1. Formed(ask'[c])
    BY <1>0, <1>1, <1>2 DEF SchemaTypes, Formed, StepsOf, Ops
  <2> QED  BY <1>0, <1>1, <1>2, <2>1 DEF SchemaTypes, counts, marks
<1>4. NoOverlap' /\ CountsHold' /\ SnapshotsHold'
  <2>1. Dirty(c)'
    BY <1>0, <1>1 DEF Dirty
  <2> QED  BY <1>0, <1>1, <1>2, <2>1, Works
<1>5. \A d \in Editors, u \in TableNames :
        /\ Building(d, u)' <=> Building(d, u) /\ d # c
        /\ Dropping(d, u)' <=> Dropping(d, u)
        /\ \A j \in Columns : /\ Adding(d, u, j)' <=> Adding(d, u, j)
                              /\ Removing(d, u, j)' <=> Removing(d, u, j)
  BY <1>0, <1>1, Named DEF Building, Dropping, Adding, Removing
<1>6. \A u, j : (Exists(u)' <=> Exists(u)) /\ (HasColumn(u, j)' <=> HasColumn(u, j))
  BY <1>0 DEF Exists, HasColumn
<1>7. overlapped' = overlapped /\ torn' = torn
  BY <1>0 DEF marks
<1>8. ~overlapped => t \in DOMAIN real /\ t \in armed /\ \A d \in Editors : Building(d, t) => d = c
  BY <1>0, <1>2 DEF BuildersHold, Exists
<1>9. BuildersHold'
  <2> SUFFICES ASSUME ~overlapped, NEW d \in Editors, NEW u \in TableNames
               PROVE  /\ ask'[d].op = "create" /\ ask'[d].pc = "ddl" /\ ask'[d].table = u => (u \in tables' => Exists(u))
                      /\ Building(d, u)' => /\ Exists(u) /\ u \notin tables'
                                            /\ u \in armed <=> ask'[d].pc = "table"
                                            /\ \A e \in Editors : Building(e, u)' => d = e
    BY <1>0, <1>6, <1>7 DEF BuildersHold
  <2>1. CASE d = c
    BY <1>1, <1>5, <2>1
  <2>2. CASE d # c
    BY <1>0, <1>1, <1>5, <1>8, <2>2 DEF BuildersHold, Exists
  <2> QED  BY <2>1, <2>2
<1>10. DropsHold' /\ RemovesHold' /\ ListedIsArmed'
  BY <1>0, <1>5, <1>6, <1>7, <1>8 DEF DropsHold, RemovesHold, ListedIsArmed
<1>11. TablesHold'
  <2>1. \A u \in TableNames : Building(c, u) => u = t
    BY DEF Building
  <2> QED  BY <1>0, <1>5, <1>7, <1>8, <2>1 DEF TablesHold, Straight, SchemaTypes
<1>12. AddsHold'
  BY <1>0, <1>5, <1>6, <1>7 DEF AddsHold, Straight
<1>13. ColumnsHold'
  <2>1. \A d \in Editors : ask'[d].pc = "columns" <=> ask[d].pc = "columns"
    BY <1>0, <1>1
  <2> QED  BY <1>0, <1>5, <1>6, <1>7, <2>1 DEF ColumnsHold, Straight
<1>14. KeysHold'
  <2>1. \A d \in Editors : /\ ask'[d].pc = "relation" <=> ask[d].pc = "relation"
                           /\ ask'[d].pc \in {"columns", "relations"} <=> ask[d].pc \in {"columns", "relations"}
                           /\ Key(ask'[d]) = Key(ask[d])
    BY <1>0, <1>1 DEF Key
  <2> QED  BY <1>0, <1>5, <1>7, <2>1 DEF KeysHold, Straight, AllKeys
<1> QED  BY <1>3, <1>4, <1>9, <1>10, <1>11, <1>12, <1>13, <1>14

LEMMA AddColumnNext ==
    ASSUME SchemaInv, NEW c \in Editors, AddColumn(c), Exists(ask[c].table),
           ask[c].column \notin real[ask[c].table]
    PROVE  SchemaInv'
<1> DEFINE t == ask[c].table
<1> DEFINE k == ask[c].column
<1> USE DEF SchemaInv
<1>0. /\ ask[c].op = "add" /\ ask[c].pc = "ddl" /\ ask' = [ask EXCEPT ![c].pc = "column"]
      /\ real' = [real EXCEPT ![t] = @ \cup {k}]
      /\ UNCHANGED <<armed, keys, tables, columns, relations, counts, cache, marks>>
  BY DEF AddColumn, ChangeAt, ChangeGo, metadata
<1>1. /\ "column" \in SchemaSteps /\ ask' \in [Editors -> AnyChange]
      /\ ask'[c].pc = "column" /\ ask'[c].op = "add" /\ ask'[c].table = t /\ ask'[c].column = k
      /\ ask'[c].target = ask[c].target /\ \A d \in Editors : d # c => ask'[d] = ask[d]
  <2>1. "column" \in SchemaSteps
    BY DEF SchemaSteps
  <2> QED  BY <1>0, <2>1, AskStep
<1>2. t \in TableNames /\ k \in Columns /\ t \in DOMAIN real /\ Changing(c) /\ ~Removes(ask[c].op)
  BY <1>0 DEF SchemaTypes, Formed, Ops, Changing, Removes, Exists
<1>3. SchemaTypes'
  <2>1. Formed(ask'[c])
    BY <1>0, <1>1, <1>2 DEF SchemaTypes, Formed, StepsOf, Ops
  <2>2. DOMAIN real' = DOMAIN real /\ \A u \in DOMAIN real : real'[u] = IF u = t THEN real[t] \cup {k} ELSE real[u]
    BY <1>0
  <2> QED  BY <1>0, <1>1, <1>2, <2>1, <2>2 DEF SchemaTypes, counts, marks
<1>4. NoOverlap' /\ CountsHold' /\ SnapshotsHold'
  <2>1. ~Dirty(c) /\ UNCHANGED <<tables, columns>>
    BY <1>0 DEF Dirty
  <2> QED  BY <1>0, <1>1, <1>2, <2>1, Works
<1>5. \A d \in Editors, u \in TableNames :
        /\ Building(d, u)' <=> Building(d, u)
        /\ Dropping(d, u)' <=> Dropping(d, u)
        /\ \A j \in Columns : /\ Adding(d, u, j)' <=> Adding(d, u, j) \/ (d = c /\ u = t /\ j = k)
                              /\ Removing(d, u, j)' <=> Removing(d, u, j)
  BY <1>0, <1>1 DEF Building, Dropping, Adding, Removing
<1>6. /\ DOMAIN real' = DOMAIN real
      /\ \A u \in TableNames :
            /\ Exists(u)' <=> Exists(u)
            /\ \A j \in Columns : HasColumn(u, j)' <=> HasColumn(u, j) \/ (u = t /\ j = k)
  BY <1>0, <1>2 DEF Exists, HasColumn
<1>7. overlapped' = overlapped /\ torn' = torn
  BY <1>0 DEF marks
<1>8. ~overlapped => \A d \in Editors : ~Dropping(d, t) /\ \A j \in Columns : ~Removing(d, t, j)
  BY <1>2, NoneRemoves, WitnessesChange
<1>9. BuildersHold'
  <2>1. \A d \in Editors, u \in TableNames : ask'[d].op = "create" => ask'[d] = ask[d]
    BY <1>1
  <2>2. \A d \in Editors, u \in TableNames : Building(d, u) => ask'[d] = ask[d]
    BY <1>0, <1>1 DEF Building
  <2> QED  BY <1>0, <1>5, <1>6, <1>7, <2>1, <2>2 DEF BuildersHold
<1>10. DropsHold' /\ ListedIsArmed'
  BY <1>0, <1>5, <1>6, <1>7 DEF DropsHold, ListedIsArmed
<1>11. RemovesHold'
  BY <1>0, <1>5, <1>6, <1>7, <1>8 DEF RemovesHold
<1>12. TablesHold'
  BY <1>0, <1>5, <1>6, <1>7 DEF TablesHold, Straight, SchemaTypes
<1>13. AddsHold'
  <2> SUFFICES ASSUME Straight, NEW d \in Editors, NEW u \in TableNames, NEW j \in Columns, Adding(d, u, j)'
               PROVE  /\ HasColumn(u, j)' /\ <<u, j>> \notin columns
                      /\ \A e \in Editors : Adding(e, u, j)' => d = e
    BY <1>0, <1>7 DEF AddsHold, Straight
  <2>1. CASE u = t /\ j = k
    <3>1. ~HasColumn(t, k) /\ \A e \in Editors : ~Adding(e, t, k)
      BY <1>2, <2>1 DEF AddsHold, HasColumn
    <3>2. <<t, k>> \notin columns
      BY <1>2, <1>8, <2>1, <3>1 DEF ColumnsHold, Straight
    <3> QED  BY <1>5, <1>6, <2>1, <3>1, <3>2
  <2>2. CASE ~(u = t /\ j = k)
    BY <1>5, <1>6, <2>2 DEF AddsHold
  <2> QED  BY <2>1, <2>2
<1>14. ColumnsHold'
  <2>1. \A d \in Editors : ask'[d].pc = "columns" <=> ask[d].pc = "columns"
    BY <1>0, <1>1
  <2> QED  BY <1>0, <1>5, <1>6, <1>7, <2>1 DEF ColumnsHold, Straight
<1>15. KeysHold'
  <2>1. \A d \in Editors : /\ ask'[d].pc = "relation" <=> ask[d].pc = "relation"
                           /\ ask'[d].pc \in {"columns", "relations"} <=> ask[d].pc \in {"columns", "relations"}
                           /\ Key(ask'[d]) = Key(ask[d])
    BY <1>0, <1>1 DEF Key
  <2> QED  BY <1>0, <1>5, <1>7, <2>1 DEF KeysHold, Straight, AllKeys
<1> QED  BY <1>3, <1>4, <1>9, <1>10, <1>11, <1>12, <1>13, <1>14, <1>15

LEMMA ListColumnNext ==
    ASSUME SchemaInv, NEW c \in Editors, ListColumn(c), <<ask[c].table, ask[c].column>> \notin columns
    PROVE  SchemaInv'
<1> DEFINE t == ask[c].table
<1> DEFINE k == ask[c].column
<1> DEFINE step == IF ask[c].target = None THEN "bump" ELSE "key"
<1> USE DEF SchemaInv
<1>0. /\ ask[c].pc = "column" /\ ask' = [ask EXCEPT ![c].pc = step]
      /\ columns' = columns \cup {<<t, k>>}
      /\ UNCHANGED <<real, armed, keys, tables, relations, counts, cache, marks>>
  BY DEF ListColumn, ChangeGo, database
<1>1. /\ step \in SchemaSteps /\ ask' \in [Editors -> AnyChange]
      /\ ask'[c].pc = step /\ ask'[c].op = ask[c].op /\ ask'[c].table = t /\ ask'[c].column = k
      /\ ask'[c].target = ask[c].target /\ \A d \in Editors : d # c => ask'[d] = ask[d]
  <2>1. step \in SchemaSteps
    BY DEF SchemaSteps
  <2> HIDE DEF step
  <2> QED  BY <1>0, <2>1, AskStep
<1>2. /\ t \in TableNames /\ k \in Columns /\ Changing(c) /\ Adding(c, t, k) /\ ask[c].op \in {"create", "add"}
      /\ ask[c].target \in TableNames \cup {None}
  BY <1>0 DEF SchemaTypes, Formed, StepsOf, Ops, AnyChange, Changing, Adding
<1>3. SchemaTypes'
  <2>1. Formed(ask'[c])
    BY <1>0, <1>1, <1>2 DEF SchemaTypes, Formed, StepsOf, Ops
  <2> QED  BY <1>0, <1>1, <1>2, <2>1 DEF SchemaTypes, counts, marks
<1>4. NoOverlap' /\ CountsHold' /\ SnapshotsHold'
  <2>1. Dirty(c)'
    BY <1>0, <1>1, <1>2 DEF Dirty
  <2> QED  BY <1>0, <1>1, <1>2, <2>1, Works
<1>5. \A d \in Editors, u \in TableNames :
        /\ Building(d, u)' <=> Building(d, u)
        /\ Dropping(d, u)' <=> Dropping(d, u)
        /\ \A j \in Columns : /\ Adding(d, u, j)' <=> Adding(d, u, j) /\ d # c
                              /\ Removing(d, u, j)' <=> Removing(d, u, j)
  BY <1>0, <1>1 DEF Building, Dropping, Adding, Removing
<1>6. \A u, j : (Exists(u)' <=> Exists(u)) /\ (HasColumn(u, j)' <=> HasColumn(u, j))
  BY <1>0 DEF Exists, HasColumn
<1>7. overlapped' = overlapped /\ torn' = torn
  BY <1>0 DEF marks
<1>8. Straight => HasColumn(t, k) /\ \A d \in Editors : Adding(d, t, k) => d = c
  BY <1>2 DEF AddsHold
<1>9. BuildersHold'
  <2>1. \A d \in Editors, u \in TableNames : Building(d, u) => ask'[d] = ask[d]
    BY <1>0, <1>1 DEF Building
  <2>2. \A d \in Editors : ask'[d].pc = "ddl" => ask'[d] = ask[d]
    BY <1>0, <1>1
  <2> QED  BY <1>0, <1>5, <1>6, <1>7, <2>1, <2>2 DEF BuildersHold
<1>10. DropsHold' /\ ListedIsArmed' /\ RemovesHold'
  BY <1>0, <1>5, <1>6, <1>7 DEF DropsHold, ListedIsArmed, RemovesHold
<1>11. TablesHold'
  BY <1>0, <1>5, <1>6, <1>7 DEF TablesHold, Straight, SchemaTypes
<1>12. AddsHold'
  BY <1>0, <1>5, <1>6, <1>7, <1>8 DEF AddsHold, Straight
<1>13. ColumnsHold'
  <2>1. \A d \in Editors : ask'[d].pc = "columns" <=> ask[d].pc = "columns"
    BY <1>0, <1>1
  <2>2. \A u \in TableNames, j \in Columns : Adding(c, u, j) => u = t /\ j = k
    BY DEF Adding
  <2> QED  BY <1>0, <1>5, <1>6, <1>7, <1>8, <2>1, <2>2 DEF ColumnsHold, Straight
<1>14. KeysHold'
  <2>1. \A d \in Editors : /\ ask'[d].pc = "relation" <=> ask[d].pc = "relation"
                           /\ ask'[d].pc \in {"columns", "relations"} <=> ask[d].pc \in {"columns", "relations"}
                           /\ Key(ask'[d]) = Key(ask[d])
    BY <1>0, <1>1 DEF Key
  <2> QED  BY <1>0, <1>5, <1>7, <2>1 DEF KeysHold, Straight, AllKeys
<1> QED  BY <1>3, <1>4, <1>9, <1>10, <1>11, <1>12, <1>13, <1>14

LEMMA AddKeyNext ==
    ASSUME SchemaInv, NEW c \in Editors, AddKey(c), MayAddKey(ask[c])
    PROVE  SchemaInv'
<1> DEFINE t == ask[c].table
<1> DEFINE x == Key(ask[c])
<1> USE DEF SchemaInv
<1>0. /\ ask[c].pc = "key" /\ ask' = [ask EXCEPT ![c].pc = "relation"]
      /\ keys' = keys \cup {x}
      /\ UNCHANGED <<real, armed, tables, columns, relations, counts, cache, marks>>
  BY DEF AddKey, ChangeGo, metadata, marks
<1>1. /\ "relation" \in SchemaSteps /\ ask' \in [Editors -> AnyChange]
      /\ ask'[c].pc = "relation" /\ ask'[c].op = ask[c].op /\ ask'[c].table = t /\ ask'[c].column = ask[c].column
      /\ ask'[c].target = ask[c].target /\ \A d \in Editors : d # c => ask'[d] = ask[d]
  <2>1. "relation" \in SchemaSteps
    BY DEF SchemaSteps
  <2> QED  BY <1>0, <2>1, AskStep
<1>2. /\ t \in TableNames /\ ask[c].column \in Columns /\ ask[c].target \in TableNames
      /\ Changing(c) /\ ask[c].op \in {"create", "add", "relate"} /\ ~Removes(ask[c].op)
  BY <1>0 DEF SchemaTypes, Formed, StepsOf, Ops, Changing, Removes
<1>3. x \in AllKeys /\ x.from = t /\ x.column = ask[c].column /\ x.to = ask[c].target
  BY <1>2 DEF Key, AllKeys
<1>4. SchemaTypes'
  <2>1. Formed(ask'[c])
    BY <1>0, <1>1, <1>2 DEF SchemaTypes, Formed, StepsOf, Ops
  <2> QED  BY <1>0, <1>1, <1>3, <2>1 DEF SchemaTypes, counts, marks
<1>5. NoOverlap' /\ CountsHold' /\ SnapshotsHold'
  <2>1. Dirty(c)' \/ (~Dirty(c) /\ UNCHANGED <<tables, columns>>)
    BY <1>0, <1>1, <1>2 DEF Dirty
  <2> QED  BY <1>0, <1>1, <1>2, <2>1, Works
<1>6. \A d \in Editors, u \in TableNames :
        /\ Building(d, u)' <=> Building(d, u)
        /\ Dropping(d, u)' <=> Dropping(d, u)
        /\ \A j \in Columns : /\ Adding(d, u, j)' <=> Adding(d, u, j)
                              /\ Removing(d, u, j)' <=> Removing(d, u, j)
  BY <1>0, <1>1 DEF Building, Dropping, Adding, Removing
<1>7. \A u, j : (Exists(u)' <=> Exists(u)) /\ (HasColumn(u, j)' <=> HasColumn(u, j))
  BY <1>0 DEF Exists, HasColumn
<1>8. overlapped' = overlapped /\ torn' = torn
  BY <1>0 DEF marks
<1>9. ~overlapped => \A d \in Editors, u \in TableNames :
        /\ Dropping(d, u) => u # x.from /\ u # x.to
        /\ \A j \in Columns : Removing(d, u, j) => u # x.from
  BY <1>2, <1>3, NoneRemoves, WitnessesChange
<1>10. BuildersHold'
  <2>1. \A d \in Editors, u \in TableNames : Building(d, u) => ask'[d] = ask[d]
    BY <1>0, <1>1 DEF Building
  <2>2. \A d \in Editors : ask'[d].pc = "ddl" => ask'[d] = ask[d]
    BY <1>0, <1>1
  <2> QED  BY <1>0, <1>6, <1>7, <1>8, <2>1, <2>2 DEF BuildersHold
<1>11. DropsHold' /\ RemovesHold' /\ ListedIsArmed'
  <2>1. DropsHold'
    BY <1>0, <1>6, <1>7, <1>8, <1>9 DEF DropsHold
  <2>2. RemovesHold'
    BY <1>0, <1>6, <1>7, <1>8, <1>9 DEF RemovesHold
  <2> QED  BY <1>0, <1>8, <2>1, <2>2 DEF ListedIsArmed
<1>12. TablesHold' /\ AddsHold'
  BY <1>0, <1>6, <1>7, <1>8 DEF TablesHold, AddsHold, Straight, SchemaTypes
<1>13. ColumnsHold'
  <2>1. \A d \in Editors : ask'[d].pc = "columns" <=> ask[d].pc = "columns"
    BY <1>0, <1>1
  <2> QED  BY <1>0, <1>6, <1>7, <1>8, <2>1 DEF ColumnsHold, Straight
<1>14. KeysHold'
  <2>1. \A d \in Editors : /\ ask'[d].pc = "relation" <=> ask[d].pc = "relation" \/ d = c
                           /\ ask'[d].pc \in {"columns", "relations"} <=> ask[d].pc \in {"columns", "relations"}
                           /\ Key(ask'[d]) = Key(ask[d])
    BY <1>0, <1>1 DEF Key
  <2> QED  BY <1>0, <1>6, <1>8, <2>1 DEF KeysHold, Straight, AllKeys
<1> QED  BY <1>4, <1>5, <1>10, <1>11, <1>12, <1>13, <1>14

LEMMA ListRelationNext ==
    ASSUME SchemaInv, NEW c \in Editors, ListRelation(c)
    PROVE  SchemaInv'
<1> DEFINE t == ask[c].table
<1> DEFINE x == Key(ask[c])
<1> USE DEF SchemaInv
<1>0. /\ ask[c].pc = "relation" /\ ask' = [ask EXCEPT ![c].pc = "bump"]
      /\ relations' = relations \cup {x}
      /\ UNCHANGED <<real, armed, keys, tables, columns, counts, cache, marks>>
  BY DEF ListRelation, ChangeGo, database
<1>1. /\ "bump" \in SchemaSteps /\ ask' \in [Editors -> AnyChange]
      /\ ask'[c].pc = "bump" /\ ask'[c].op = ask[c].op /\ ask'[c].table = t /\ ask'[c].column = ask[c].column
      /\ ask'[c].target = ask[c].target /\ \A d \in Editors : d # c => ask'[d] = ask[d]
  <2>1. "bump" \in SchemaSteps
    BY DEF SchemaSteps
  <2> QED  BY <1>0, <2>1, AskStep
<1>2. /\ t \in TableNames /\ ask[c].column \in Columns /\ ask[c].target \in TableNames
      /\ Changing(c) /\ ask[c].op \in {"create", "add", "relate"}
  BY <1>0 DEF SchemaTypes, Formed, StepsOf, Ops, Changing
<1>3. x \in AllKeys
  BY <1>2 DEF Key, AllKeys
<1>4. SchemaTypes'
  <2>1. Formed(ask'[c])
    BY <1>0, <1>1, <1>2 DEF SchemaTypes, Formed, StepsOf, Ops
  <2> QED  BY <1>0, <1>1, <1>3, <2>1 DEF SchemaTypes, counts, marks
<1>5. NoOverlap' /\ CountsHold' /\ SnapshotsHold'
  <2>1. Dirty(c)' \/ (~Dirty(c) /\ UNCHANGED <<tables, columns>>)
    BY <1>0, <1>1, <1>2 DEF Dirty
  <2> QED  BY <1>0, <1>1, <1>2, <2>1, Works
<1>6. \A d \in Editors, u \in TableNames :
        /\ Building(d, u)' <=> Building(d, u)
        /\ Dropping(d, u)' <=> Dropping(d, u)
        /\ \A j \in Columns : /\ Adding(d, u, j)' <=> Adding(d, u, j)
                              /\ Removing(d, u, j)' <=> Removing(d, u, j)
  BY <1>0, <1>1 DEF Building, Dropping, Adding, Removing
<1>7. \A u, j : (Exists(u)' <=> Exists(u)) /\ (HasColumn(u, j)' <=> HasColumn(u, j))
  BY <1>0 DEF Exists, HasColumn
<1>8. overlapped' = overlapped /\ torn' = torn
  BY <1>0 DEF marks
<1>9. BuildersHold'
  <2>1. \A d \in Editors, u \in TableNames : Building(d, u) => ask'[d] = ask[d]
    BY <1>0, <1>1 DEF Building
  <2>2. \A d \in Editors : ask'[d].pc = "ddl" => ask'[d] = ask[d]
    BY <1>0, <1>1
  <2> QED  BY <1>0, <1>6, <1>7, <1>8, <2>1, <2>2 DEF BuildersHold
<1>10. DropsHold' /\ RemovesHold' /\ ListedIsArmed'
  BY <1>0, <1>6, <1>7, <1>8 DEF DropsHold, RemovesHold, ListedIsArmed
<1>11. TablesHold' /\ AddsHold'
  BY <1>0, <1>6, <1>7, <1>8 DEF TablesHold, AddsHold, Straight, SchemaTypes
<1>12. ColumnsHold'
  <2>1. \A d \in Editors : ask'[d].pc = "columns" <=> ask[d].pc = "columns"
    BY <1>0, <1>1
  <2> QED  BY <1>0, <1>6, <1>7, <1>8, <2>1 DEF ColumnsHold, Straight
<1>13. KeysHold'
  <2>1. \A d \in Editors : /\ ask'[d].pc = "relation" <=> ask[d].pc = "relation" /\ d # c
                           /\ ask'[d].pc \in {"columns", "relations"} <=> ask[d].pc \in {"columns", "relations"}
                           /\ Key(ask'[d]) = Key(ask[d])
    BY <1>0, <1>1 DEF Key
  <2>2. ~overlapped => x \in keys
    BY <1>0 DEF KeysHold
  <2> QED  BY <1>0, <1>6, <1>8, <2>1, <2>2 DEF KeysHold, Straight, AllKeys
<1> QED  BY <1>4, <1>5, <1>9, <1>10, <1>11, <1>12, <1>13

LEMMA DropTableNext ==
    ASSUME SchemaInv, NEW c \in Editors, DropTable(c)
    PROVE  SchemaInv'
<1> DEFINE t == ask[c].table
<1> USE DEF SchemaInv
<1>0. /\ ask[c].op = "drop" /\ ask[c].pc = "ddl" /\ ask' = [ask EXCEPT ![c].pc = "columns"]
      /\ real' = [u \in DOMAIN real \ {t} |-> real[u]] /\ armed' = armed \ {t}
      /\ keys' = {x \in keys : t \notin {x.from, x.to}}
      /\ UNCHANGED <<tables, columns, relations, counts, cache, marks>>
  BY DEF DropTable, ChangeAt, ChangeGo, database, metadata
<1>1. /\ "columns" \in SchemaSteps /\ ask' \in [Editors -> AnyChange]
      /\ ask'[c].pc = "columns" /\ ask'[c].op = "drop" /\ ask'[c].table = t /\ ask'[c].column = ask[c].column
      /\ ask'[c].target = ask[c].target /\ \A d \in Editors : d # c => ask'[d] = ask[d]
  <2>1. "columns" \in SchemaSteps
    BY DEF SchemaSteps
  <2> QED  BY <1>0, <2>1, AskStep
<1>2. t \in TableNames /\ Changing(c) /\ Removes(ask[c].op)
  BY <1>0 DEF SchemaTypes, Formed, Ops, Changing, Removes
<1>3. Formed(ask'[c])
  BY <1>0, <1>1 DEF SchemaTypes, Formed, StepsOf, Ops
<1>4. overlapped' = overlapped /\ torn' = torn /\ version' = version /\ journal' = journal /\ cache' = cache
  BY <1>0 DEF marks, counts
<1>5. ~overlapped => \A d \in Editors : d # c =>
        /\ ~Building(d, t) /\ \A j \in Columns : ~Adding(d, t, j)
        /\ Changing(d) => ask[d].table # t /\ ask[d].target # t
  BY <1>2, RemovesAlone, WitnessesChange
<1>6. \A d \in Editors : /\ ask'[d].pc = "relation" <=> ask[d].pc = "relation"
                         /\ Key(ask'[d]) = Key(ask[d])
                         /\ ask[d].pc = "relation" => d # c /\ Changing(d)
  BY <1>0, <1>1 DEF Key, SchemaTypes, Formed, StepsOf, Changing
<1>7. SchemaTypes'
  BY <1>0, <1>1, <1>3, <1>4 DEF SchemaTypes
<1>8. NoOverlap' /\ CountsHold' /\ SnapshotsHold'
  <2>1. ~Dirty(c) /\ UNCHANGED <<tables, columns>>
    BY <1>0 DEF Dirty
  <2> QED  BY <1>0, <1>1, <1>2, <2>1, Works
<1>9. \A d \in Editors, u \in TableNames :
        /\ Building(d, u)' <=> Building(d, u)
        /\ Dropping(d, u)' <=> Dropping(d, u) \/ (d = c /\ u = t)
        /\ \A j \in Columns : /\ Adding(d, u, j)' <=> Adding(d, u, j)
                              /\ Removing(d, u, j)' <=> Removing(d, u, j)
  BY <1>0, <1>1 DEF Building, Dropping, Adding, Removing
<1>10. /\ DOMAIN real' = DOMAIN real \ {t}
       /\ \A u \in TableNames : /\ Exists(u)' <=> Exists(u) /\ u # t
                                /\ \A j \in Columns : HasColumn(u, j)' <=> HasColumn(u, j) /\ u # t
  BY <1>0 DEF Exists, HasColumn
<1>11. BuildersHold'
  <2> SUFFICES ASSUME ~overlapped, NEW d \in Editors, NEW u \in TableNames
               PROVE  /\ ask'[d].op = "create" /\ ask'[d].pc = "ddl" /\ ask'[d].table = u => (u \in tables => Exists(u)')
                      /\ Building(d, u)' => /\ Exists(u)' /\ u \notin tables
                                            /\ u \in armed' <=> ask'[d].pc = "table"
                                            /\ \A e \in Editors : Building(e, u)' => d = e
    BY <1>0, <1>4 DEF BuildersHold
  <2>1. CASE d = c
    BY <1>0, <1>1, <1>9, <2>1 DEF Building
  <2>2. CASE d # c
    <3>1. /\ ask'[d].op = "create" /\ ask'[d].pc = "ddl" /\ ask'[d].table = u => u # t
          /\ Building(d, u) => u # t
      BY <1>1, <1>5, <2>2 DEF Changing
    <3> QED  BY <1>0, <1>1, <1>9, <1>10, <2>2, <3>1 DEF BuildersHold
  <2> QED  BY <2>1, <2>2
<1>12. DropsHold'
  BY <1>0, <1>4, <1>9, <1>10 DEF DropsHold
<1>13. RemovesHold'
  BY <1>0, <1>4, <1>9, <1>10 DEF RemovesHold
<1>14. ListedIsArmed'
  BY <1>0, <1>4, <1>10 DEF ListedIsArmed
<1>15. TablesHold'
  BY <1>0, <1>2, <1>4, <1>9, <1>10 DEF TablesHold, Straight, SchemaTypes
<1>16. AddsHold'
  <2>1. \A j \in Columns : ~Adding(c, t, j)
    BY <1>0 DEF Adding
  <2> QED  BY <1>0, <1>4, <1>5, <1>9, <1>10, <2>1 DEF AddsHold, Straight
<1>17. ColumnsHold'
  <2>1. \A d \in Editors : ask'[d].pc = "columns" <=> ask[d].pc = "columns" \/ d = c
    BY <1>0, <1>1
  <2> QED  BY <1>0, <1>4, <1>9, <1>10, <2>1 DEF ColumnsHold, Straight
<1>18. KeysHold'
  <2>1. \A d \in Editors : ask'[d].pc \in {"columns", "relations"} <=> ask[d].pc \in {"columns", "relations"} \/ d = c
    BY <1>0, <1>1
  <2>2. ~overlapped => \A d \in Editors : ask[d].pc = "relation" => Key(ask[d]) \in keys'
    BY <1>0, <1>5, <1>6 DEF KeysHold, Key
  <2>3. ASSUME Straight, NEW x \in AllKeys, x \in keys' \ relations
        PROVE  \E d \in Editors : ask'[d].pc = "relation" /\ Key(ask'[d]) = x
    BY <1>0, <1>6, <2>3 DEF KeysHold
  <2>4. ASSUME Straight, NEW x \in AllKeys, x \in relations \ keys'
        PROVE  \E d \in Editors : ask'[d].pc \in {"columns", "relations"}
                    /\ (Dropping(d, x.from)' \/ Dropping(d, x.to)' \/ Removing(d, x.from, x.column)')
    <3>1. x.from \in TableNames /\ x.to \in TableNames /\ x.column \in Columns
      BY DEF AllKeys
    <3>2. CASE t \in {x.from, x.to}
      BY <1>9, <2>1, <3>1, <3>2
    <3>3. CASE t \notin {x.from, x.to}
      BY <1>0, <1>9, <2>1, <2>4, <3>1, <3>3 DEF KeysHold
    <3> QED  BY <3>2, <3>3
  <2> QED  BY <1>0, <1>4, <1>6, <2>2, <2>3, <2>4 DEF KeysHold, Straight
<1> QED  BY <1>7, <1>8, <1>11, <1>12, <1>13, <1>14, <1>15, <1>16, <1>17, <1>18

LEMMA UnlistColumnsNext ==
    ASSUME SchemaInv, NEW c \in Editors, UnlistColumns(c)
    PROVE  SchemaInv'
<1> DEFINE t == ask[c].table
<1> USE DEF SchemaInv
<1>0. /\ ask[c].op = "drop" /\ ask[c].pc = "columns" /\ ask' = [ask EXCEPT ![c].pc = "relations"]
      /\ columns' = {x \in columns : x[1] # t}
      /\ UNCHANGED <<real, armed, keys, tables, relations, counts, cache, marks>>
  BY DEF UnlistColumns, ChangeAt, ChangeGo, database, metadata
<1>1. /\ "relations" \in SchemaSteps /\ ask' \in [Editors -> AnyChange]
      /\ ask'[c].pc = "relations" /\ ask'[c].op = "drop" /\ ask'[c].table = t /\ ask'[c].column = ask[c].column
      /\ ask'[c].target = ask[c].target /\ \A d \in Editors : d # c => ask'[d] = ask[d]
  <2>1. "relations" \in SchemaSteps
    BY DEF SchemaSteps
  <2> QED  BY <1>0, <2>1, AskStep
<1>2. t \in TableNames /\ Changing(c) /\ Removes(ask[c].op)
  BY <1>0 DEF SchemaTypes, Formed, Ops, Changing, Removes
<1>3. Formed(ask'[c])
  BY <1>0, <1>1 DEF SchemaTypes, Formed, StepsOf, Ops
<1>4. overlapped' = overlapped /\ torn' = torn /\ version' = version /\ journal' = journal /\ cache' = cache
  BY <1>0 DEF marks, counts
<1>5. ~overlapped => \A d \in Editors : d # c =>
        /\ ~Building(d, t) /\ \A j \in Columns : ~Adding(d, t, j)
        /\ Changing(d) => ask[d].table # t /\ ask[d].target # t
  BY <1>2, RemovesAlone, WitnessesChange
<1>6. \A d \in Editors : /\ ask'[d].pc = "relation" <=> ask[d].pc = "relation"
                         /\ Key(ask'[d]) = Key(ask[d])
                         /\ ask[d].pc = "relation" => d # c /\ Changing(d)
  BY <1>0, <1>1 DEF Key, SchemaTypes, Formed, StepsOf, Changing
<1>7. SchemaTypes'
  BY <1>0, <1>1, <1>3, <1>4 DEF SchemaTypes
<1>8. NoOverlap' /\ CountsHold' /\ SnapshotsHold'
  <2>1. Dirty(c)'
    BY <1>0, <1>1 DEF Dirty
  <2> QED  BY <1>0, <1>1, <1>2, <2>1, Works
<1>9. \A d \in Editors, u \in TableNames :
        /\ Building(d, u)' <=> Building(d, u)
        /\ Dropping(d, u)' <=> Dropping(d, u)
        /\ \A j \in Columns : /\ Adding(d, u, j)' <=> Adding(d, u, j)
                              /\ Removing(d, u, j)' <=> Removing(d, u, j)
  BY <1>0, <1>1 DEF Building, Dropping, Adding, Removing
<1>10. \A u, j : (Exists(u)' <=> Exists(u)) /\ (HasColumn(u, j)' <=> HasColumn(u, j))
  BY <1>0 DEF Exists, HasColumn
<1>11. BuildersHold'
  <2>1. \A d \in Editors, u \in TableNames : Building(d, u) => ask'[d] = ask[d]
    BY <1>0, <1>1 DEF Building
  <2>2. \A d \in Editors : ask'[d].pc = "ddl" => ask'[d] = ask[d]
    BY <1>0, <1>1
  <2> QED  BY <1>0, <1>4, <1>9, <1>10, <2>1, <2>2 DEF BuildersHold
<1>12. DropsHold' /\ RemovesHold' /\ ListedIsArmed'
  BY <1>0, <1>4, <1>9, <1>10 DEF DropsHold, RemovesHold, ListedIsArmed
<1>13. TablesHold'
  BY <1>0, <1>4, <1>9 DEF TablesHold, Straight, SchemaTypes
<1>14. AddsHold'
  BY <1>0, <1>4, <1>9, <1>10 DEF AddsHold, Straight
<1>15. ColumnsHold'
  <2>1. \A d \in Editors : ask'[d].pc = "columns" <=> ask[d].pc = "columns" /\ d # c
    BY <1>0, <1>1
  <2>2. Dropping(c, t) /\ \A u \in TableNames : /\ Dropping(c, u) => u = t
                                                /\ \A j \in Columns : ~Removing(c, u, j)
    BY <1>0 DEF Dropping, Removing
  <2>3. ~overlapped => \A j \in Columns : ~HasColumn(t, j)
    BY <1>2, <2>2 DEF DropsHold, HasColumn
  <2> QED  BY <1>0, <1>4, <1>9, <1>10, <2>1, <2>2, <2>3 DEF ColumnsHold, Straight
<1>16. KeysHold'
  <2>1. \A d \in Editors : ask'[d].pc \in {"columns", "relations"} <=> ask[d].pc \in {"columns", "relations"}
    BY <1>0, <1>1
  <2> QED  BY <1>0, <1>4, <1>6, <1>9, <2>1 DEF KeysHold, Straight, AllKeys
<1> QED  BY <1>7, <1>8, <1>11, <1>12, <1>13, <1>14, <1>15, <1>16

LEMMA UnlistRelationsNext ==
    ASSUME SchemaInv, NEW c \in Editors, UnlistRelations(c)
    PROVE  SchemaInv'
<1> DEFINE t == ask[c].table
<1> USE DEF SchemaInv
<1>0. /\ ask[c].op = "drop" /\ ask[c].pc = "relations" /\ ask' = [ask EXCEPT ![c].pc = "table"]
      /\ relations' = {x \in relations : t \notin {x.from, x.to}}
      /\ UNCHANGED <<real, armed, keys, tables, columns, counts, cache, marks>>
  BY DEF UnlistRelations, ChangeAt, ChangeGo, database, metadata
<1>1. /\ "table" \in SchemaSteps /\ ask' \in [Editors -> AnyChange]
      /\ ask'[c].pc = "table" /\ ask'[c].op = "drop" /\ ask'[c].table = t /\ ask'[c].column = ask[c].column
      /\ ask'[c].target = ask[c].target /\ \A d \in Editors : d # c => ask'[d] = ask[d]
  <2>1. "table" \in SchemaSteps
    BY DEF SchemaSteps
  <2> QED  BY <1>0, <2>1, AskStep
<1>2. t \in TableNames /\ Changing(c) /\ Removes(ask[c].op)
  BY <1>0 DEF SchemaTypes, Formed, Ops, Changing, Removes
<1>3. Formed(ask'[c])
  BY <1>0, <1>1 DEF SchemaTypes, Formed, StepsOf, Ops
<1>4. overlapped' = overlapped /\ torn' = torn /\ version' = version /\ journal' = journal /\ cache' = cache
  BY <1>0 DEF marks, counts
<1>5. ~overlapped => \A d \in Editors : d # c =>
        /\ ~Building(d, t) /\ \A j \in Columns : ~Adding(d, t, j)
        /\ Changing(d) => ask[d].table # t /\ ask[d].target # t
  BY <1>2, RemovesAlone, WitnessesChange
<1>6. \A d \in Editors : /\ ask'[d].pc = "relation" <=> ask[d].pc = "relation"
                         /\ Key(ask'[d]) = Key(ask[d])
                         /\ ask[d].pc = "relation" => d # c /\ Changing(d)
  BY <1>0, <1>1 DEF Key, SchemaTypes, Formed, StepsOf, Changing
<1>7. SchemaTypes'
  BY <1>0, <1>1, <1>3, <1>4 DEF SchemaTypes
<1>8. NoOverlap' /\ CountsHold' /\ SnapshotsHold'
  <2>1. Dirty(c)'
    BY <1>0, <1>1 DEF Dirty
  <2> QED  BY <1>0, <1>1, <1>2, <2>1, Works
<1>9. \A d \in Editors, u \in TableNames :
        /\ Building(d, u)' <=> Building(d, u)
        /\ Dropping(d, u)' <=> Dropping(d, u)
        /\ \A j \in Columns : /\ Adding(d, u, j)' <=> Adding(d, u, j)
                              /\ Removing(d, u, j)' <=> Removing(d, u, j)
  BY <1>0, <1>1 DEF Building, Dropping, Adding, Removing
<1>10. \A u, j : (Exists(u)' <=> Exists(u)) /\ (HasColumn(u, j)' <=> HasColumn(u, j))
  BY <1>0 DEF Exists, HasColumn
<1>11. BuildersHold'
  <2>1. \A d \in Editors, u \in TableNames : Building(d, u) => ask'[d] = ask[d]
    BY <1>0, <1>1 DEF Building
  <2>2. \A d \in Editors : ask'[d].pc = "ddl" => ask'[d] = ask[d]
    BY <1>0, <1>1
  <2> QED  BY <1>0, <1>4, <1>9, <1>10, <2>1, <2>2 DEF BuildersHold
<1>12. DropsHold' /\ RemovesHold' /\ ListedIsArmed'
  BY <1>0, <1>4, <1>9, <1>10 DEF DropsHold, RemovesHold, ListedIsArmed
<1>13. TablesHold'
  BY <1>0, <1>4, <1>9 DEF TablesHold, Straight, SchemaTypes
<1>14. AddsHold'
  BY <1>0, <1>4, <1>9, <1>10 DEF AddsHold, Straight
<1>15. ColumnsHold'
  <2>1. \A d \in Editors : ask'[d].pc = "columns" <=> ask[d].pc = "columns"
    BY <1>0, <1>1
  <2> QED  BY <1>0, <1>4, <1>9, <1>10, <2>1 DEF ColumnsHold, Straight
<1>16. KeysHold'
  <2>1. \A d \in Editors : ask'[d].pc \in {"columns", "relations"} <=> ask[d].pc \in {"columns", "relations"} /\ d # c
    BY <1>0, <1>1
  <2>2. Dropping(c, t) /\ \A u \in TableNames : /\ Dropping(c, u) => u = t
                                                /\ \A j \in Columns : ~Removing(c, u, j)
    BY <1>0 DEF Dropping, Removing
  <2>3. ~overlapped => \A x \in keys : t \notin {x.from, x.to}
    BY <1>2, <2>2 DEF DropsHold
  <2> QED  BY <1>0, <1>4, <1>6, <1>9, <2>1, <2>2, <2>3 DEF KeysHold, Straight, AllKeys
<1> QED  BY <1>7, <1>8, <1>11, <1>12, <1>13, <1>14, <1>15, <1>16

LEMMA UnlistTableNext ==
    ASSUME SchemaInv, NEW c \in Editors, UnlistTable(c)
    PROVE  SchemaInv'
<1> DEFINE t == ask[c].table
<1> USE DEF SchemaInv
<1>0. /\ ask[c].op = "drop" /\ ask[c].pc = "table" /\ ask' = [ask EXCEPT ![c].pc = "bump"]
      /\ tables' = tables \ {t}
      /\ UNCHANGED <<real, armed, keys, columns, relations, counts, cache, marks>>
  BY DEF UnlistTable, ChangeAt, ChangeGo, database, metadata
<1>1. /\ "bump" \in SchemaSteps /\ ask' \in [Editors -> AnyChange]
      /\ ask'[c].pc = "bump" /\ ask'[c].op = "drop" /\ ask'[c].table = t /\ ask'[c].column = ask[c].column
      /\ ask'[c].target = ask[c].target /\ \A d \in Editors : d # c => ask'[d] = ask[d]
  <2>1. "bump" \in SchemaSteps
    BY DEF SchemaSteps
  <2> QED  BY <1>0, <2>1, AskStep
<1>2. t \in TableNames /\ Changing(c) /\ Removes(ask[c].op)
  BY <1>0 DEF SchemaTypes, Formed, Ops, Changing, Removes
<1>3. Formed(ask'[c])
  BY <1>0, <1>1 DEF SchemaTypes, Formed, StepsOf, Ops
<1>4. overlapped' = overlapped /\ torn' = torn /\ version' = version /\ journal' = journal /\ cache' = cache
  BY <1>0 DEF marks, counts
<1>5. ~overlapped => \A d \in Editors : d # c =>
        /\ ~Building(d, t) /\ \A j \in Columns : ~Adding(d, t, j)
        /\ Changing(d) => ask[d].table # t /\ ask[d].target # t
  BY <1>2, RemovesAlone, WitnessesChange
<1>6. \A d \in Editors : /\ ask'[d].pc = "relation" <=> ask[d].pc = "relation"
                         /\ Key(ask'[d]) = Key(ask[d])
                         /\ ask[d].pc = "relation" => d # c /\ Changing(d)
  BY <1>0, <1>1 DEF Key, SchemaTypes, Formed, StepsOf, Changing
<1>7. SchemaTypes'
  BY <1>0, <1>1, <1>3, <1>4 DEF SchemaTypes
<1>8. NoOverlap' /\ CountsHold' /\ SnapshotsHold'
  <2>1. Dirty(c)'
    BY <1>0, <1>1 DEF Dirty
  <2> QED  BY <1>0, <1>1, <1>2, <2>1, Works
<1>9. \A d \in Editors, u \in TableNames :
        /\ Building(d, u)' <=> Building(d, u)
        /\ Dropping(d, u)' <=> Dropping(d, u) /\ d # c
        /\ \A j \in Columns : /\ Adding(d, u, j)' <=> Adding(d, u, j)
                              /\ Removing(d, u, j)' <=> Removing(d, u, j)
  BY <1>0, <1>1 DEF Building, Dropping, Adding, Removing
<1>10. \A u, j : (Exists(u)' <=> Exists(u)) /\ (HasColumn(u, j)' <=> HasColumn(u, j))
  BY <1>0 DEF Exists, HasColumn
<1>11. BuildersHold'
  <2>1. \A d \in Editors, u \in TableNames : Building(d, u) => ask'[d] = ask[d]
    BY <1>0, <1>1 DEF Building
  <2>2. \A d \in Editors : ask'[d].pc = "ddl" => ask'[d] = ask[d]
    BY <1>0, <1>1
  <2> QED  BY <1>0, <1>4, <1>9, <1>10, <2>1, <2>2 DEF BuildersHold
<1>12. DropsHold' /\ RemovesHold' /\ ListedIsArmed'
  BY <1>0, <1>4, <1>9, <1>10 DEF DropsHold, RemovesHold, ListedIsArmed
<1>13. TablesHold'
  <2>1. Dropping(c, t) /\ \A u \in TableNames : Dropping(c, u) => u = t
    BY <1>0 DEF Dropping
  <2>2. ~overlapped => t \notin DOMAIN real
    BY <1>2, <2>1 DEF DropsHold, Exists
  <2> QED  BY <1>0, <1>4, <1>9, <2>1, <2>2 DEF TablesHold, Straight, SchemaTypes
<1>14. AddsHold'
  BY <1>0, <1>4, <1>9, <1>10 DEF AddsHold, Straight
<1>15. ColumnsHold'
  <2>1. \A d \in Editors : ask'[d].pc = "columns" <=> ask[d].pc = "columns"
    BY <1>0, <1>1
  <2> QED  BY <1>0, <1>4, <1>9, <1>10, <2>1 DEF ColumnsHold, Straight
<1>16. KeysHold'
  <2>1. \A d \in Editors : ask'[d].pc \in {"columns", "relations"} <=> ask[d].pc \in {"columns", "relations"}
    BY <1>0, <1>1
  <2> QED  BY <1>0, <1>4, <1>6, <1>9, <2>1 DEF KeysHold, Straight, AllKeys
<1> QED  BY <1>7, <1>8, <1>11, <1>12, <1>13, <1>14, <1>15, <1>16

LEMMA RemoveColumnNext ==
    ASSUME SchemaInv, NEW c \in Editors, RemoveColumn(c), Exists(ask[c].table)
    PROVE  SchemaInv'
<1> DEFINE t == ask[c].table
<1> DEFINE k == ask[c].column
<1> USE DEF SchemaInv
<1>0. /\ ask[c].op = "remove" /\ ask[c].pc = "ddl" /\ ask' = [ask EXCEPT ![c].pc = "columns"]
      /\ real' = [real EXCEPT ![t] = @ \ {k}]
      /\ keys' = {x \in keys : ~(x.from = t /\ x.column = k)}
      /\ UNCHANGED <<armed, tables, columns, relations, counts, cache, marks>>
  BY DEF RemoveColumn, ChangeAt, ChangeGo, database, metadata
<1>1. /\ "columns" \in SchemaSteps /\ ask' \in [Editors -> AnyChange]
      /\ ask'[c].pc = "columns" /\ ask'[c].op = "remove" /\ ask'[c].table = t /\ ask'[c].column = ask[c].column
      /\ ask'[c].target = ask[c].target /\ \A d \in Editors : d # c => ask'[d] = ask[d]
  <2>1. "columns" \in SchemaSteps
    BY DEF SchemaSteps
  <2> QED  BY <1>0, <2>1, AskStep
<1>2. t \in TableNames /\ Changing(c) /\ Removes(ask[c].op) /\ k \in Columns
  BY <1>0 DEF SchemaTypes, Formed, Ops, Changing, Removes
<1>3. Formed(ask'[c])
  BY <1>0, <1>1 DEF SchemaTypes, Formed, StepsOf, Ops
<1>4. overlapped' = overlapped /\ torn' = torn /\ version' = version /\ journal' = journal /\ cache' = cache
  BY <1>0 DEF marks, counts
<1>5. ~overlapped => \A d \in Editors : d # c =>
        /\ ~Building(d, t) /\ \A j \in Columns : ~Adding(d, t, j)
        /\ Changing(d) => ask[d].table # t /\ ask[d].target # t
  BY <1>2, RemovesAlone, WitnessesChange
<1>6. \A d \in Editors : /\ ask'[d].pc = "relation" <=> ask[d].pc = "relation"
                         /\ Key(ask'[d]) = Key(ask[d])
                         /\ ask[d].pc = "relation" => d # c /\ Changing(d)
  BY <1>0, <1>1 DEF Key, SchemaTypes, Formed, StepsOf, Changing
<1>7. SchemaTypes'
  <2>1. DOMAIN real' = DOMAIN real /\ \A u \in DOMAIN real : real'[u] \subseteq real[u]
    BY <1>0
  <2> QED  BY <1>0, <1>1, <1>3, <1>4, <2>1 DEF SchemaTypes
<1>8. NoOverlap' /\ CountsHold' /\ SnapshotsHold'
  <2>1. ~Dirty(c) /\ UNCHANGED <<tables, columns>>
    BY <1>0 DEF Dirty
  <2> QED  BY <1>0, <1>1, <1>2, <2>1, Works
<1>9. \A d \in Editors, u \in TableNames :
        /\ Building(d, u)' <=> Building(d, u)
        /\ Dropping(d, u)' <=> Dropping(d, u)
        /\ \A j \in Columns : /\ Adding(d, u, j)' <=> Adding(d, u, j)
                              /\ Removing(d, u, j)' <=> Removing(d, u, j) \/ (d = c /\ u = t /\ j = k)
  BY <1>0, <1>1 DEF Building, Dropping, Adding, Removing
<1>10. /\ DOMAIN real' = DOMAIN real
       /\ \A u \in TableNames : /\ Exists(u)' <=> Exists(u)
                                /\ \A j \in Columns : HasColumn(u, j)' <=> HasColumn(u, j) /\ ~(u = t /\ j = k)
  BY <1>0 DEF Exists, HasColumn
<1>11. BuildersHold'
  <2>1. \A d \in Editors, u \in TableNames : Building(d, u) => ask'[d] = ask[d]
    BY <1>0, <1>1 DEF Building
  <2>2. \A d \in Editors : ask'[d].pc = "ddl" => ask'[d] = ask[d]
    BY <1>0, <1>1
  <2> QED  BY <1>0, <1>4, <1>9, <1>10, <2>1, <2>2 DEF BuildersHold
<1>12. DropsHold' /\ RemovesHold' /\ ListedIsArmed'
  <2>1. DropsHold'
    BY <1>0, <1>4, <1>9, <1>10 DEF DropsHold
  <2>2. RemovesHold'
    BY <1>0, <1>4, <1>9, <1>10 DEF RemovesHold
  <2> QED  BY <1>0, <1>4, <1>10, <2>1, <2>2 DEF ListedIsArmed
<1>13. TablesHold'
  BY <1>0, <1>4, <1>9, <1>10 DEF TablesHold, Straight, SchemaTypes
<1>14. AddsHold'
  <2>1. \A j \in Columns : ~Adding(c, t, j)
    BY <1>0 DEF Adding
  <2> QED  BY <1>0, <1>4, <1>5, <1>9, <1>10, <2>1 DEF AddsHold, Straight
<1>15. ColumnsHold'
  <2>1. \A d \in Editors : ask'[d].pc = "columns" <=> ask[d].pc = "columns" \/ d = c
    BY <1>0, <1>1
  <2> QED  BY <1>0, <1>4, <1>9, <1>10, <2>1 DEF ColumnsHold, Straight
<1>16. KeysHold'
  <2>1. \A d \in Editors : ask'[d].pc \in {"columns", "relations"} <=> ask[d].pc \in {"columns", "relations"} \/ d = c
    BY <1>0, <1>1
  <2>2. ~overlapped => \A d \in Editors : ask[d].pc = "relation" => Key(ask[d]) \in keys'
    BY <1>0, <1>5, <1>6 DEF KeysHold, Key
  <2>3. ASSUME Straight, NEW x \in AllKeys, x \in keys' \ relations
        PROVE  \E d \in Editors : ask'[d].pc = "relation" /\ Key(ask'[d]) = x
    BY <1>0, <1>6, <2>3 DEF KeysHold
  <2>4. ASSUME Straight, NEW x \in AllKeys, x \in relations \ keys'
        PROVE  \E d \in Editors : ask'[d].pc \in {"columns", "relations"}
                    /\ (Dropping(d, x.from)' \/ Dropping(d, x.to)' \/ Removing(d, x.from, x.column)')
    <3>1. x.from \in TableNames /\ x.to \in TableNames /\ x.column \in Columns
      BY DEF AllKeys
    <3>2. CASE x.from = t /\ x.column = k
      BY <1>9, <2>1, <3>1, <3>2
    <3>3. CASE ~(x.from = t /\ x.column = k)
      BY <1>0, <1>9, <2>1, <2>4, <3>1, <3>3 DEF KeysHold
    <3> QED  BY <3>2, <3>3
  <2> QED  BY <1>0, <1>4, <1>6, <2>2, <2>3, <2>4 DEF KeysHold, Straight
<1> QED  BY <1>7, <1>8, <1>11, <1>12, <1>13, <1>14, <1>15, <1>16

LEMMA UnlistColumnNext ==
    ASSUME SchemaInv, NEW c \in Editors, UnlistColumn(c)
    PROVE  SchemaInv'
<1> DEFINE t == ask[c].table
<1> DEFINE k == ask[c].column
<1> USE DEF SchemaInv
<1>0. /\ ask[c].op = "remove" /\ ask[c].pc = "columns" /\ ask' = [ask EXCEPT ![c].pc = "relations"]
      /\ columns' = columns \ {<<t, k>>}
      /\ UNCHANGED <<real, armed, keys, tables, relations, counts, cache, marks>>
  BY DEF UnlistColumn, ChangeAt, ChangeGo, database, metadata
<1>1. /\ "relations" \in SchemaSteps /\ ask' \in [Editors -> AnyChange]
      /\ ask'[c].pc = "relations" /\ ask'[c].op = "remove" /\ ask'[c].table = t /\ ask'[c].column = ask[c].column
      /\ ask'[c].target = ask[c].target /\ \A d \in Editors : d # c => ask'[d] = ask[d]
  <2>1. "relations" \in SchemaSteps
    BY DEF SchemaSteps
  <2> QED  BY <1>0, <2>1, AskStep
<1>2. t \in TableNames /\ Changing(c) /\ Removes(ask[c].op) /\ k \in Columns
  BY <1>0 DEF SchemaTypes, Formed, Ops, Changing, Removes
<1>3. Formed(ask'[c])
  BY <1>0, <1>1 DEF SchemaTypes, Formed, StepsOf, Ops
<1>4. overlapped' = overlapped /\ torn' = torn /\ version' = version /\ journal' = journal /\ cache' = cache
  BY <1>0 DEF marks, counts
<1>5. ~overlapped => \A d \in Editors : d # c =>
        /\ ~Building(d, t) /\ \A j \in Columns : ~Adding(d, t, j)
        /\ Changing(d) => ask[d].table # t /\ ask[d].target # t
  BY <1>2, RemovesAlone, WitnessesChange
<1>6. \A d \in Editors : /\ ask'[d].pc = "relation" <=> ask[d].pc = "relation"
                         /\ Key(ask'[d]) = Key(ask[d])
                         /\ ask[d].pc = "relation" => d # c /\ Changing(d)
  BY <1>0, <1>1 DEF Key, SchemaTypes, Formed, StepsOf, Changing
<1>7. SchemaTypes'
  BY <1>0, <1>1, <1>3, <1>4 DEF SchemaTypes
<1>8. NoOverlap' /\ CountsHold' /\ SnapshotsHold'
  <2>1. Dirty(c)'
    BY <1>0, <1>1 DEF Dirty
  <2> QED  BY <1>0, <1>1, <1>2, <2>1, Works
<1>9. \A d \in Editors, u \in TableNames :
        /\ Building(d, u)' <=> Building(d, u)
        /\ Dropping(d, u)' <=> Dropping(d, u)
        /\ \A j \in Columns : /\ Adding(d, u, j)' <=> Adding(d, u, j)
                              /\ Removing(d, u, j)' <=> Removing(d, u, j)
  BY <1>0, <1>1 DEF Building, Dropping, Adding, Removing
<1>10. \A u, j : (Exists(u)' <=> Exists(u)) /\ (HasColumn(u, j)' <=> HasColumn(u, j))
  BY <1>0 DEF Exists, HasColumn
<1>11. BuildersHold'
  <2>1. \A d \in Editors, u \in TableNames : Building(d, u) => ask'[d] = ask[d]
    BY <1>0, <1>1 DEF Building
  <2>2. \A d \in Editors : ask'[d].pc = "ddl" => ask'[d] = ask[d]
    BY <1>0, <1>1
  <2> QED  BY <1>0, <1>4, <1>9, <1>10, <2>1, <2>2 DEF BuildersHold
<1>12. DropsHold' /\ RemovesHold' /\ ListedIsArmed'
  BY <1>0, <1>4, <1>9, <1>10 DEF DropsHold, RemovesHold, ListedIsArmed
<1>13. TablesHold'
  BY <1>0, <1>4, <1>9 DEF TablesHold, Straight, SchemaTypes
<1>14. AddsHold'
  BY <1>0, <1>4, <1>9, <1>10 DEF AddsHold, Straight
<1>15. ColumnsHold'
  <2>1. \A d \in Editors : ask'[d].pc = "columns" <=> ask[d].pc = "columns" /\ d # c
    BY <1>0, <1>1
  <2>2. Removing(c, t, k) /\ \A u \in TableNames : /\ ~Dropping(c, u)
                                                   /\ \A j \in Columns : Removing(c, u, j) => u = t /\ j = k
    BY <1>0 DEF Dropping, Removing
  <2>3. ~overlapped => ~HasColumn(t, k)
    BY <1>2, <2>2 DEF RemovesHold
  <2> SUFFICES ASSUME Straight, NEW u \in TableNames, NEW j \in Columns
               PROVE  /\ HasColumn(u, j) /\ <<u, j>> \notin columns' => \E d \in Editors : Adding(d, u, j)'
                      /\ ~HasColumn(u, j) /\ <<u, j>> \in columns' =>
                            \E d \in Editors : ask'[d].pc = "columns" /\ (Dropping(d, u)' \/ Removing(d, u, j)')
    BY <1>0, <1>4, <1>10 DEF ColumnsHold, Straight
  <2>4. HasColumn(u, j) => (<<u, j>> \in columns' <=> <<u, j>> \in columns)
    BY <1>0, <2>3 DEF Straight
  <2>5. HasColumn(u, j) /\ <<u, j>> \notin columns' => \E d \in Editors : Adding(d, u, j)'
    BY <1>9, <2>4 DEF ColumnsHold
  <2>6. ASSUME ~HasColumn(u, j), <<u, j>> \in columns'
        PROVE  \E d \in Editors : ask'[d].pc = "columns" /\ (Dropping(d, u)' \/ Removing(d, u, j)')
    <3>1. <<u, j>> \in columns /\ ~(u = t /\ j = k)
      BY <1>0, <2>6
    <3>2. PICK d \in Editors : ask[d].pc = "columns" /\ (Dropping(d, u) \/ Removing(d, u, j))
      BY <2>6, <3>1 DEF ColumnsHold
    <3> QED  BY <1>9, <2>1, <2>2, <3>1, <3>2
  <2> QED  BY <2>5, <2>6
<1>16. KeysHold'
  <2>1. \A d \in Editors : ask'[d].pc \in {"columns", "relations"} <=> ask[d].pc \in {"columns", "relations"}
    BY <1>0, <1>1
  <2> QED  BY <1>0, <1>4, <1>6, <1>9, <2>1 DEF KeysHold, Straight, AllKeys
<1> QED  BY <1>7, <1>8, <1>11, <1>12, <1>13, <1>14, <1>15, <1>16

LEMMA UnlistRelationNext ==
    ASSUME SchemaInv, NEW c \in Editors, UnlistRelation(c)
    PROVE  SchemaInv'
<1> DEFINE t == ask[c].table
<1> DEFINE k == ask[c].column
<1> USE DEF SchemaInv
<1>0. /\ ask[c].op = "remove" /\ ask[c].pc = "relations" /\ ask' = [ask EXCEPT ![c].pc = "bump"]
      /\ relations' = {x \in relations : ~(x.from = t /\ x.column = k)}
      /\ UNCHANGED <<real, armed, keys, tables, columns, counts, cache, marks>>
  BY DEF UnlistRelation, ChangeAt, ChangeGo, database, metadata
<1>1. /\ "bump" \in SchemaSteps /\ ask' \in [Editors -> AnyChange]
      /\ ask'[c].pc = "bump" /\ ask'[c].op = "remove" /\ ask'[c].table = t /\ ask'[c].column = ask[c].column
      /\ ask'[c].target = ask[c].target /\ \A d \in Editors : d # c => ask'[d] = ask[d]
  <2>1. "bump" \in SchemaSteps
    BY DEF SchemaSteps
  <2> QED  BY <1>0, <2>1, AskStep
<1>2. t \in TableNames /\ Changing(c) /\ Removes(ask[c].op) /\ k \in Columns
  BY <1>0 DEF SchemaTypes, Formed, Ops, Changing, Removes
<1>3. Formed(ask'[c])
  BY <1>0, <1>1 DEF SchemaTypes, Formed, StepsOf, Ops
<1>4. overlapped' = overlapped /\ torn' = torn /\ version' = version /\ journal' = journal /\ cache' = cache
  BY <1>0 DEF marks, counts
<1>5. ~overlapped => \A d \in Editors : d # c =>
        /\ ~Building(d, t) /\ \A j \in Columns : ~Adding(d, t, j)
        /\ Changing(d) => ask[d].table # t /\ ask[d].target # t
  BY <1>2, RemovesAlone, WitnessesChange
<1>6. \A d \in Editors : /\ ask'[d].pc = "relation" <=> ask[d].pc = "relation"
                         /\ Key(ask'[d]) = Key(ask[d])
                         /\ ask[d].pc = "relation" => d # c /\ Changing(d)
  BY <1>0, <1>1 DEF Key, SchemaTypes, Formed, StepsOf, Changing
<1>7. SchemaTypes'
  BY <1>0, <1>1, <1>3, <1>4 DEF SchemaTypes
<1>8. NoOverlap' /\ CountsHold' /\ SnapshotsHold'
  <2>1. Dirty(c)'
    BY <1>0, <1>1 DEF Dirty
  <2> QED  BY <1>0, <1>1, <1>2, <2>1, Works
<1>9. \A d \in Editors, u \in TableNames :
        /\ Building(d, u)' <=> Building(d, u)
        /\ Dropping(d, u)' <=> Dropping(d, u)
        /\ \A j \in Columns : /\ Adding(d, u, j)' <=> Adding(d, u, j)
                              /\ Removing(d, u, j)' <=> Removing(d, u, j) /\ d # c
  BY <1>0, <1>1 DEF Building, Dropping, Adding, Removing
<1>10. \A u, j : (Exists(u)' <=> Exists(u)) /\ (HasColumn(u, j)' <=> HasColumn(u, j))
  BY <1>0 DEF Exists, HasColumn
<1>11. BuildersHold'
  <2>1. \A d \in Editors, u \in TableNames : Building(d, u) => ask'[d] = ask[d]
    BY <1>0, <1>1 DEF Building
  <2>2. \A d \in Editors : ask'[d].pc = "ddl" => ask'[d] = ask[d]
    BY <1>0, <1>1
  <2> QED  BY <1>0, <1>4, <1>9, <1>10, <2>1, <2>2 DEF BuildersHold
<1>12. DropsHold' /\ RemovesHold' /\ ListedIsArmed'
  BY <1>0, <1>4, <1>9, <1>10 DEF DropsHold, RemovesHold, ListedIsArmed
<1>13. TablesHold'
  BY <1>0, <1>4, <1>9 DEF TablesHold, Straight, SchemaTypes
<1>14. AddsHold'
  BY <1>0, <1>4, <1>9, <1>10 DEF AddsHold, Straight
<1>15. ColumnsHold'
  <2>1. \A d \in Editors : ask'[d].pc = "columns" <=> ask[d].pc = "columns"
    BY <1>0, <1>1
  <2> QED  BY <1>0, <1>4, <1>9, <1>10, <2>1 DEF ColumnsHold, Straight
<1>16. KeysHold'
  <2>1. \A d \in Editors : ask'[d].pc \in {"columns", "relations"} <=> ask[d].pc \in {"columns", "relations"} /\ d # c
    BY <1>0, <1>1
  <2>2. Removing(c, t, k) /\ \A u \in TableNames : /\ ~Dropping(c, u)
                                                   /\ \A j \in Columns : Removing(c, u, j) => u = t /\ j = k
    BY <1>0 DEF Dropping, Removing
  <2>3. ~overlapped => \A x \in keys : ~(x.from = t /\ x.column = k)
    BY <1>2, <2>2 DEF RemovesHold
  <2> QED  BY <1>0, <1>4, <1>6, <1>9, <2>1, <2>2, <2>3 DEF KeysHold, Straight, AllKeys
<1> QED  BY <1>7, <1>8, <1>11, <1>12, <1>13, <1>14, <1>15, <1>16

-----------------------------------------------------------------------------
\* The steps that leave the database and its metadata.
LEMMA NoChangeType == NoChange \in AnyChange /\ Formed(NoChange) /\ NoChange.pc = "idle" /\ NoChange.op = None
BY DEF NoChange, AnyChange, Formed, None, Nothing, AnySnapshot, SchemaSteps, StepsOf, Ops

LEMMA Journalists == IsFiniteSet(Journaling) /\ Cardinality(Journaling) \in Nat
BY SchemaAssumption, FS_Subset, FS_CardinalityType DEF Journaling

LEMMA Narrows ==
    ASSUME NoOverlap, overlapped' = overlapped,
           \A d \in Editors : Changing(d)' =>
                Changing(d) /\ Concerns(ask'[d]) = Concerns(ask[d]) /\ ask'[d].op = ask[d].op
    PROVE  NoOverlap'
BY DEF NoOverlap

\* What is read and what is cached stays, while nobody changes what it describes.
LEMMA StillFresh ==
    ASSUME SnapshotsHold, UNCHANGED <<version, cache, tables, columns>>, Clean' => Clean,
           \A d \in Editors : ask'[d].op = "serve" => ask'[d] = ask[d]
    PROVE  SnapshotsHold'
BY DEF SnapshotsHold, Described

\* A change ends where it is: with nothing left behind, or recorded.
Ends(c) ==
    /\ ChangeGo(c, "idle") /\ UNCHANGED <<database, metadata, counts, cache>>
    /\ torn => torn'
    /\ torn' \in BOOLEAN
    /\ overlapped' = overlapped
    /\ Straight' => Plain(ask[c]) /\ ~Dirty(c)
    /\ ~torn' => ask[c].pc # "journal"

LEMMA EndsNext ==
    ASSUME SchemaInv, NEW c \in Editors, Ends(c)
    PROVE  SchemaInv'
<1>0. /\ ChangeGo(c, "idle") /\ UNCHANGED <<database, metadata, counts, cache>>
      /\ torn => torn'
      /\ torn' \in BOOLEAN
      /\ overlapped' = overlapped
      /\ Straight' => Plain(ask[c]) /\ ~Dirty(c)
      /\ ~torn' => ask[c].pc # "journal"
  BY DEF Ends
<1> USE DEF SchemaInv
<1>1. /\ UNCHANGED <<real, armed, keys, tables, columns, relations, version, journal, cache>>
      /\ ask' = [ask EXCEPT ![c] = NoChange]
  BY <1>0 DEF database, metadata, counts, ChangeGo
<1>2. ask'[c] = NoChange /\ (\A d \in Editors : d # c => ask'[d] = ask[d]) /\ ask' \in [Editors -> AnyChange]
  BY <1>1, NoChangeType DEF SchemaTypes
<1>3. SchemaTypes'
  BY <1>0, <1>1, <1>2, NoChangeType DEF SchemaTypes
<1>4. Differences'
  <2>1. Plain(ask'[c]) /\ ~(ask'[c].op = "create")
    BY <1>2, NoChangeType DEF Plain, None
  <2> QED  BY <1>0, <1>2, <1>3, <2>1, Calm
<1>5. NoOverlap'
  <2>1. ~Changing(c)'
    BY <1>2, NoChangeType DEF Changing
  <2> QED  BY <1>0, <1>2, <2>1, Narrows, Others
<1>6. CountsHold'
  <2>1. ~torn' => Journaling' = Journaling
    BY <1>0, <1>2, NoChangeType DEF Journaling
  <2> QED  BY <1>0, <1>1, <2>1 DEF CountsHold
<1>7. SnapshotsHold'
  <2>1. Clean' => Clean
    BY <1>0, <1>2, Others DEF Clean, Straight
  <2>2. \A d \in Editors : ask'[d].op = "serve" => ask'[d] = ask[d]
    BY <1>2, NoChangeType DEF None
  <2> QED  BY <1>1, <2>1, <2>2, StillFresh
<1> QED  BY <1>3, <1>4, <1>5, <1>6, <1>7 DEF Differences

LEMMA BeginNext ==
    ASSUME SchemaInv, NEW c \in Editors, NEW r \in AnyChange, BeginChange(c, r), Formed(r),
           r.op # "serve", r.pc = "check" \/ (r.pc = "ddl" /\ r.op = "remove")
    PROVE  SchemaInv'
<1> USE DEF SchemaInv
<1>1. /\ UNCHANGED <<real, armed, keys, tables, columns, relations, version, journal, cache, torn>>
      /\ UNCHANGED <<database, metadata>>
      /\ ask' = [ask EXCEPT ![c] = r] /\ ask[c].pc = "idle"
  BY DEF BeginChange, database, metadata, counts
<1>2. ask'[c] = r /\ (\A d \in Editors : d # c => ask'[d] = ask[d]) /\ ask' \in [Editors -> AnyChange]
  BY <1>1 DEF SchemaTypes
<1>3. /\ overlapped' \in BOOLEAN /\ (overlapped => overlapped')
      /\ ~overlapped' => \A d \in Editors : d # c /\ Changing(d) /\ (Removes(ask[d].op) \/ Removes(r.op)) =>
                            Concerns(ask[d]) \cap Concerns(r) = {}
  BY DEF BeginChange
<1>4. SchemaTypes'
  BY <1>1, <1>2, <1>3 DEF SchemaTypes
<1>5. Differences'
  <2>1. Plain(ask'[c]) /\ Plain(ask[c]) /\ ~(ask'[c].op = "create" /\ ask'[c].pc = "ddl")
    BY <1>1, <1>2 DEF Plain
  <2> QED  BY <1>1, <1>2, <1>3, <1>4, <2>1, Calm
<1>6. NoOverlap'
  <2>1. \A d \in Editors : d # c => (Changing(d)' <=> Changing(d))
    BY <1>2, Others
  <2>2. ~overlapped' => ~overlapped
    BY <1>3
  <2> QED  BY <1>2, <1>3, <2>1, <2>2 DEF NoOverlap
<1>7. CountsHold'
  <2>1. Journaling' = Journaling
    BY <1>1, <1>2 DEF Journaling
  <2> QED  BY <1>1, <2>1 DEF CountsHold
<1>8. SnapshotsHold'
  <2>1. Clean' => Clean
    <3>1. ~Dirty(c)
      BY <1>1 DEF Dirty
    <3> QED  BY <1>1, <1>2, <1>3, <3>1, Others DEF Clean, Straight
  <2>2. \A d \in Editors : ask'[d].op = "serve" => ask'[d] = ask[d]
    BY <1>2
  <2> QED  BY <1>1, <2>1, <2>2, StillFresh
<1> QED  BY <1>4, <1>5, <1>6, <1>7, <1>8 DEF Differences

LEMMA BeginsNext ==
    ASSUME SchemaInv, NEW c \in Editors, NEW t \in TableNames,
           \/ BeginCreate(c, t) \/ BeginDrop(c, t)
           \/ \E k \in Columns : BeginAdd(c, t, k) \/ BeginRemove(c, t, k)
           \/ \E k \in Columns, u \in TableNames : BeginRelate(c, t, k, u)
    PROVE  SchemaInv'
<1>1. \A op \in Ops \ {"serve"}, k \in Columns \cup {None}, u \in TableNames \cup {None} :
        /\ ChangeOf(op, t, k, u) \in AnyChange
        /\ ChangeOf(op, t, k, u).pc = (IF op = "remove" THEN "ddl" ELSE "check") /\ ChangeOf(op, t, k, u).op = op
        /\ ChangeOf(op, t, k, u).table = t /\ ChangeOf(op, t, k, u).column = k
        /\ ChangeOf(op, t, k, u).target = u
  <2> TAKE op \in Ops \ {"serve"}, k \in Columns \cup {None}, u \in TableNames \cup {None}
  <2> DEFINE pc == IF op = "remove" THEN "ddl" ELSE "check"
  <2>1. pc \in SchemaSteps
    BY DEF SchemaSteps
  <2>2. ChangeOf(op, t, k, u) = [NoChange EXCEPT !.pc = pc, !.op = op, !.table = t, !.column = k, !.target = u]
    BY DEF ChangeOf
  <2> HIDE DEF pc
  <2>3. /\ ChangeOf(op, t, k, u) \in AnyChange
        /\ ChangeOf(op, t, k, u).pc = pc /\ ChangeOf(op, t, k, u).op = op
        /\ ChangeOf(op, t, k, u).table = t /\ ChangeOf(op, t, k, u).column = k
        /\ ChangeOf(op, t, k, u).target = u
    BY <2>1, <2>2, NoChangeType DEF AnyChange
  <2> QED  BY <2>3 DEF pc
<1>2. \A op \in Ops \ {"serve"}, k \in Columns \cup {None}, u \in TableNames \cup {None} :
        (u # None \/ op \in {"add", "relate", "remove"} => k # None) /\ (op = "relate" => u # None) =>
            Formed(ChangeOf(op, t, k, u))
  BY <1>1 DEF Formed, StepsOf, Ops
<1>3. PICK op \in Ops \ {"serve"}, k \in Columns \cup {None}, u \in TableNames \cup {None} :
        /\ BeginChange(c, ChangeOf(op, t, k, u))
        /\ (u # None \/ op \in {"add", "relate", "remove"} => k # None) /\ (op = "relate" => u # None)
  BY Named DEF BeginCreate, BeginDrop, BeginAdd, BeginRemove, BeginRelate, Ops
<1> QED  BY <1>1, <1>2, <1>3, BeginNext

\* Refusals at the first statement of a change, which has done nothing yet.
LEMMA RefusedFirst ==
    ASSUME SchemaInv, NEW c \in Editors,
           \/ MakeTable(c) /\ Exists(ask[c].table)
           \/ AddColumn(c) /\ ~(Exists(ask[c].table) /\ ask[c].column \notin real[ask[c].table])
           \/ RemoveColumn(c) /\ ~Exists(ask[c].table)
    PROVE  SchemaInv'
<1>1. /\ ChangeGo(c, "idle") /\ ask[c].pc = "ddl"
      /\ UNCHANGED <<real, armed, keys, metadata, counts, cache, torn, overlapped>>
  BY DEF MakeTable, AddColumn, RemoveColumn, ChangeAt, marks
<1>2. Plain(ask[c]) /\ ~Dirty(c) /\ UNCHANGED database
  BY <1>1 DEF Plain, Dirty, database
<1>3. torn' \in BOOLEAN /\ (torn => torn')
  BY <1>1 DEF SchemaInv, SchemaTypes
<1> QED  BY <1>1, <1>2, <1>3, EndsNext DEF Ends

\* Refusals that no state of a straight database meets.
LEMMA RefusedLater ==
    ASSUME SchemaInv, NEW c \in Editors,
           \/ CreateTrigger(c) /\ ~(Exists(ask[c].table) /\ ask[c].table \notin armed)
           \/ EnlistTable(c) /\ ask[c].table \in tables
           \/ ListColumn(c) /\ <<ask[c].table, ask[c].column>> \in columns
    PROVE  SchemaInv'
<1> DEFINE t == ask[c].table
<1>0. Formed(ask[c])
  BY DEF SchemaInv, SchemaTypes
<1>1. /\ ChangeGo(c, "idle") /\ ask[c].pc \in {"trigger", "table", "column"}
      /\ UNCHANGED <<real, armed, keys, tables, columns, relations, counts, cache, torn, overlapped>>
  BY DEF CreateTrigger, EnlistTable, ListColumn, ChangeAt, marks, metadata, database
<1>2. UNCHANGED <<database, metadata>>
  BY <1>1 DEF database, metadata
<1>3. torn' \in BOOLEAN /\ (torn => torn') /\ ask[c].pc # "journal"
  BY <1>1 DEF SchemaInv, SchemaTypes
<1>4. ~Straight
  <2>1. CASE CreateTrigger(c) /\ ~(Exists(t) /\ t \notin armed)
    <3>1. Building(c, t) /\ t \in TableNames /\ ask[c].pc = "trigger"
      BY <1>0, <2>1 DEF CreateTrigger, ChangeAt, Building, Formed, Ops
    <3> QED  BY <2>1, <3>1 DEF SchemaInv, BuildersHold, Straight
  <2>2. CASE EnlistTable(c) /\ t \in tables
    <3>1. Building(c, t) /\ t \in TableNames
      BY <1>0, <2>2 DEF EnlistTable, ChangeAt, Building, Formed, Ops
    <3> QED  BY <2>2, <3>1 DEF SchemaInv, BuildersHold, Straight
  <2>3. CASE ListColumn(c) /\ <<t, ask[c].column>> \in columns
    <3>1. ask[c].pc = "column" /\ t \in TableNames /\ ask[c].column \in Columns
          /\ Adding(c, t, ask[c].column)
      BY <1>0, <2>3 DEF ListColumn, Adding, Formed, Ops, StepsOf
    <3> QED  BY <2>3, <3>1 DEF SchemaInv, AddsHold
  <2> QED  BY <2>1, <2>2, <2>3
<1>5. ~Straight'
  BY <1>1, <1>4 DEF Straight
<1> QED  BY <1>1, <1>2, <1>3, <1>5, EndsNext DEF Ends

LEMMA KeyRefused ==
    ASSUME SchemaInv, NEW c \in Editors, AddKey(c), ~MayAddKey(ask[c])
    PROVE  SchemaInv'
<1>1. /\ ChangeGo(c, "idle") /\ ask[c].pc = "key"
      /\ UNCHANGED <<real, armed, keys, metadata, counts, cache, overlapped>>
      /\ torn' = (torn \/ ask[c].op # "relate")
  BY DEF AddKey
<1>2. torn' \in BOOLEAN
  BY <1>1
<1>3. torn => torn'
  BY <1>1
<1>4. Straight' => ask[c].op = "relate"
  BY <1>1 DEF Straight
<1>5. ask[c].op = "relate" => Plain(ask[c]) /\ ~Dirty(c)
  BY <1>1 DEF Plain, Dirty
<1>6. UNCHANGED database
  BY <1>1 DEF database
<1>7. ask[c].pc # "journal"
  BY <1>1
<1> QED  BY <1>1, <1>2, <1>3, <1>4, <1>5, <1>6, <1>7, EndsNext DEF Ends

LEMMA FailsNext ==
    ASSUME SchemaInv, NEW c \in Editors, Fails(c)
    PROVE  SchemaInv'
<1> DEFINE short == /\ Changing(c) /\ ask[c].pc \notin {"check", "ddl"}
                  /\ ~(ask[c].op = "relate" /\ ask[c].pc = "key")
<1>1. /\ ChangeGo(c, "idle") /\ ask[c].pc # "idle"
      /\ UNCHANGED <<database, metadata, counts, cache, overlapped>>
      /\ torn' = (torn \/ short)
  BY DEF Fails
<1>2. Formed(ask[c])
  BY DEF SchemaInv, SchemaTypes
<1>3. ~short => Plain(ask[c]) /\ ~Dirty(c) /\ ask[c].pc # "journal"
  BY <1>1, <1>2 DEF Plain, Dirty, Formed, StepsOf, Changing
<1> HIDE DEF short
<1>4. torn' \in BOOLEAN
  BY <1>1
<1>5. torn => torn'
  BY <1>1
<1>6. ~torn' => ~short
  BY <1>1
<1> QED  BY <1>1, <1>3, <1>4, <1>5, <1>6, EndsNext DEF Ends, Straight

LEMMA CheckNext ==
    ASSUME SchemaInv, NEW c \in Editors, Check(c)
    PROVE  SchemaInv'
<1> DEFINE step == IF ask[c].op = "relate" THEN "key" ELSE "ddl"
<1> USE DEF SchemaInv
<1>1. /\ Changing(c) /\ ask[c].pc = "check" /\ ChangeGo(c, IF Valid(ask[c]) THEN step ELSE "idle")
      /\ UNCHANGED <<database, metadata, counts, cache, torn, overlapped>>
  BY DEF Check, marks
<1>2. Formed(ask[c]) /\ torn \in BOOLEAN
  BY DEF SchemaTypes
<1>3. Plain(ask[c]) /\ ~Dirty(c)
  BY <1>1 DEF Plain, Dirty
<1>4. CASE ~Valid(ask[c])
  <2>1. ChangeGo(c, "idle") /\ (torn => torn') /\ torn' \in BOOLEAN /\ ask[c].pc # "journal"
    BY <1>1, <1>2, <1>4
  <2> QED  BY <1>1, <1>3, <2>1, EndsNext DEF Ends
<1>5. CASE Valid(ask[c])
  <2>1. ChangeGo(c, step) /\ step \in SchemaSteps /\ step \notin {"idle", "journal"} /\ ask[c].op \in Ops \ {"serve"}
    BY <1>1, <1>2, <1>5 DEF SchemaSteps, Changing, Formed, Ops, StepsOf, SchemaTypes, AnyChange, None
  <2>2. ask' = [ask EXCEPT ![c].pc = step]
    BY <2>1 DEF ChangeGo
  <2>3. /\ ask' \in [Editors -> AnyChange]
        /\ ask'[c].pc = step /\ ask'[c].op = ask[c].op /\ ask'[c].table = ask[c].table
        /\ ask'[c].column = ask[c].column /\ ask'[c].target = ask[c].target
        /\ \A d \in Editors : d # c => ask'[d] = ask[d]
    BY <2>1, <2>2, AskStep
  <2>4. UNCHANGED <<real, armed, keys, tables, columns, relations, version, journal, cache, torn, overlapped>>
    BY <1>1 DEF database, metadata, counts
  <2>5. Formed(ask'[c])
    BY <1>1, <1>2, <2>1, <2>3 DEF Formed, StepsOf, Ops
  <2>6. SchemaTypes'
    BY <2>3, <2>4, <2>5 DEF SchemaTypes
  <2>7. Plain(ask'[c])
    BY <2>3 DEF Plain
  <2>8. ask[c].op = "create" => ask[c].table \notin tables
    BY <1>5 DEF Valid
  <2>9. Differences'
    BY <1>1, <1>3, <2>3, <2>6, <2>7, <2>8, Calm
  <2>10. NoOverlap' /\ CountsHold' /\ SnapshotsHold'
    <3>1. UNCHANGED <<tables, columns, counts, cache, marks>>
      BY <1>1, <2>4 DEF marks
    <3> QED  BY <1>1, <1>3, <2>1, <2>2, <3>1, Works
  <2> QED  BY <2>6, <2>9, <2>10 DEF Differences
<1> QED  BY <1>4, <1>5

LEMMA BumpNext ==
    ASSUME SchemaInv, NEW c \in Editors, Bump(c)
    PROVE  SchemaInv'
<1> USE DEF SchemaInv
<1>1. /\ Changing(c) /\ ask[c].pc = "bump" /\ ask' = [ask EXCEPT ![c].pc = "journal"]
      /\ UNCHANGED <<real, armed, keys, tables, columns, relations, journal, cache, torn, overlapped>>
      /\ UNCHANGED <<database, metadata>> /\ version' = version + 1
  BY DEF Bump, ChangeGo, database, metadata, marks
<1>2. /\ ask' \in [Editors -> AnyChange]
      /\ ask'[c].pc = "journal" /\ ask'[c].op = ask[c].op /\ ask'[c].table = ask[c].table
      /\ ask'[c].column = ask[c].column /\ ask'[c].target = ask[c].target
      /\ \A d \in Editors : d # c => ask'[d] = ask[d]
  <2>1. "journal" \in SchemaSteps
    BY DEF SchemaSteps
  <2> QED  BY <1>1, <2>1, AskStep
<1>3. Formed(ask'[c])
  BY <1>1, <1>2 DEF SchemaTypes, Formed, StepsOf, Ops
<1>4. SchemaTypes'
  BY <1>1, <1>2, <1>3 DEF SchemaTypes
<1>5. Differences'
  <2>1. Plain(ask[c]) /\ Plain(ask'[c])
    BY <1>1, <1>2 DEF Plain
  <2>2. ~(ask'[c].op = "create" /\ ask'[c].pc = "ddl")
    BY <1>2
  <2> QED  BY <1>1, <1>2, <1>4, <2>1, <2>2, Calm
<1>6. NoOverlap'
  <2>1. \A d \in Editors : Changing(d)' =>
            Changing(d) /\ Concerns(ask'[d]) = Concerns(ask[d]) /\ ask'[d].op = ask[d].op
    BY <1>1, <1>2 DEF Changing, Concerns
  <2> QED  BY <1>1, <2>1, Narrows
<1>7. CountsHold'
  <2>1. Journaling' = Journaling \cup {c} /\ c \notin Journaling
    BY <1>1, <1>2 DEF Journaling
  <2>2. Cardinality(Journaling') = Cardinality(Journaling) + 1
    BY <2>1, Journalists, FS_AddElement
  <2>3. ~torn => version = journal + 1 + Cardinality(Journaling)
    BY DEF CountsHold
  <2>4. Cardinality(Journaling)' = Cardinality(Journaling')
    OBVIOUS
  <2> QED  BY <1>1, <2>2, <2>3, <2>4, Journalists DEF CountsHold, SchemaTypes
<1>8. SnapshotsHold'
  <2>1. \A d \in Editors : ask'[d].op = "serve" => ask'[d] = ask[d]
    BY <1>1, <1>2 DEF Changing
  <2>2. version \in Nat /\ cache.version \in Nat /\ \A d \in Editors : ask[d].seen.version \in Nat
    BY DEF SchemaTypes, AnyChange, AnySnapshot
  <2>3. cache.version < version' /\ \A d \in Editors : ask'[d].op = "serve" => ask'[d].seen.version < version'
    BY <1>1, <2>1, <2>2 DEF SnapshotsHold
  <2>4. version' \in Nat /\ \A d \in Editors : ask'[d].op = "serve" => ask'[d].seen.version \in Nat
    BY <1>1, <2>1, <2>2
  <2> QED  BY <1>1, <2>2, <2>3, <2>4 DEF SnapshotsHold
<1> QED  BY <1>4, <1>5, <1>6, <1>7, <1>8 DEF Differences

LEMMA JournalNext ==
    ASSUME SchemaInv, NEW c \in Editors, Journal(c)
    PROVE  SchemaInv'
<1> USE DEF SchemaInv
<1>1. /\ Changing(c) /\ ask[c].pc = "journal" /\ ask' = [ask EXCEPT ![c] = NoChange]
      /\ UNCHANGED <<real, armed, keys, tables, columns, relations, version, cache, torn, overlapped>>
      /\ UNCHANGED <<database, metadata>> /\ journal' = journal + 1
  BY DEF Journal, ChangeGo, database, metadata, marks
<1>2. ask'[c] = NoChange /\ (\A d \in Editors : d # c => ask'[d] = ask[d]) /\ ask' \in [Editors -> AnyChange]
  BY <1>1, NoChangeType DEF SchemaTypes
<1>3. SchemaTypes'
  BY <1>1, <1>2, NoChangeType DEF SchemaTypes
<1>4. Differences'
  <2>1. Plain(ask[c]) /\ Plain(ask'[c]) /\ ~(ask'[c].op = "create")
    BY <1>1, <1>2, NoChangeType DEF Plain, None
  <2> QED  BY <1>1, <1>2, <1>3, <2>1, Calm
<1>5. NoOverlap'
  <2>1. ~Changing(c)'
    BY <1>2, NoChangeType DEF Changing
  <2> QED  BY <1>1, <1>2, <2>1, Narrows, Others
<1>6. CountsHold'
  <2>1. Journaling' = Journaling \ {c} /\ c \in Journaling
    BY <1>1, <1>2, NoChangeType DEF Journaling
  <2>2. Cardinality(Journaling') = Cardinality(Journaling) - 1
    BY <2>1, Journalists, FS_RemoveElement
  <2>3. ~torn => version = journal + 1 + Cardinality(Journaling)
    BY DEF CountsHold
  <2>4. Cardinality(Journaling)' = Cardinality(Journaling')
    OBVIOUS
  <2> QED  BY <1>1, <2>2, <2>3, <2>4, Journalists DEF CountsHold, SchemaTypes
<1>7. SnapshotsHold'
  <2>1. Clean' => Clean
    <3>1. ~Dirty(c)
      BY <1>1 DEF Dirty
    <3> QED  BY <1>1, <1>2, <3>1, Others DEF Clean, Straight
  <2>2. \A d \in Editors : ask'[d].op = "serve" => ask'[d] = ask[d]
    BY <1>2, NoChangeType DEF None
  <2> QED  BY <1>1, <2>1, <2>2, StillFresh
<1> QED  BY <1>3, <1>4, <1>5, <1>6, <1>7 DEF Differences

\* A snapshot is what the tables say, while its version is in force and nothing is half changed.
Fresh(snapshot) ==
    /\ snapshot \in AnySnapshot /\ snapshot.version <= version
    /\ Clean /\ snapshot.version = version => snapshot.tables = tables /\ snapshot.columns = Described

FreshSoFar(r) ==
    /\ r.seen.version <= version
    /\ Clean /\ r.seen.version = version =>
            /\ r.pc \in {"columns", "put"} => r.seen.tables = tables
            /\ r.pc = "put" => r.seen.columns = Described

\* A step of graphql_schema: nobody else sees it but in the cache.
LEMMA ReadsNext ==
    ASSUME SchemaInv, NEW c \in Editors, NEW r \in AnyChange, ~Changing(c), ask' = [ask EXCEPT ![c] = r],
           UNCHANGED <<database, metadata, counts, marks>>, Formed(r),
           r.op = "serve" \/ r.pc = "idle", r.op = "serve" => FreshSoFar(r), Fresh(cache')
    PROVE  SchemaInv'
<1> USE DEF SchemaInv
<1>1. UNCHANGED <<real, armed, keys, tables, columns, relations, version, journal, torn, overlapped>>
  BY DEF database, metadata, counts, marks
<1>2. ask'[c] = r /\ (\A d \in Editors : d # c => ask'[d] = ask[d]) /\ ask' \in [Editors -> AnyChange]
  BY DEF SchemaTypes
<1>3. cache' \in AnySnapshot /\ Formed(ask[c]) /\ ask[c].pc \in {"idle", "tables", "columns", "put"}
  BY DEF Fresh, SchemaTypes, Formed, StepsOf, Changing
<1>4. SchemaTypes'
  BY <1>1, <1>2, <1>3 DEF SchemaTypes
<1>5. r.op = "serve" \/ (r.pc = "idle" /\ r.op = None)
  BY DEF Formed, StepsOf, AnyChange, Ops, None
<1>6. ask[c].op = "serve" \/ (ask[c].pc = "idle" /\ ask[c].op = None)
  BY <1>3 DEF Changing, Formed, StepsOf, SchemaTypes, AnyChange, Ops, None
<1>7. Differences'
  <2>1. Plain(ask[c]) /\ Plain(ask'[c])
    BY <1>2, <1>5, <1>6 DEF Plain
  <2>2. ~(ask'[c].op = "create" /\ ask'[c].pc = "ddl")
    BY <1>2, <1>5 DEF None
  <2> QED  BY <1>1, <1>2, <1>4, <2>1, <2>2, Calm
<1>8. NoOverlap'
  <2>1. ~Changing(c)'
    BY <1>2, <1>5 DEF Changing
  <2> QED  BY <1>1, <1>2, <2>1, Narrows, Others
<1>9. CountsHold'
  <2>1. Journaling' = Journaling
    BY <1>2, <1>3, <1>5 DEF Journaling, Formed, StepsOf
  <2> QED  BY <1>1, <2>1 DEF CountsHold
<1>10. SnapshotsHold'
  <2>1. Clean' => Clean
    <3>1. ~Dirty(c)
      BY <1>6 DEF Dirty, None
    <3> QED  BY <1>1, <1>2, <3>1, Others DEF Clean, Straight
  <2>2. Described' = Described
    BY <1>1 DEF Described
  <2>3. /\ cache'.version <= version'
        /\ Clean' /\ cache'.version = version' => cache'.tables = tables' /\ cache'.columns = Described'
    BY <1>1, <2>1, <2>2 DEF Fresh
  <2>4. ASSUME NEW d \in Editors, ask'[d].op = "serve"
        PROVE  /\ ask'[d].seen.version <= version'
               /\ Clean' /\ ask'[d].seen.version = version' =>
                    /\ ask'[d].pc \in {"columns", "put"} => ask'[d].seen.tables = tables'
                    /\ ask'[d].pc = "put" => ask'[d].seen.columns = Described'
    <3>1. CASE d = c
      BY <1>1, <1>2, <2>1, <2>2, <2>4, <3>1 DEF FreshSoFar
    <3>2. CASE d # c
      BY <1>1, <1>2, <2>1, <2>2, <2>4, <3>2 DEF SnapshotsHold
    <3> QED  BY <3>1, <3>2
  <2> QED  BY <2>3, <2>4 DEF SnapshotsHold
<1> QED  BY <1>4, <1>7, <1>8, <1>9, <1>10 DEF Differences

LEMMA ServeNext ==
    ASSUME SchemaInv, NEW c \in Editors,
           Serve(c) \/ ReadTables(c) \/ ReadColumns(c) \/ Put(c)
    PROVE  SchemaInv'
<1> USE DEF SchemaInv
<1>1. version \in Nat /\ Formed(ask[c]) /\ ask[c] \in AnyChange
      /\ ask[c].seen \in AnySnapshot /\ ask[c].seen.version \in Nat
  BY DEF SchemaTypes, AnyChange, AnySnapshot
<1>2. Fresh(cache)
  BY DEF Fresh, SnapshotsHold, SchemaTypes
<1>3. ASSUME Serve(c)  PROVE  SchemaInv'
  <2> DEFINE s == [Nothing EXCEPT !.version = version]
  <2> DEFINE r == [NoChange EXCEPT !.pc = "tables", !.op = "serve", !.seen = s]
  <2>1. s \in AnySnapshot /\ s.version = version
    BY <1>1 DEF Nothing, AnySnapshot
  <2> HIDE DEF s
  <2>2. r \in AnyChange /\ r.pc = "tables" /\ r.op = "serve" /\ r.seen = s /\ r.table = None /\ r.target = None
    BY <2>1, NoChangeType DEF AnyChange, NoChange, SchemaSteps, Ops
  <2>3. /\ ask[c].pc = "idle" /\ ask' = [ask EXCEPT ![c] = r] /\ cache' = cache
        /\ UNCHANGED <<database, metadata, counts, marks>>
    BY <1>3 DEF Serve, s
  <2> HIDE DEF r
  <2>4. Formed(r) /\ FreshSoFar(r) /\ ~Changing(c)
    BY <1>1, <2>1, <2>2, <2>3 DEF Formed, StepsOf, FreshSoFar, Changing, Ops
  <2>5. Fresh(cache')
    BY <1>2, <2>3
  <2> QED  BY <2>2, <2>3, <2>4, <2>5, ReadsNext
<1>4. ASSUME ReadTables(c)  PROVE  SchemaInv'
  <2> DEFINE s == [ask[c].seen EXCEPT !.tables = tables]
  <2> DEFINE r == [ask[c] EXCEPT !.pc = "columns", !.seen = s]
  <2>1. s \in AnySnapshot /\ s.version = ask[c].seen.version /\ s.tables = tables
    BY <1>1 DEF AnySnapshot, SchemaTypes
  <2>2. /\ ask[c].pc = "tables" /\ ask[c].op = "serve" /\ ask' = [ask EXCEPT ![c] = r] /\ cache' = cache
        /\ UNCHANGED <<database, metadata, counts, marks>>
    BY <1>4 DEF ReadTables, ChangeAt, SchemaTypes, AnyChange, AnySnapshot
  <2> HIDE DEF s
  <2>3. r \in AnyChange /\ r.pc = "columns" /\ r.op = "serve" /\ r.seen = s
        /\ r.table = ask[c].table /\ r.column = ask[c].column /\ r.target = ask[c].target
    BY <1>1, <2>1, <2>2 DEF AnyChange, SchemaSteps
  <2> HIDE DEF r
  <2>4. Formed(r) /\ ~Changing(c)
    BY <1>1, <2>2, <2>3 DEF Formed, StepsOf, Changing, Ops
  <2>5. FreshSoFar(r)
    BY <2>1, <2>2, <2>3 DEF FreshSoFar, SnapshotsHold
  <2>6. Fresh(cache')
    BY <1>2, <2>2
  <2> QED  BY <2>2, <2>3, <2>4, <2>5, <2>6, ReadsNext
<1>5. ASSUME ReadColumns(c)  PROVE  SchemaInv'
  <2> DEFINE found == {k \in columns : k[1] \in ask[c].seen.tables}
  <2> DEFINE s == [ask[c].seen EXCEPT !.columns = found]
  <2> DEFINE r == [ask[c] EXCEPT !.pc = "put", !.seen = s]
  <2>1. /\ s \in AnySnapshot /\ s.version = ask[c].seen.version
        /\ s.tables = ask[c].seen.tables /\ s.columns = found
    BY <1>1 DEF AnySnapshot, SchemaTypes
  <2>2. /\ ask[c].pc = "columns" /\ ask[c].op = "serve" /\ ask' = [ask EXCEPT ![c] = r] /\ cache' = cache
        /\ UNCHANGED <<database, metadata, counts, marks>>
    BY <1>5 DEF ReadColumns, ChangeAt, SchemaTypes, AnyChange, AnySnapshot
  <2> HIDE DEF s
  <2>3. r \in AnyChange /\ r.pc = "put" /\ r.op = "serve" /\ r.seen = s
        /\ r.table = ask[c].table /\ r.column = ask[c].column /\ r.target = ask[c].target
    BY <1>1, <2>1, <2>2 DEF AnyChange, SchemaSteps
  <2> HIDE DEF r
  <2>4. Formed(r) /\ ~Changing(c)
    BY <1>1, <2>2, <2>3 DEF Formed, StepsOf, Changing, Ops
  <2>5. FreshSoFar(r)
    BY <2>1, <2>2, <2>3 DEF FreshSoFar, SnapshotsHold, Described
  <2>6. Fresh(cache')
    BY <1>2, <2>2
  <2> QED  BY <2>2, <2>3, <2>4, <2>5, <2>6, ReadsNext
<1>6. ASSUME Put(c)  PROVE  SchemaInv'
  <2>1. /\ ask[c].pc = "put" /\ ask[c].op = "serve" /\ ask' = [ask EXCEPT ![c] = NoChange]
        /\ cache' = ask[c].seen /\ UNCHANGED <<database, metadata, counts, marks>>
    BY <1>6 DEF Put, ChangeAt, ChangeGo
  <2>2. Fresh(ask[c].seen) /\ ~Changing(c)
    BY <1>1, <2>1 DEF Fresh, SnapshotsHold, Changing
  <2>3. Fresh(cache')
    BY <2>1, <2>2
  <2>4. NoChange \in AnyChange /\ Formed(NoChange) /\ NoChange.pc = "idle" /\ NoChange.op # "serve"
    BY NoChangeType DEF None
  <2> QED  BY <2>1, <2>2, <2>3, <2>4, ReadsNext
<1> QED  BY <1>3, <1>4, <1>5, <1>6

-----------------------------------------------------------------------------
LEMMA SchemaInvInit == SchemaInit => SchemaInv
<1> SUFFICES ASSUME SchemaInit  PROVE  SchemaInv
  OBVIOUS
<1>1. \A c \in Editors : ask[c] = NoChange
  BY DEF SchemaInit
<1>2. Cardinality(tables) \in Nat
  <2>1. CASE tables = {}
    BY <2>1, FS_EmptySet
  <2>2. CASE \E t \in TableNames : tables = {t}
    BY <2>2, FS_Singleton
  <2> QED  BY <2>1, <2>2 DEF SchemaInit
<1>3. Nothing \in AnySnapshot /\ Nothing.version = 0
  BY DEF Nothing, AnySnapshot
<1>4. DOMAIN real = tables /\ \A t \in tables : real[t] = {}
  BY DEF SchemaInit
<1>5. journal \in Nat /\ version = journal + 1 /\ cache = Nothing
  BY <1>2 DEF SchemaInit
<1>6. SchemaTypes
  <2>1. ask \in [Editors -> AnyChange] /\ \A c \in Editors : Formed(ask[c])
    BY <1>1, NoChangeType DEF SchemaInit
  <2>2. tables \subseteq TableNames /\ armed = tables
    BY DEF SchemaInit
  <2>3. keys = {} /\ columns = {} /\ relations = {} /\ torn = FALSE /\ overlapped = FALSE
    BY DEF SchemaInit
  <2>4. version \in Nat
    BY <1>5
  <2> QED  BY <1>3, <1>4, <1>5, <2>1, <2>2, <2>3, <2>4 DEF SchemaTypes
<1>7. \A c \in Editors : /\ ~Changing(c) /\ Plain(ask[c]) /\ ask[c].pc = "idle" /\ ask[c].op = None
  BY <1>1, NoChangeType DEF Changing, Plain
<1>8. \A c \in Editors :
           /\ ask[c].pc # "relation"
           /\ \A t \in TableNames : ~Building(c, t) /\ ~Dropping(c, t)
           /\ \A t \in TableNames, k \in Columns : ~Adding(c, t, k) /\ ~Removing(c, t, k)
  BY <1>6, <1>7, PlainAnswers
<1>9. NoOverlap
  BY <1>7 DEF NoOverlap
<1>10. BuildersHold
  BY <1>7, <1>8 DEF BuildersHold, None
<1>11. DropsHold /\ RemovesHold /\ AddsHold
  BY <1>8 DEF DropsHold, RemovesHold, AddsHold
<1>12. ListedIsArmed /\ TablesHold
  BY <1>4 DEF SchemaInit, ListedIsArmed, TablesHold
<1>13. ColumnsHold
  BY <1>4 DEF SchemaInit, ColumnsHold, HasColumn, Exists
<1>14. KeysHold
  BY <1>8 DEF SchemaInit, KeysHold
<1>15. CountsHold
  <2>1. Journaling = {}
    BY <1>7 DEF Journaling
  <2> QED  BY <1>5, <2>1, FS_EmptySet DEF CountsHold
<1>16. SnapshotsHold
  BY <1>3, <1>5, <1>7 DEF SnapshotsHold, None
<1> QED  BY <1>6, <1>9, <1>10, <1>11, <1>12, <1>13, <1>14, <1>15, <1>16 DEF SchemaInv

LEMMA SchemaInvNext == SchemaInv /\ [SchemaNext]_schemaVars => SchemaInv'
<1> SUFFICES ASSUME SchemaInv, [SchemaNext]_schemaVars  PROVE  SchemaInv'
  OBVIOUS
<1>1. ASSUME NEW c \in Editors, NEW t \in TableNames,
             \/ BeginCreate(c, t) \/ BeginDrop(c, t)
             \/ \E k \in Columns : BeginAdd(c, t, k) \/ BeginRemove(c, t, k)
             \/ \E k \in Columns, u \in TableNames : BeginRelate(c, t, k, u)
      PROVE  SchemaInv'
  BY <1>1, BeginsNext
<1>2. ASSUME NEW c \in Editors, MakeTable(c) \/ CreateTrigger(c) \/ EnlistTable(c)
      PROVE  SchemaInv'
  BY <1>2, MakeTableNext, CreateTriggerNext, EnlistTableNext, RefusedFirst, RefusedLater
<1>3. ASSUME NEW c \in Editors, AddColumn(c) \/ ListColumn(c) \/ AddKey(c) \/ ListRelation(c)
      PROVE  SchemaInv'
  BY <1>3, AddColumnNext, ListColumnNext, AddKeyNext, ListRelationNext, RefusedFirst, RefusedLater, KeyRefused
<1>4. ASSUME NEW c \in Editors,
             \/ DropTable(c) \/ UnlistColumns(c) \/ UnlistRelations(c) \/ UnlistTable(c)
             \/ RemoveColumn(c) \/ UnlistColumn(c) \/ UnlistRelation(c)
      PROVE  SchemaInv'
  BY <1>4, DropTableNext, UnlistColumnsNext, UnlistRelationsNext, UnlistTableNext, RemoveColumnNext,
     UnlistColumnNext, UnlistRelationNext, RefusedFirst
<1>5. ASSUME NEW c \in Editors, Check(c) \/ Bump(c) \/ Journal(c) \/ Fails(c)
      PROVE  SchemaInv'
  BY <1>5, CheckNext, BumpNext, JournalNext, FailsNext
<1>6. ASSUME NEW c \in Editors, Serve(c) \/ ReadTables(c) \/ ReadColumns(c) \/ Put(c)
      PROVE  SchemaInv'
  BY <1>6, ServeNext
<1>7. ASSUME UNCHANGED schemaVars
      PROVE  SchemaInv'
  <2>1. UNCHANGED <<real, armed, keys, tables, columns, relations, version, journal, cache, ask, torn, overlapped>>
    BY <1>7 DEF schemaVars, database, metadata, counts, marks
  <2>2. SchemaTypes' /\ NoOverlap' /\ BuildersHold' /\ DropsHold'
    BY <2>1 DEF SchemaInv, SchemaTypes, NoOverlap, BuildersHold, DropsHold, Changing, Building, Dropping, Exists
  <2>3. RemovesHold' /\ ListedIsArmed' /\ TablesHold' /\ AddsHold'
    BY <2>1 DEF SchemaInv, RemovesHold, ListedIsArmed, TablesHold, AddsHold, Straight, Removing, Building,
                Dropping, Adding, HasColumn, Exists
  <2>4. ColumnsHold' /\ KeysHold' /\ CountsHold' /\ SnapshotsHold'
    BY <2>1 DEF SchemaInv, ColumnsHold, KeysHold, CountsHold, SnapshotsHold, Straight, Clean, Dirty, Described,
                Journaling, Removing, Dropping, Adding, HasColumn, Exists
  <2> QED  BY <2>2, <2>3, <2>4 DEF SchemaInv
<1> QED  BY <1>1, <1>2, <1>3, <1>4, <1>5, <1>6, <1>7 DEF SchemaNext

\* When no change is under way nobody answers for a difference, so that there is none.
LEMMA SchemaInvIsReal == SchemaInv => SchemaIsReal
<1> SUFFICES ASSUME SchemaInv  PROVE  SchemaIsReal
  OBVIOUS
<1> USE DEF SchemaInv
<1>1. ASSUME SchemaQuiet
      PROVE  \A c \in Editors :
                /\ ask[c].pc # "relation" /\ ask[c].pc # "journal" /\ ~Dirty(c)
                /\ \A t \in TableNames : ~Building(c, t) /\ ~Dropping(c, t)
                /\ \A t \in TableNames, k \in Columns : ~Adding(c, t, k) /\ ~Removing(c, t, k)
  <2> TAKE c \in Editors
  <2>1. ask[c].op = "serve" \/ ask[c].pc = "idle"
    BY <1>1 DEF SchemaQuiet, Changing
  <2>2. Plain(ask[c]) /\ Formed(ask[c])
    BY <2>1 DEF Plain, SchemaTypes
  <2> QED  BY <2>1, <2>2, PlainAnswers DEF Formed, StepsOf, Dirty
<1>2. MetadataIsReal
  <2> SUFFICES ASSUME SchemaQuiet, Straight
               PROVE  /\ tables = DOMAIN real
                      /\ columns = UNION {{t} \X real[t] : t \in DOMAIN real}
                      /\ relations = keys
    BY DEF MetadataIsReal, Straight
  <2>1. tables = DOMAIN real
    BY <1>1 DEF TablesHold, SchemaTypes
  <2>2. \A t \in TableNames, k \in Columns : HasColumn(t, k) <=> <<t, k>> \in columns
    BY <1>1 DEF ColumnsHold
  <2>3. columns = UNION {{t} \X real[t] : t \in DOMAIN real}
    <3>1. ASSUME NEW x \in columns
          PROVE  x \in UNION {{t} \X real[t] : t \in DOMAIN real}
      <4>1. PICK t \in TableNames, k \in Columns : x = <<t, k>>
        BY DEF SchemaTypes
      <4>2. t \in DOMAIN real /\ k \in real[t]
        BY <2>2, <4>1 DEF HasColumn, Exists
      <4> QED  BY <4>1, <4>2
    <3>2. ASSUME NEW x \in UNION {{t} \X real[t] : t \in DOMAIN real}
          PROVE  x \in columns
      <4>1. PICK t \in DOMAIN real : x \in {t} \X real[t]
        OBVIOUS
      <4>2. PICK k \in real[t] : x = <<t, k>>
        BY <4>1
      <4>3. t \in TableNames /\ k \in Columns
        BY DEF SchemaTypes
      <4> QED  BY <2>2, <4>2, <4>3 DEF HasColumn, Exists
    <3> QED  BY <3>1, <3>2
  <2>4. relations = keys
    <3>1. \A x \in AllKeys : x \in relations <=> x \in keys
      <4> TAKE x \in AllKeys
      <4>1. x.from \in TableNames /\ x.to \in TableNames /\ x.column \in Columns
        BY DEF AllKeys
      <4> QED  BY <1>1, <4>1 DEF KeysHold
    <3> QED  BY <3>1 DEF SchemaTypes
  <2> QED  BY <2>1, <2>3, <2>4
<1>3. VersionCountsChanges
  <2> SUFFICES ASSUME SchemaQuiet, ~torn  PROVE  version = journal + 1
    BY DEF VersionCountsChanges
  <2>1. Journaling = {}
    BY <1>1 DEF Journaling
  <2> QED  BY <2>1, FS_EmptySet DEF CountsHold, SchemaTypes
<1>4. ServedIsCurrent
  BY <1>1 DEF ServedIsCurrent, SnapshotsHold, Clean, Straight, Described
<1> QED  BY <1>2, <1>3, <1>4 DEF SchemaIsReal

\* The metadata, the triggers, the version and the GraphQL schema that is cached say what the database
\* has, whatever changes and readers run at the same time and wherever they are cut off.
THEOREM SchemaStaysReal == SchemaSpec => []SchemaIsReal
<1>1. SchemaInit => SchemaInv
  BY SchemaInvInit
<1>2. SchemaInv /\ [SchemaNext]_schemaVars => SchemaInv'
  BY SchemaInvNext
<1>3. SchemaInv => SchemaIsReal
  BY SchemaInvIsReal
<1> QED  BY <1>1, <1>2, <1>3, PTL DEF SchemaSpec
=============================================================================
