------------------------------- MODULE ApiProofs -------------------------------
(***************************************************************************)
(* Proofs about the parts of hr-api.                                       *)
(*                                                                         *)
(* Accounts, for any session ids, changes and deaths: nobody is let in     *)
(* whose session had ended, a session that has gone stays gone, and        *)
(* users.yml keeps every change that was written to it.                    *)
(*                                                                         *)
(* Updates, for any jobs, cancellations, hosts, calls and restarts: what   *)
(* is shown of a check or an upgrade is what happened.                     *)
(***************************************************************************)
EXTENDS Accounts, Updates, FiniteSetTheorems, SequenceTheorems, TLAPS


Rows  == [over : BOOLEAN, quiet : BOOLEAN, long : BOOLEAN]
Steps == {"idle", "create", "select", "remove", "touch", "user", "load", "empty", "fill", "in"}
Records ==
    [pc : Steps, id : Ids \cup {"none"}, copy : User,
     todo : {"none", "login", "stamp", "enter", "change"}, stale : BOOLEAN, late : BOOLEAN]

Types ==
    /\ created \subseteq Ids /\ DOMAIN table \subseteq created /\ table \in [DOMAIN table -> Rows]
    /\ file \in [whole : BOOLEAN, user : User] /\ saved \in User
    /\ req \in [Callers -> Records]
    /\ changes \in 0..MaxChanges /\ crashes \in 0..MaxCrashes /\ lost \in BOOLEAN

Ended(s) == s \in created /\ (s \in DOMAIN table => table[s].over)

\* A request whose session had ended gets no further than the row, which has not come back.
Late ==
    \A c \in Callers : req[c].late => req[c].pc \in {"select", "remove"} /\ Ended(req[c].id)

Writing(c) == req[c].pc \in {"empty", "fill"} /\ ~req[c].stale

\* A copy that is not stale is the current one, and who is between the halves of its write is the
\* only one with such a copy.
Copies ==
    ~lost =>
        /\ file.whole => file.user = saved
        /\ \A c \in Callers : Writing(c) => req[c].copy = saved
        /\ \A c \in Callers : (Writing(c) /\ req[c].pc = "fill") =>
                ~file.whole /\ \A d \in Callers \ {c} : ~Writing(d)

IInv == Types /\ Late /\ Copies

-----------------------------------------------------------------------------
LEMMA IdleType ==
    ASSUME MaxChanges \in Nat
    PROVE  Idle \in Records /\ Idle.pc = "idle" /\ ~Idle.late /\ ~Idle.stale /\ Nobody \in User
<1>1. Nobody \in User
  BY DEF Nobody, User
<1> QED
  BY <1>1 DEF Idle, Records, Steps

LEMMA ThenType ==
    ASSUME MaxChanges \in Nat, NEW c \in Callers, Types, NEW step \in Steps
    PROVE  /\ Then(c, step) \in Records /\ Then(c, step).pc = step
           /\ Then(c, step).copy = req[c].copy \/ step = "idle"
           /\ Then(c, step).id = req[c].id \/ step = "idle"
           /\ Then(c, step).stale = req[c].stale \/ step = "idle"
           /\ Then(c, step).late => req[c].late /\ step # "idle"
<1>1. req[c] \in Records
  BY DEF Types
<1> QED
  BY <1>1, IdleType DEF Then, Records

LEMMA ChangedType ==
    ASSUME MaxChanges \in Nat, Types, NEW c \in Callers, NEW user \in User
    PROVE  Changed(c, user) \in User
  BY DEF Changed, User, Types

LEMMA InitInv ==
    ASSUME MaxChanges \in Nat, MaxCrashes \in Nat, Init PROVE IInv
<1>1. Types
  <2>1. DOMAIN table = {} /\ table \in [DOMAIN table -> Rows]
    BY DEF Init
  <2>2. req \in [Callers -> Records] /\ file \in [whole : BOOLEAN, user : User] /\ saved \in User
    BY IdleType DEF Init
  <2>3. created = {} /\ changes = 0 /\ crashes = 0 /\ lost = FALSE
    BY DEF Init
  <2>4. 0 \in 0..MaxChanges /\ 0 \in 0..MaxCrashes
    OBVIOUS
  <2> QED
    BY <2>1, <2>2, <2>3, <2>4 DEF Types
<1>2. Late
  BY IdleType DEF Init, Late
<1>3. Copies
  BY IdleType DEF Init, Copies, Writing
<1> QED
  BY <1>1, <1>2, <1>3 DEF IInv

-----------------------------------------------------------------------------
(* What a step does to the rows, to one request, and to the file.          *)

\* No row comes back and none that is over is renewed.
RowsOnward ==
    /\ created \subseteq created'
    /\ \A s \in created : Ended(s) => Ended(s)'

\* The session has ended when the step is over.
EndedNext(s) == s \in created' /\ (s \in DOMAIN table' => table'[s].over)

\* A step of one request that leaves the file alone: what it writes later it has just read.
LEMMA OneRequest ==
    ASSUME MaxChanges \in Nat, NEW c \in Callers, NEW q \in Records, IInv,
           req' = [req EXCEPT ![c] = q], UNCHANGED <<file, saved, lost>>, Types',
           RowsOnward,
           q.late => q.pc \in {"select", "remove"} /\ EndedNext(q.id),
           q.pc = "empty" => file.whole /\ q.copy = file.user,
           q.pc # "fill"
    PROVE  IInv'
<1>1. req'[c] = q /\ \A d \in Callers \ {c} : req'[d] = req[d]
  BY DEF IInv, Types
<1>2. Late'
  <2> SUFFICES ASSUME NEW d \in Callers, req'[d].late
               PROVE  (req[d].pc \in {"select", "remove"} /\ Ended(req[d].id))'
    BY DEF Late
  <2>1. CASE d = c
    BY <1>1, <2>1 DEF Ended, EndedNext
  <2>2. CASE d # c
    <3>1. req[d].pc \in {"select", "remove"} /\ Ended(req[d].id) /\ req[d].id \in created
      BY <1>1, <2>2 DEF IInv, Late, Ended
    <3> QED
      BY <1>1, <2>2, <3>1 DEF RowsOnward, Ended
  <2> QED
    BY <2>1, <2>2
<1>3. Copies'
  BY <1>1 DEF IInv, Copies, Writing
<1> QED
  BY <1>2, <1>3 DEF IInv

\* A step on the rows that leaves the requests alone.
LEMMA OnlyRows ==
    ASSUME IInv, UNCHANGED <<req, file, saved, lost>>, Types', RowsOnward
    PROVE  IInv'
<1>1. Late'
  BY DEF IInv, Late, RowsOnward, Ended
<1>2. Copies'
  BY DEF IInv, Copies, Writing
<1> QED
  BY <1>1, <1>2 DEF IInv

\* Deleting a row.
LEMMA WithoutRow ==
    ASSUME Types, NEW s, table' = Without(s), UNCHANGED created
    PROVE  /\ DOMAIN table' \subseteq created' /\ table' \in [DOMAIN table' -> Rows]
           /\ RowsOnward /\ s \notin DOMAIN table'
           /\ \A t \in created : t \notin DOMAIN table => t \notin DOMAIN table'
  BY DEF Types, Without, RowsOnward, Ended

LEMMA SameRows ==
    ASSUME Types, UNCHANGED rows
    PROVE  /\ DOMAIN table' \subseteq created' /\ table' \in [DOMAIN table' -> Rows]
           /\ created' \subseteq Ids /\ RowsOnward
  BY DEF Types, rows, RowsOnward, Ended

-----------------------------------------------------------------------------
(* One lemma per action.                                                   *)

LEMMA LoginStep ==
    ASSUME MaxChanges \in Nat, IInv, NEW c \in Callers, Login(c) PROVE IInv'
<1>1. PICK q \in Records :
        /\ req' = [req EXCEPT ![c] = q] /\ ~q.late /\ q.pc \in {"load", "create"}
  <2>1. \A step \in {"load", "create"}, what \in {"login", "stamp"} :
          LET q == [Idle EXCEPT !.pc = step, !.todo = what]
          IN  q \in Records /\ ~q.late /\ q.pc = step
    BY IdleType DEF Records, Steps, Idle
  <2> QED
    BY <2>1 DEF Login, Begin
<1>2. Types' /\ RowsOnward
  BY <1>1, SameRows DEF IInv, Types, Login, history, rows
<1> QED
  BY <1>1, <1>2, OneRequest DEF Login, history

LEMMA ChangePasswordStep ==
    ASSUME MaxChanges \in Nat, IInv, NEW c \in Callers, ChangePassword(c) PROVE IInv'
<1> DEFINE q == [Idle EXCEPT !.pc = "load", !.todo = "change"]
<1>1. q \in Records /\ ~q.late /\ q.pc = "load"
  BY IdleType DEF Records, Steps, Idle
<1>2. req' = [req EXCEPT ![c] = q]
  BY DEF ChangePassword, Begin
<1>3. changes' \in 0..MaxChanges
  BY DEF ChangePassword, IInv, Types
<1>4. Types' /\ RowsOnward
  BY <1>1, <1>2, <1>3, SameRows DEF IInv, Types, ChangePassword, rows
<1> HIDE DEF q
<1> QED
  BY <1>1, <1>2, <1>4, OneRequest DEF ChangePassword

\* A request that goes on without reading the file.
LEMMA GoesOn ==
    ASSUME MaxChanges \in Nat, IInv, NEW c \in Callers, NEW step \in Steps \ {"empty", "fill"},
           Go(c, step), UNCHANGED <<file, saved, lost, changes>>, crashes' \in 0..MaxCrashes,
           created' \subseteq Ids, DOMAIN table' \subseteq created',
           table' \in [DOMAIN table' -> Rows], RowsOnward,
           req[c].late => step = "idle" \/ (step \in {"select", "remove"} /\ EndedNext(req[c].id))
    PROVE  IInv'
<1> DEFINE q == Then(c, step)
<1>1. q \in Records /\ q.pc = step /\ req' = [req EXCEPT ![c] = q]
  BY ThenType DEF IInv, Go
<1>2. q.late => q.pc \in {"select", "remove"} /\ EndedNext(q.id)
  <2>1. q.late => req[c].late /\ step # "idle"
    BY ThenType DEF IInv
  <2>2. step # "idle" => q.id = req[c].id
    BY ThenType DEF IInv
  <2> HIDE DEF q
  <2> QED
    BY <1>1, <2>1, <2>2
<1>3. Types'
  BY <1>1 DEF IInv, Types
<1> HIDE DEF q
<1> QED
  BY <1>1, <1>2, <1>3, OneRequest

LEMMA CreateStep ==
    ASSUME MaxChanges \in Nat, IInv, NEW c \in Callers, Create(c) PROVE IInv'
<1>1. PICK s \in Ids \ created, long \in BOOLEAN :
        /\ table' = [i \in DOMAIN table \cup {s} |->
                       IF i = s THEN [over |-> FALSE, quiet |-> FALSE, long |-> long] ELSE table[i]]
        /\ created' = created \cup {s}
  BY DEF Create
<1>2. /\ created' \subseteq Ids /\ DOMAIN table' \subseteq created'
      /\ table' \in [DOMAIN table' -> Rows]
  BY <1>1 DEF IInv, Types, Rows
<1>3. RowsOnward
  BY <1>1 DEF IInv, Types, RowsOnward, Ended
<1>4. ~req[c].late /\ UNCHANGED <<file, saved, lost, changes, crashes>> /\ crashes \in 0..MaxCrashes
  BY DEF IInv, Late, Types, Create, At, history
<1>5. Go(c, IF c = Edge THEN "idle" ELSE "load")
  BY DEF Create
<1> QED
  BY <1>2, <1>3, <1>4, <1>5, GoesOn DEF Steps

LEMMA PresentStep ==
    ASSUME MaxChanges \in Nat, IInv, NEW c \in Callers, NEW s \in Ids, Present(c, s) PROVE IInv'
<1> DEFINE q == [Idle EXCEPT !.pc = "select", !.id = s, !.todo = "enter",
                             !.late = s \notin DOMAIN table \/ table[s].over]
<1>1. s \in DOMAIN table => table[s].over \in BOOLEAN
  BY DEF IInv, Types, Rows
<1>2. q \in Records /\ q.pc = "select" /\ q.id = s /\ (q.late => Ended(s))
  BY <1>1, IdleType DEF Records, Steps, Idle, Present, Ended
<1>3. req' = [req EXCEPT ![c] = q] /\ UNCHANGED <<file, history, rows>>
  BY DEF Present
<1>4. Types' /\ RowsOnward /\ EndedNext(s) = Ended(s)
  BY <1>2, <1>3, SameRows DEF IInv, Types, history, rows, Ended, EndedNext
<1> HIDE DEF q
<1>5. q.late => q.pc \in {"select", "remove"} /\ EndedNext(q.id)
  BY <1>2, <1>4
<1> QED
  BY <1>2, <1>3, <1>4, <1>5, OneRequest DEF history

LEMMA SelectStep ==
    ASSUME MaxChanges \in Nat, IInv, NEW c \in Callers, Select(c) PROVE IInv'
<1> DEFINE s == req[c].id
           step == IF s \notin DOMAIN table THEN "idle"
                   ELSE IF table[s].over \/ Inactive(s) THEN "remove" ELSE "touch"
<1>1. /\ created' \subseteq Ids /\ DOMAIN table' \subseteq created'
      /\ table' \in [DOMAIN table' -> Rows] /\ RowsOnward
  BY SameRows DEF IInv, Select, rows, Types
<1>2. req[c].late => step = "idle" \/ (step = "remove" /\ EndedNext(s))
  BY DEF IInv, Late, Ended, EndedNext, Select, rows
<1>3. step \in Steps \ {"empty", "fill"} /\ Go(c, step)
  BY DEF Steps, Select
<1>4. UNCHANGED <<file, saved, lost, changes, crashes>> /\ crashes \in 0..MaxCrashes
  BY DEF IInv, Types, Select, history
<1> HIDE DEF step
<1> QED
  BY <1>1, <1>2, <1>3, <1>4, GoesOn

LEMMA RemoveStep ==
    ASSUME MaxChanges \in Nat, IInv, NEW c \in Callers, Remove(c) PROVE IInv'
<1>1. /\ created' \subseteq Ids /\ DOMAIN table' \subseteq created'
      /\ table' \in [DOMAIN table' -> Rows] /\ RowsOnward
  BY WithoutRow DEF IInv, Types, Remove
<1>2. /\ UNCHANGED <<file, saved, lost, changes, crashes>> /\ crashes \in 0..MaxCrashes
      /\ Go(c, "idle")
  BY DEF IInv, Types, Remove, history
<1> QED
  BY <1>1, <1>2, GoesOn DEF Steps

LEMMA TouchStep ==
    ASSUME MaxChanges \in Nat, IInv, NEW c \in Callers, Touch(c) PROVE IInv'
<1>1. /\ created' \subseteq Ids /\ DOMAIN table' \subseteq created'
      /\ table' \in [DOMAIN table' -> Rows]
  BY DEF IInv, Types, Touch, Rows
<1>2. RowsOnward
  BY DEF IInv, Types, Touch, Rows, RowsOnward, Ended
<1>3. /\ UNCHANGED <<file, saved, lost, changes, crashes>> /\ crashes \in 0..MaxCrashes
      /\ Go(c, "user") /\ ~req[c].late
  BY DEF IInv, Types, Touch, history, Late, At
<1> QED
  BY <1>1, <1>2, <1>3, GoesOn DEF Steps

LEMMA DoneStep ==
    ASSUME MaxChanges \in Nat, MaxCrashes \in Nat, IInv, NEW c \in Callers, Done(c) \/ Die(c)
    PROVE  IInv'
<1>1. /\ created' \subseteq Ids /\ DOMAIN table' \subseteq created'
      /\ table' \in [DOMAIN table' -> Rows] /\ RowsOnward
  BY SameRows DEF IInv, Done, Die, Types, rows
<1>2. /\ UNCHANGED <<file, saved, lost, changes>> /\ crashes' \in 0..MaxCrashes /\ Go(c, "idle")
  BY DEF IInv, Types, Done, Die, history
<1> QED
  BY <1>1, <1>2, GoesOn DEF Steps

\* A session is deleted, the expired ones are cleaned up, or time passes for one.
LEMMA RowStep ==
    ASSUME IInv,
           \/ \E c \in Callers, s \in Ids : Delete(c, s)
           \/ \E s \in Ids : Ages(s)
           \/ CleanupExpired
    PROVE  IInv'
<1>1. UNCHANGED <<created, file, req, history>>
  BY DEF Delete, Ages, CleanupExpired
<1>2. /\ DOMAIN table' \subseteq created' /\ table' \in [DOMAIN table' -> Rows] /\ RowsOnward
  <2>1. CASE \E c \in Callers, s \in Ids : Delete(c, s)
    BY <2>1, WithoutRow DEF IInv, Delete
  <2>2. CASE \E s \in Ids : Ages(s)
    <3>1. PICK s \in DOMAIN table :
            \/ table' = [table EXCEPT ![s].over = TRUE]
            \/ table' = [table EXCEPT ![s].quiet = TRUE]
      BY <2>2 DEF Ages
    <3>2. \A t \in DOMAIN table :
            table'[t] \in Rows /\ (table[t].over => table'[t].over)
      <4> SUFFICES ASSUME NEW t \in DOMAIN table
                   PROVE  table'[t] \in Rows /\ (table[t].over => table'[t].over)
        OBVIOUS
      <4>1. table[t] \in Rows
        BY DEF IInv, Types
      <4>2. \/ table'[t] = table[t]
            \/ table'[t] = [table[t] EXCEPT !.over = TRUE]
            \/ table'[t] = [table[t] EXCEPT !.quiet = TRUE]
        BY <3>1
      <4>3. CASE table'[t] = table[t]
        BY <4>1, <4>3
      <4>4. CASE table'[t] = [table[t] EXCEPT !.over = TRUE]
        BY <4>1, <4>4 DEF Rows
      <4>5. CASE table'[t] = [table[t] EXCEPT !.quiet = TRUE]
        BY <4>1, <4>5 DEF Rows
      <4> QED
        BY <4>2, <4>3, <4>4, <4>5
    <3>3. DOMAIN table' = DOMAIN table /\ table' = [t \in DOMAIN table |-> table'[t]]
      BY <3>1
    <3> QED
      BY <1>1, <3>2, <3>3 DEF IInv, Types, RowsOnward, Ended
  <2>3. CASE CleanupExpired
    BY <1>1, <2>3 DEF IInv, Types, CleanupExpired, RowsOnward, Ended
  <2> QED
    BY <2>1, <2>2, <2>3
<1>3. Types'
  BY <1>1, <1>2 DEF IInv, Types, history
<1> QED
  BY <1>1, <1>2, <1>3, OnlyRows DEF history

\* The file is read: the copy is the file as it is.
LEMMA ReadStep ==
    ASSUME MaxChanges \in Nat, IInv, NEW c \in Callers, NEW step \in {"empty", "in"},
           file.whole, ~req[c].late,
           req' = [req EXCEPT ![c].pc = step, ![c].copy = file.user],
           UNCHANGED <<rows, file, history>>
    PROVE  IInv'
<1> DEFINE q == [req[c] EXCEPT !.pc = step, !.copy = file.user]
<1>1. q \in Records /\ q.pc = step /\ q.copy = file.user /\ q.late = req[c].late
  BY DEF IInv, Types, Records, Steps
<1>2. req' = [req EXCEPT ![c] = q]
  BY DEF IInv, Types
<1>3. Types' /\ RowsOnward
  BY <1>1, <1>2, SameRows DEF IInv, Types, history, rows
<1> HIDE DEF q
<1> QED
  BY <1>1, <1>2, <1>3, OneRequest DEF history

LEMMA FindUserStep ==
    ASSUME MaxChanges \in Nat, IInv, NEW c \in Callers, FindUser(c) PROVE IInv'
<1>1. ~req[c].late
  BY DEF IInv, Late, FindUser, At
<1>2. CASE file.whole
  <2> DEFINE step == IF file.user.uuid = NoUuid THEN "empty" ELSE "in"
  <2>1. req' = [req EXCEPT ![c].pc = step, ![c].copy = file.user]
    BY <1>2 DEF FindUser
  <2>2. step \in {"empty", "in"} /\ UNCHANGED <<rows, file, history>>
    BY <1>2 DEF FindUser, rows
  <2> HIDE DEF step
  <2> QED
    BY <1>1, <1>2, <2>1, <2>2, ReadStep
<1>3. CASE ~file.whole
  <2>1. /\ UNCHANGED <<file, saved, lost, changes, crashes>> /\ crashes \in 0..MaxCrashes
        /\ Go(c, "idle") /\ created' = created /\ created \subseteq Ids
    BY <1>3 DEF IInv, Types, FindUser, history
  <2>2. table' = table \/ table' = Without(req[c].id)
    BY <1>3 DEF FindUser
  <2>3. DOMAIN table' \subseteq created' /\ table' \in [DOMAIN table' -> Rows] /\ RowsOnward
    BY <2>1, <2>2, WithoutRow, SameRows DEF IInv, rows
  <2> QED
    BY <1>1, <2>1, <2>3, GoesOn DEF Steps
<1> QED
  BY <1>2, <1>3

LEMMA LoadStep ==
    ASSUME MaxChanges \in Nat, IInv, NEW c \in Callers, Load(c) PROVE IInv'
<1>1. ~req[c].late
  BY DEF IInv, Late, Load, At
<1>2. CASE file.whole
  BY <1>1, <1>2, ReadStep DEF Load
<1>3. CASE ~file.whole
  <2>1. /\ UNCHANGED <<file, saved, lost, changes, crashes>> /\ crashes \in 0..MaxCrashes
        /\ Go(c, AfterFile(c)) /\ AfterFile(c) \in Steps \ {"empty", "fill"}
    BY <1>3 DEF IInv, Types, Load, history, AfterFile, Steps
  <2>2. /\ created' \subseteq Ids /\ DOMAIN table' \subseteq created'
        /\ table' \in [DOMAIN table' -> Rows] /\ RowsOnward
    BY SameRows DEF IInv, Load, rows
  <2> QED
    BY <1>1, <2>1, <2>2, GoesOn
<1> QED
  BY <1>2, <1>3

\* The first half of a write makes every other copy a stale one.
LEMMA EmptyStep ==
    ASSUME MaxChanges \in Nat, IInv, NEW c \in Callers, Empty(c) PROVE IInv'
<1>1. /\ req[c].pc = "empty" /\ file' = [file EXCEPT !.whole = FALSE]
      /\ UNCHANGED <<rows, history>>
  BY DEF Empty, At
<1>2. /\ Then(c, "fill") \in Records /\ req'[c] = Then(c, "fill")
      /\ req'[c] = [req[c] EXCEPT !.pc = "fill"]
  BY ThenType DEF IInv, Empty, Then, Steps
<1>3. \A d \in Callers \ {c} :
        req'[d] = [req[d] EXCEPT !.stale = @ \/ req[d].pc \in {"empty", "fill"}]
  BY DEF Empty
<1>4. \A d \in Callers :
        /\ req'[d] \in Records /\ req[d] \in Records /\ req'[d].late = req[d].late
        /\ req'[d].id = req[d].id
        /\ d # c => req'[d].pc = req[d].pc /\ ~Writing(d)'
  <2> SUFFICES ASSUME NEW d \in Callers
               PROVE  /\ req'[d] \in Records /\ req[d] \in Records /\ req'[d].late = req[d].late
                      /\ req'[d].id = req[d].id
                      /\ d # c => req'[d].pc = req[d].pc /\ ~Writing(d)'
    OBVIOUS
  <2>1. req[d] \in Records
    BY DEF IInv, Types
  <2>2. CASE d = c
    BY <1>2, <2>1, <2>2 DEF Records
  <2>3. CASE d # c
    <3>1. req'[d] = [req[d] EXCEPT !.stale = @ \/ req[d].pc \in {"empty", "fill"}]
      BY <1>3, <2>3
    <3>2. (req[d].stale \/ req[d].pc \in {"empty", "fill"}) \in BOOLEAN
      BY <2>1 DEF Records
    <3>3. req'[d] \in Records /\ req'[d].pc = req[d].pc
          /\ req'[d].stale = (req[d].stale \/ req[d].pc \in {"empty", "fill"})
          /\ req'[d].late = req[d].late /\ req'[d].id = req[d].id
      BY <2>1, <3>1, <3>2 DEF Records
    <3> QED
      BY <2>1, <3>3 DEF Writing
  <2> QED
    BY <2>2, <2>3
<1>5. Types'
  <2>1. req' \in [Callers -> Records]
    BY <1>4 DEF Empty
  <2>2. file' \in [whole : BOOLEAN, user : User] /\ file'.whole = FALSE
    BY <1>1 DEF IInv, Types
  <2> QED
    BY <1>1, <2>1, <2>2 DEF IInv, Types, rows, history
<1>6. Late'
  <2> SUFFICES ASSUME NEW d \in Callers, req'[d].late
               PROVE  (req[d].pc \in {"select", "remove"} /\ Ended(req[d].id))'
    BY DEF Late
  <2>1. req[d].pc \in {"select", "remove"} /\ Ended(req[d].id) /\ d # c
    BY <1>1, <1>4 DEF IInv, Late
  <2> QED
    BY <1>1, <1>4, <2>1 DEF Ended, rows
<1>7. Copies'
  <2>1. /\ file'.whole = FALSE /\ saved' = saved /\ lost' = lost
        /\ req'[c].copy = req[c].copy /\ req'[c].stale = req[c].stale
    BY <1>1, <1>2, <1>4 DEF IInv, Types, Records, history
  <2> QED
    BY <1>1, <1>4, <2>1 DEF IInv, Copies, Writing
<1> QED
  BY <1>5, <1>6, <1>7 DEF IInv

\* The second half: a write that loses nothing was that of the only current copy.
LEMMA FillStep ==
    ASSUME MaxChanges \in Nat, IInv, NEW c \in Callers, Fill(c) PROVE IInv'
<1> DEFINE q == Then(c, AfterFile(c))
<1>1. /\ req[c].pc = "fill" /\ UNCHANGED <<rows, changes, crashes>>
      /\ file' = [whole |-> TRUE, user |-> Changed(c, req[c].copy)]
      /\ saved' = Changed(c, saved) /\ lost' = (lost \/ req[c].stale)
      /\ req' = [req EXCEPT ![c] = q]
  BY DEF Fill, At, Go
<1>2. AfterFile(c) \in Steps \ {"empty", "fill"}
  BY DEF AfterFile, Steps
<1>3. q \in Records /\ q.pc \notin {"empty", "fill"} /\ ~q.late
  BY <1>1, <1>2, ThenType DEF IInv, Late
<1> HIDE DEF q
<1>4. req'[c] = q /\ \A d \in Callers \ {c} : req'[d] = req[d]
  BY <1>1 DEF IInv, Types
<1>5. Types'
  <2>1. req[c].copy \in User /\ req[c].stale \in BOOLEAN /\ saved \in User
    BY DEF IInv, Types, Records
  <2>2. Changed(c, req[c].copy) \in User /\ Changed(c, saved) \in User
    BY <2>1, ChangedType DEF IInv
  <2> QED
    BY <1>1, <1>3, <2>1, <2>2 DEF IInv, Types, rows
<1>6. Late'
  <2> SUFFICES ASSUME NEW d \in Callers, req'[d].late
               PROVE  (req[d].pc \in {"select", "remove"} /\ Ended(req[d].id))'
    BY DEF Late
  <2>1. d # c /\ req[d].pc \in {"select", "remove"} /\ Ended(req[d].id)
    BY <1>3, <1>4 DEF IInv, Late
  <2> QED
    BY <1>1, <1>4, <2>1 DEF Ended, rows
<1>7. Copies'
  <2> SUFFICES ASSUME ~lost'
               PROVE  /\ file'.user = saved' /\ \A d \in Callers : ~Writing(d)'
    BY DEF Copies
  <2>1. ~lost /\ Writing(c)
    BY <1>1 DEF Writing
  <2>2. req[c].copy = saved /\ \A d \in Callers \ {c} : ~Writing(d)
    BY <1>1, <2>1 DEF IInv, Copies
  <2> QED
    BY <1>1, <1>3, <1>4, <2>2 DEF Writing
<1> QED
  BY <1>5, <1>6, <1>7 DEF IInv

-----------------------------------------------------------------------------
LEMMA StepInv ==
    ASSUME MaxChanges \in Nat, MaxCrashes \in Nat, IInv, [Next]_vars PROVE IInv'
<1>1. CASE UNCHANGED vars
  BY <1>1, SameRows, OnlyRows DEF IInv, Types, vars, rows, history
<1>2. ASSUME NEW c \in Callers,
             \/ Login(c) \/ Create(c) \/ Select(c) \/ Remove(c) \/ Touch(c) \/ FindUser(c)
             \/ ChangePassword(c) \/ Load(c) \/ Empty(c) \/ Fill(c) \/ Done(c) \/ Die(c)
      PROVE  IInv'
  BY <1>2, LoginStep, CreateStep, SelectStep, RemoveStep, TouchStep, FindUserStep,
     ChangePasswordStep, LoadStep, EmptyStep, FillStep, DoneStep
<1>3. ASSUME NEW c \in Callers, NEW s \in Ids, Present(c, s) PROVE IInv'
  BY <1>3, PresentStep
<1>4. ASSUME \/ \E c \in Callers, s \in Ids : Delete(c, s)
             \/ \E s \in Ids : Ages(s)
             \/ CleanupExpired
      PROVE  IInv'
  BY <1>4, RowStep
<1> QED
  BY <1>1, <1>2, <1>3, <1>4 DEF Next

\* The types and both promises of the stores hold wherever the invariant does.
LEMMA InvHolds == ASSUME IInv PROVE TypeOK /\ AccountsHold
<1>1. TypeOK
  BY DEF IInv, Types, TypeOK, Records, Steps, Rows
<1>2. NoLateWelcome
  BY DEF IInv, Late, NoLateWelcome, At
<1>3. SavedStays
  BY DEF IInv, Copies, SavedStays
<1> QED
  BY <1>1, <1>2, <1>3 DEF AccountsHold

\* Nobody whose session had ended is let in (SessionStore::get), and users.yml holds every change
\* that was written unless two changes overlapped (UserStore: load, change, save).
THEOREM AccountsAreKept ==
    ASSUME MaxChanges \in Nat, MaxCrashes \in Nat
    PROVE  Spec => [](TypeOK /\ AccountsHold)
<1>1. Init => IInv
  BY InitInv
<1>2. IInv /\ [Next]_vars => IInv'
  BY StepInv
<1>3. IInv => TypeOK /\ AccountsHold
  BY InvHolds
<1> QED
  BY <1>1, <1>2, <1>3, PTL DEF Spec

\* Only a login adds a row, and under an id that was never used; what a validation does to a row
\* that has gone in between does not bring it back.
LEMMA StepGone ==
    ASSUME IInv, [Next]_vars
    PROVE  \A s \in created : s \notin DOMAIN table => s \notin DOMAIN table'
<1> USE DEF IInv, Types
<1>1. CASE UNCHANGED table
  BY <1>1
<1>2. CASE \E c \in Callers : Create(c)
  BY <1>2 DEF Create
<1>3. CASE \E i : table' = Without(i)
  BY <1>3 DEF Without
<1>4. CASE CleanupExpired
  BY <1>4 DEF CleanupExpired
<1>5. CASE DOMAIN table' = DOMAIN table
  BY <1>5
<1>6. ASSUME NEW c \in Callers, Touch(c) PROVE DOMAIN table' = DOMAIN table
  BY <1>6 DEF Touch
<1>7. ASSUME NEW s \in Ids, Ages(s) PROVE DOMAIN table' = DOMAIN table
  BY <1>7 DEF Ages
<1>8. ASSUME NEW c \in Callers, FindUser(c)
      PROVE  table' = table \/ table' = Without(req[c].id)
  BY <1>8 DEF FindUser
<1>9. ASSUME NEW c \in Callers, Remove(c) \/ (\E s \in Ids : Delete(c, s))
      PROVE  \E i : table' = Without(i)
  BY <1>9 DEF Remove, Delete
<1>10. ASSUME NEW c \in Callers,
              \/ Login(c) \/ Select(c) \/ ChangePassword(c) \/ Load(c) \/ Empty(c) \/ Fill(c)
              \/ Done(c) \/ Die(c) \/ \E s \in Ids : Present(c, s)
       PROVE  UNCHANGED table
  BY <1>10 DEF Login, Select, ChangePassword, Load, Empty, Fill, Done, Die, Present, rows
<1> QED
  BY <1>1, <1>2, <1>3, <1>4, <1>5, <1>6, <1>7, <1>8, <1>9, <1>10 DEF Next, vars, rows

\* A session that was logged out, revoked or cleaned up does not come back.
THEOREM SessionsStayGone ==
    ASSUME MaxChanges \in Nat, MaxCrashes \in Nat
    PROVE  Spec => GoneStaysGone
<1>1. Init => IInv
  BY InitInv
<1>2. IInv /\ [Next]_vars => IInv'
  BY StepInv
<1>3. IInv /\ [Next]_vars =>
        [\A s \in created : s \notin DOMAIN table => s \notin DOMAIN table']_vars
  BY StepGone
<1> QED
  BY <1>1, <1>2, <1>3, PTL DEF Spec, GoneStaysGone

-----------------------------------------------------------------------------
(* Updates                                                                 *)

\* A flag that is raised stands for a task; of a kind that was left alone there is one request or task.
JobsInv ==
    /\ JobsTypeOK
    /\ \A j \in Jobs : job[j].step \in {"collect", "write"} => job[j].kind = "check"
    /\ \A kind \in JobKinds : running[kind] => \E j \in Jobs : j \in AtWork(kind)
    /\ \A kind \in JobKinds : kind \notin disturbed =>
            /\ \A i, j \in AtWork(kind) \cup Asking(kind) : i = j
            /\ AtWork(kind) # {} => running[kind]

LEMMA JobsInvInit == JobsInit => JobsInv
BY JobsAssumption DEF JobsInit, JobsInv, JobsTypeOK, JobKinds, JobSteps, AtWork, Asking, JobAt

LEMMA JobsInvNext == JobsInv /\ [JobsNext]_jobsVars => JobsInv'
<1> SUFFICES ASSUME JobsInv, [JobsNext]_jobsVars
             PROVE  JobsInv'
  OBVIOUS
<1> USE JobsAssumption DEF JobsInv
<1>1. ASSUME NEW j \in Jobs, NEW kind \in JobKinds, AskJob(j, kind)
      PROVE  JobsInv'
  <2>1. JobsTypeOK'
    BY <1>1 DEF AskJob, JobsTypeOK, JobSteps, JobKinds
  <2>2. job' = [job EXCEPT ![j] = [kind |-> kind, step |-> "asked"]] /\ job[j].step = "unused"
        /\ running' = running
    BY <1>1 DEF AskJob, JobAt
  <2>3. \A k \in JobKinds : AtWork(k)' = AtWork(k) /\ Asking(k)' = Asking(k) \cup (IF k = kind THEN {j} ELSE {})
    BY <2>2 DEF AtWork, Asking, JobAt, JobsTypeOK
  <2>4. kind \notin disturbed' => kind \notin disturbed /\ Asking(kind) = {} /\ AtWork(kind) = {}
    BY <1>1 DEF AskJob
  <2>5. \A k \in JobKinds : k \notin disturbed' => k \notin disturbed
    BY <1>1 DEF AskJob
  <2> QED  BY <2>1, <2>2, <2>3, <2>4, <2>5
<1>2. ASSUME NEW j \in Jobs, BeginJob(j)
      PROVE  JobsInv'
  <2> DEFINE kind == job[j].kind
  <2>1. JobsTypeOK' /\ kind \in JobKinds
    BY <1>2 DEF BeginJob, JobsTypeOK, JobSteps, JobGo
  <2>2. job' = [job EXCEPT ![j].step = "command"] /\ job[j].step = "asked"
        /\ running' = [running EXCEPT ![kind] = TRUE] /\ disturbed' = disturbed
    BY <1>2 DEF BeginJob, JobAt, JobGo
  <2>3. \A k \in JobKinds : /\ AtWork(k)' = AtWork(k) \cup (IF k = kind THEN {j} ELSE {})
                            /\ Asking(k)' \subseteq Asking(k)
                            /\ k = kind => j \in Asking(k)
    BY <2>2 DEF AtWork, Asking, JobAt, JobsTypeOK
  <2> QED  BY <2>1, <2>2, <2>3 DEF JobsTypeOK
<1>3. ASSUME NEW j \in Jobs, UpgradeEnds(j) \/ CheckEnds(j)
      PROVE  JobsInv'
  <2> DEFINE kind == job[j].kind
  <2>0. job' = [job EXCEPT ![j].step = "over"] /\ job[j].step \in {"command", "write"}
        /\ running' = [running EXCEPT ![kind] = FALSE] /\ disturbed' = disturbed
    <3>1. CASE UpgradeEnds(j)
      BY <3>1 DEF UpgradeEnds, JobAt, JobGo, Lower
    <3>2. CASE CheckEnds(j)
      BY <3>2 DEF CheckEnds, JobAt, JobGo, Lower, JobsTypeOK
    <3> QED  BY <1>3, <3>1, <3>2
  <2>1. JobsTypeOK' /\ kind \in JobKinds
    BY <1>3, <2>0 DEF UpgradeEnds, CheckEnds, JobsTypeOK, JobSteps
  <2>3. \A k \in JobKinds : /\ AtWork(k)' = AtWork(k) \ (IF k = kind THEN {j} ELSE {})
                            /\ Asking(k)' = Asking(k)
                            /\ k = kind => j \in AtWork(k)
    BY <2>0 DEF AtWork, Asking, JobAt, JobsTypeOK
  <2> QED  BY <2>0, <2>1, <2>3 DEF JobsTypeOK
<1>4. ASSUME NEW j \in Jobs, AptEnds(j) \/ Collect(j)
      PROVE  JobsInv'
  <2>0. PICK step \in {"collect", "write"} :
            job' = [job EXCEPT ![j].step = step] /\ job[j].step \in {"command", "collect"}
            /\ UNCHANGED <<running, disturbed>> /\ job[j].kind = "check"
    BY <1>4 DEF AptEnds, Collect, JobAt, JobGo
  <2>1. JobsTypeOK'
    BY <1>4, <2>0 DEF AptEnds, Collect, JobsTypeOK, JobSteps
  <2>2. \A k \in JobKinds : AtWork(k)' = AtWork(k) /\ Asking(k)' = Asking(k)
    BY <2>0 DEF AtWork, Asking, JobAt, JobsTypeOK
  <2> QED  BY <2>0, <2>1, <2>2 DEF JobsTypeOK
<1>5. ASSUME NEW kind \in JobKinds, Cancel(kind)
      PROVE  JobsInv'
  <2>0. job' = job /\ running' = [running EXCEPT ![kind] = FALSE]
    BY <1>5 DEF Cancel, Lower
  <2>1. JobsTypeOK'
    BY <1>5, <2>0 DEF Cancel, JobsTypeOK
  <2>2. \A k \in JobKinds : AtWork(k)' = AtWork(k) /\ Asking(k)' = Asking(k)
    BY <2>0 DEF AtWork, Asking, JobAt
  <2>3. \A k \in JobKinds : k \notin disturbed' => k \notin disturbed
    BY <1>5 DEF Cancel
  <2>4. kind \notin disturbed' => AtWork(kind) = {}
    BY <1>5 DEF Cancel
  <2> QED  BY <2>0, <2>1, <2>2, <2>3, <2>4 DEF JobsTypeOK
<1>6. CASE UNCHANGED jobsVars
  BY <1>6 DEF jobsVars, JobsTypeOK, AtWork, Asking, JobAt
<1> QED  BY <1>1, <1>2, <1>3, <1>4, <1>5, <1>6 DEF JobsNext, JobStep

LEMMA JobsAreShown == JobsInv => RunningIsTrue
<1> SUFFICES ASSUME JobsInv, NEW kind \in JobKinds, kind \notin disturbed
             PROVE  Cardinality(AtWork(kind)) <= 1
  BY DEF JobsInv, RunningIsTrue
<1>1. CASE AtWork(kind) = {}
  BY <1>1, FS_EmptySet
<1>2. CASE AtWork(kind) # {}
  <2>1. PICK j : j \in AtWork(kind)
    BY <1>2
  <2>2. AtWork(kind) = {j}
    BY <2>1 DEF JobsInv
  <2> QED  BY <2>2, FS_Singleton
<1> QED  BY <1>1, <1>2

-----------------------------------------------------------------------------
Outcomes == {"success", "failed"}
UpgradeRows ==
    [call : Calls, host : Hosts, category : {"apt", "agent"}, stamp : Nat,
     status : {"started"} \cup Outcomes]
CallRecords ==
    [kind : CallKinds, step : CallSteps, host : Hosts \cup {NoHost}, seen : Int, hosts : SUBSET Hosts]

\* UpgradesTypeOK with a history and a baseline of any size, and what each kind of call can be at.
UpgradesTypes ==
    /\ waiting \in [Hosts -> Int] /\ results \in [Hosts -> Int]
    /\ call \in [Calls -> CallRecords]
    /\ past \in Seq(UpgradeRows)
    /\ told \in [Calls -> {"none"} \cup Outcomes]
    /\ crossed \subseteq Calls /\ upgraded \subseteq Calls /\ blurred \subseteq Calls
    /\ \A k \in Calls :
        /\ call[k].step \in {"kind", "send", "nobody", "baseline", "poll"} =>
                call[k].kind = "apt" /\ call[k].host \in Hosts
        /\ call[k].step \in {"trigger", "watch"} => call[k].kind = "agent" /\ call[k].host \in Hosts
        /\ call[k].step \in {"list", "each"} => call[k].kind = "batch"
        /\ call[k].step \in {"ask", "relay"} => call[k].kind = "scan"
        /\ told[k] # "none" => call[k].step = "over"

Of(r) == past[r].call
Single(k) == call[k].kind \in {"apt", "agent"}

\* A row is about what its call is about; rows are in the order of time.
RowsBelong ==
    /\ \A r \in 1..Len(past) :
        /\ ~CallAt(Of(r), "unused") /\ call[Of(r)].kind # "scan"
        /\ Single(Of(r)) => past[r].host = call[Of(r)].host /\ past[r].category = Category(Of(r))
    /\ \A q, r \in 1..Len(past) : q < r => past[q].stamp <= past[r].stamp

\* An upgrade of one host has one row.
RowsSingle ==
    /\ \A k \in Calls : Single(k) /\ ~CallAt(k, "unused") => \E r \in 1..Len(past) : Of(r) = k
    /\ \A q, r \in 1..Len(past) : Of(q) = Of(r) /\ Single(Of(q)) => q = r

\* Of two rows with one key both calls are recorded, if they could be taken for each other's.
RowsCross ==
    \A q, r \in 1..Len(past) :
        /\ q < r /\ SameKey(past[q], past[r].host, past[r].category)
        /\ past[q].stamp = past[r].stamp \/ Working(Of(q))
        => Of(q) \in crossed /\ Of(r) \in crossed

\* While nothing has happened to the host, its last scan is the baseline.
BaselineStands ==
    \A k \in Calls :
        (CallAt(k, "poll") /\ call[k].seen # Missing /\ k \notin upgraded /\ k \notin blurred) =>
            waiting[call[k].host] = call[k].seen /\ results[call[k].host] \in {Missing, call[k].seen}

UpgradesInv ==
    UpgradesTypes /\ RowsBelong /\ RowsSingle /\ RowsCross /\ BaselineStands /\ UpgradesAreTold

-----------------------------------------------------------------------------
\* What an insertion does to the history.
LEMMA InsertedRow ==
    ASSUME UpgradesTypes, RowsBelong, NEW k \in Calls, NEW h \in Hosts, NEW c \in {"apt", "agent"},
           Inserted(k, h, c)
    PROVE  \E n \in Nat, s \in Nat :
            /\ n = Len(past) + 1 /\ Len(past') = n /\ past' \in Seq(UpgradeRows)
            /\ \A r \in 1..Len(past) : past'[r] = past[r]
            /\ past'[n] = Row(k, h, c, s)
            /\ \A r \in 1..Len(past) : past[r].stamp <= s
            /\ crossed \subseteq crossed' /\ crossed' \subseteq Calls
            /\ \A r \in 1..Len(past) :
                SameKey(past[r], h, c) /\ (past[r].stamp = s \/ Working(Of(r)))
                => Of(r) \in crossed' /\ k \in crossed'
<1>1. PICK same \in BOOLEAN :
        LET s == Stamp(same)
            rivals == Rivals(h, c, s)
        IN /\ past' = Append(past, Row(k, h, c, s))
           /\ crossed' = IF rivals = {} THEN crossed ELSE crossed \cup rivals \cup {k}
  BY DEF Inserted
<1> DEFINE s == Stamp(same)
<1> DEFINE rivals == Rivals(h, c, s)
<1>2. past \in Seq(UpgradeRows) /\ Len(past) \in Nat
  BY DEF UpgradesTypes
<1>3. \A r \in 1..Len(past) : past[r] \in UpgradeRows
  BY <1>2
<1>4. s \in Nat /\ \A r \in 1..Len(past) : past[r].stamp <= s
  <2>1. CASE past = <<>>
    BY <2>1 DEF Stamp
  <2>2. CASE past # <<>>
    <3>1. Len(past) \in 1..Len(past)
      BY <1>2, <2>2, EmptySeq
    <3>2. past[Len(past)].stamp \in Nat
      BY <1>3, <3>1 DEF UpgradeRows
    <3>3. s = past[Len(past)].stamp + (IF same THEN 0 ELSE 1)
      BY <2>2 DEF Stamp
    <3>4. \A r \in 1..Len(past) : past[r].stamp <= past[Len(past)].stamp
      <4> TAKE r \in 1..Len(past)
      <4>1. CASE r = Len(past)
        BY <3>2, <4>1
      <4>2. CASE r < Len(past)
        BY <3>1, <4>2 DEF RowsBelong
      <4> QED  BY <1>2, <4>1, <4>2
    <3>5. \A r \in 1..Len(past) : past[r].stamp \in Nat
      BY <1>3 DEF UpgradeRows
    <3> QED  BY <3>2, <3>3, <3>4, <3>5
  <2> QED  BY <2>1, <2>2
<1>5. Row(k, h, c, s) \in UpgradeRows
  BY <1>4 DEF Row, UpgradeRows
<1>6. past' = Append(past, Row(k, h, c, s)) /\ crossed' = IF rivals = {} THEN crossed ELSE crossed \cup rivals \cup {k}
  BY <1>1
<1> HIDE DEF s
<1>7. /\ Len(past') = Len(past) + 1 /\ past' \in Seq(UpgradeRows)
      /\ \A r \in 1..Len(past) : past'[r] = past[r]
      /\ past'[Len(past) + 1] = Row(k, h, c, s)
  BY <1>2, <1>5, <1>6, AppendProperties
<1>8. rivals \subseteq Calls /\ crossed \subseteq Calls
  BY <1>3 DEF Rivals, UpgradeRows, UpgradesTypes
<1>9. \A r \in 1..Len(past) : SameKey(past[r], h, c) /\ (past[r].stamp = s \/ Working(Of(r))) => Of(r) \in rivals
  BY DEF Rivals, Of
<1>10. crossed \subseteq crossed' /\ crossed' \subseteq Calls
  BY <1>6, <1>8
<1>11. \A r \in 1..Len(past) :
            SameKey(past[r], h, c) /\ (past[r].stamp = s \/ Working(Of(r))) => Of(r) \in crossed' /\ k \in crossed'
  BY <1>6, <1>9
<1> QED  BY <1>2, <1>4, <1>7, <1>10, <1>11

\* An outcome changes one row, which is the call's own unless both calls are recorded.
LEMMA ReportedRow ==
    ASSUME UpgradesInv, NEW k \in Calls, Working(k), Single(k), NEW o \in Outcomes, Report(k, o)
    PROVE  /\ told' = [told EXCEPT ![k] = o] /\ call' = [call EXCEPT ![k].step = "over"]
           /\ past' \in Seq(UpgradeRows) /\ Len(past') = Len(past)
           /\ \A q \in 1..Len(past) : /\ past'[q].call = past[q].call /\ past'[q].host = past[q].host
                                      /\ past'[q].category = past[q].category
                                      /\ past'[q].stamp = past[q].stamp
           /\ \E r \in 1..Len(past) :
                /\ \A q \in 1..Len(past) : past'[q].status = IF q = r THEN o ELSE past[q].status
                /\ Of(r) # k => Of(r) \in crossed /\ k \in crossed
<1> USE DEF UpgradesInv
<1>1. PICK r \in Latest(call[k].host, Category(k)) : past' = [past EXCEPT ![r].status = o]
  BY DEF Report
<1>2. past \in Seq(UpgradeRows) /\ Len(past) \in Nat /\ \A q \in 1..Len(past) : past[q] \in UpgradeRows
  BY DEF UpgradesTypes
<1>3. r \in 1..Len(past) /\ SameKey(past[r], call[k].host, Category(k))
      /\ \A q \in 1..Len(past) : SameKey(past[q], call[k].host, Category(k)) => past[q].stamp <= past[r].stamp
  BY DEF Latest
<1>4. [past[r] EXCEPT !.status = o] \in UpgradeRows
  BY <1>2, <1>3 DEF UpgradeRows
<1>5. past' = [past EXCEPT ![r] = [past[r] EXCEPT !.status = o]]
  BY <1>1
<1>6. past' \in Seq(UpgradeRows) /\ Len(past') = Len(past)
  BY <1>2, <1>3, <1>4, <1>5, ExceptSeq
<1>7. \A q \in 1..Len(past) : past'[q] = IF q = r THEN [past[r] EXCEPT !.status = o] ELSE past[q]
  BY <1>2, <1>3, <1>5
<1>8. \A q \in 1..Len(past) : /\ past'[q].call = past[q].call /\ past'[q].host = past[q].host
                              /\ past'[q].category = past[q].category /\ past'[q].stamp = past[q].stamp
                              /\ past'[q].status = IF q = r THEN o ELSE past[q].status
  BY <1>2, <1>3, <1>7 DEF UpgradeRows
<1>9. Of(r) # k => Of(r) \in crossed /\ k \in crossed
  <2> SUFFICES ASSUME Of(r) # k
               PROVE  Of(r) \in crossed /\ k \in crossed
    OBVIOUS
  <2>1. PICK q \in 1..Len(past) : Of(q) = k
    BY DEF RowsSingle, Working, CallAt
  <2>2. SameKey(past[q], call[k].host, Category(k))
    BY <2>1 DEF RowsBelong, SameKey
  <2>3. past[q].stamp <= past[r].stamp /\ q # r
    BY <1>3, <2>1, <2>2
  <2>4. SameKey(past[q], past[r].host, past[r].category) /\ SameKey(past[r], past[q].host, past[q].category)
    BY <1>3, <2>2 DEF SameKey
  <2>5. CASE q < r
    BY <1>3, <2>1, <2>4, <2>5 DEF RowsCross
  <2>6. CASE r < q
    <3>1. past[r].stamp <= past[q].stamp
      BY <1>3, <2>6 DEF RowsBelong
    <3>2. past[r].stamp \in Nat /\ past[q].stamp \in Nat
      BY <1>2, <1>3 DEF UpgradeRows
    <3>3. past[r].stamp = past[q].stamp
      BY <2>3, <3>1, <3>2
    <3> QED  BY <1>3, <2>1, <2>4, <2>6, <3>3 DEF RowsCross
  <2> QED  BY <1>3, <2>3, <2>5, <2>6
<1> QED  BY <1>3, <1>6, <1>8, <1>9 DEF Report, CallGo

\* What the history says of the calls, beside the types.
HistoryInv == RowsBelong /\ RowsSingle /\ RowsCross /\ UpgradesAreTold

Shaped(rec) ==
    /\ rec.step \in {"kind", "send", "nobody", "baseline", "poll"} => rec.kind = "apt" /\ rec.host \in Hosts
    /\ rec.step \in {"trigger", "watch"} => rec.kind = "agent" /\ rec.host \in Hosts
    /\ rec.step \in {"list", "each"} => rec.kind = "batch"
    /\ rec.step \in {"ask", "relay"} => rec.kind = "scan"

\* A call goes on, or a scan or an upgrade of all hosts begins, and the history stays.
LEMMA CallMoves ==
    ASSUME UpgradesInv, NEW k \in Calls, NEW rec \in CallRecords, Shaped(rec),
           call' = [call EXCEPT ![k] = rec], UNCHANGED <<waiting, results, past, told, crossed, upgraded>>,
           blurred \subseteq blurred', blurred' \subseteq Calls,
           rec.step # "unused",
           \/ CallAt(k, "unused") /\ rec.kind \in {"batch", "scan"}
           \/ /\ Working(k) /\ rec.kind = call[k].kind
              /\ Single(k) => rec.host = call[k].host /\ rec.step # "over"
    PROVE  UpgradesTypes' /\ HistoryInv'
<1> USE DEF UpgradesInv
<1>1. call \in [Calls -> CallRecords] /\ call' \in [Calls -> CallRecords] /\ call'[k] = rec
      /\ \A j \in Calls : j # k => call'[j] = call[j]
  BY DEF UpgradesTypes
<1>2. told[k] = "none"
  BY DEF UpgradesTypes, CallAt, Working
<1>3. UpgradesTypes'
  BY <1>1, <1>2 DEF UpgradesTypes, Shaped
<1>4. \A r \in 1..Len(past) : Of(r) \in Calls /\ Of(r)' = Of(r) /\ (Of(r) = k => ~CallAt(k, "unused"))
  <2>1. \A r \in 1..Len(past) : past[r] \in UpgradeRows
    BY DEF UpgradesTypes
  <2> QED  BY <2>1 DEF UpgradeRows, Of, RowsBelong
<1>5. \A j \in Calls : Single(j)' /\ ~CallAt(j, "unused")' => Single(j) /\ ~CallAt(j, "unused")
  BY <1>1 DEF Single, CallAt, Working
<1>6. \A r \in 1..Len(past) : Single(Of(r))' => call'[Of(r)].host = call[Of(r)].host /\ Category(Of(r))' = Category(Of(r))
  BY <1>1, <1>4 DEF Single, Category, CallAt
<1>7. RowsBelong'
  BY <1>1, <1>4, <1>5, <1>6 DEF RowsBelong, CallAt
<1>8. RowsSingle'
  BY <1>1, <1>4, <1>5 DEF RowsSingle, CallAt, RowsBelong
<1>9. \A r \in 1..Len(past) : Working(Of(r))' => Working(Of(r))
  BY <1>1, <1>4 DEF Working, CallAt
<1>10. RowsCross'
  BY <1>4, <1>9 DEF RowsCross, SameKey
<1>11. HistoryIsTold'
  BY DEF UpgradesAreTold, HistoryIsTold
<1>12. StartedIsAtWork'
  <2> SUFFICES ASSUME NEW r \in 1..Len(past), past[r].status = "started"
               PROVE  Working(Of(r))' \/ CallAt(Of(r), "dropped")' \/ Of(r) \in crossed
                      \/ call'[Of(r)].kind = "batch"
    BY DEF StartedIsAtWork, Of
  <2>1. Working(Of(r)) \/ CallAt(Of(r), "dropped") \/ Of(r) \in crossed \/ call[Of(r)].kind = "batch"
    BY DEF UpgradesAreTold, StartedIsAtWork, Of
  <2>2. CASE Of(r) # k
    BY <1>1, <1>4, <2>1, <2>2 DEF Working, CallAt
  <2>3. CASE Of(r) = k
    <3>1. Working(k) /\ rec.kind = call[k].kind /\ call[k].kind # "scan"
      BY <1>4, <2>3 DEF RowsBelong
    <3>2. call[k].kind \in {"batch", "apt", "agent"}
      BY <1>1, <3>1 DEF CallRecords, CallKinds
    <3>3. Single(k) => rec.step \notin {"over", "unused"}
      BY <3>1 DEF Working, CallAt
    <3>4. CASE Single(k)
      BY <1>1, <1>4, <2>3, <3>3, <3>4 DEF Working, CallAt
    <3>5. CASE ~Single(k)
      BY <1>1, <1>4, <2>3, <3>1, <3>2, <3>5 DEF Single
    <3> QED  BY <3>4, <3>5
  <2> QED  BY <2>2, <2>3
<1>13. SuccessIsReal'
  BY <1>1, <1>2 DEF UpgradesAreTold, SuccessIsReal, WithBaseline
<1> QED  BY <1>3, <1>7, <1>8, <1>10, <1>11, <1>12, <1>13 DEF HistoryInv, UpgradesAreTold

\* An upgrade ends, with an outcome.
LEMMA CallReports ==
    ASSUME UpgradesInv, NEW k \in Calls, Working(k), Single(k), NEW o \in Outcomes, Report(k, o),
           UNCHANGED <<waiting, results, crossed, upgraded, blurred>>,
           WithBaseline(k)' => k \in upgraded \/ k \in blurred
    PROVE  UpgradesInv'
<1> USE DEF UpgradesInv
<1>1. /\ told' = [told EXCEPT ![k] = o] /\ call' = [call EXCEPT ![k].step = "over"]
      /\ past' \in Seq(UpgradeRows) /\ Len(past') = Len(past)
      /\ \A q \in 1..Len(past) : /\ past'[q].call = past[q].call /\ past'[q].host = past[q].host
                                 /\ past'[q].category = past[q].category
                                 /\ past'[q].stamp = past[q].stamp
  BY ReportedRow
<1>2. PICK n \in 1..Len(past) :
            /\ \A q \in 1..Len(past) : past'[q].status = IF q = n THEN o ELSE past[q].status
            /\ Of(n) # k => Of(n) \in crossed /\ k \in crossed
  BY ReportedRow
<1>3. call \in [Calls -> CallRecords] /\ told \in [Calls -> {"none"} \cup Outcomes]
      /\ \A r \in 1..Len(past) : past[r] \in UpgradeRows
  BY DEF UpgradesTypes
<1>4. /\ call'[k].step = "over" /\ call'[k].kind = call[k].kind /\ call'[k].host = call[k].host
      /\ call'[k].seen = call[k].seen
      /\ \A j \in Calls : j # k => call'[j] = call[j]
  BY <1>1, <1>3 DEF CallRecords
<1>5. UpgradesTypes'
  <2>1. call' \in [Calls -> CallRecords]
    BY <1>1, <1>3 DEF CallRecords, CallSteps
  <2>2. told' \in [Calls -> {"none"} \cup Outcomes]
    BY <1>1, <1>3
  <2> QED  BY <1>1, <1>4, <2>1, <2>2 DEF UpgradesTypes
<1>6. \A r \in 1..Len(past) : Of(r) \in Calls /\ Of(r)' = Of(r)
  BY <1>1, <1>3 DEF Of, UpgradeRows
<1>7. \A j \in Calls : /\ Single(j)' <=> Single(j)
                       /\ CallAt(j, "unused")' <=> CallAt(j, "unused")
                       /\ Working(j)' => Working(j)
                       /\ Category(j)' = Category(j) /\ call'[j].host = call[j].host
                       /\ call'[j].kind = call[j].kind
  BY <1>4 DEF Single, CallAt, Working, Category
<1>8. RowsBelong'
  BY <1>1, <1>6, <1>7 DEF RowsBelong
<1>9. RowsSingle'
  BY <1>1, <1>6, <1>7 DEF RowsSingle
<1>10. RowsCross'
  BY <1>1, <1>6, <1>7 DEF RowsCross, SameKey
<1>11. BaselineStands'
  BY <1>4 DEF BaselineStands, CallAt
<1>12. HistoryIsTold'
  <2> SUFFICES ASSUME NEW r \in 1..Len(past), told'[Of(r)] # "none", Of(r) \notin crossed
               PROVE  past'[r].status = told'[Of(r)]
    BY <1>1, <1>6 DEF HistoryIsTold, Of
  <2>1. CASE Of(r) = k
    <3>1. Of(n) = Of(r)
      BY <1>2, <2>1
    <3>2. n = r
      BY <2>1, <3>1 DEF RowsSingle
    <3> QED  BY <1>1, <1>2, <1>3, <2>1, <3>2
  <2>2. CASE Of(r) # k
    <3>1. n # r
      BY <1>2, <2>2
    <3>2. told'[Of(r)] = told[Of(r)]
      BY <1>1, <1>3, <1>6, <2>2
    <3>3. past[r].status = told[Of(r)]
      BY <3>2 DEF UpgradesAreTold, HistoryIsTold, Of
    <3> QED  BY <1>2, <3>1, <3>2, <3>3
  <2> QED  BY <2>1, <2>2
<1>13. StartedIsAtWork'
  <2> SUFFICES ASSUME NEW r \in 1..Len(past), past'[r].status = "started"
               PROVE  Working(Of(r))' \/ CallAt(Of(r), "dropped")' \/ Of(r) \in crossed
                      \/ call'[Of(r)].kind = "batch"
    BY <1>1, <1>6 DEF StartedIsAtWork, Of
  <2>1. r # n /\ past[r].status = "started"
    BY <1>2 DEF Outcomes
  <2>2. Working(Of(r)) \/ CallAt(Of(r), "dropped") \/ Of(r) \in crossed \/ call[Of(r)].kind = "batch"
    BY <2>1 DEF UpgradesAreTold, StartedIsAtWork, Of
  <2>3. CASE Of(r) = k
    <3>1. CASE Of(n) = k
      BY <2>1, <2>3, <3>1 DEF RowsSingle
    <3>2. CASE Of(n) # k
      BY <1>2, <2>3, <3>2
    <3> QED  BY <3>1, <3>2
  <2>4. CASE Of(r) # k
    BY <1>4, <1>6, <2>2, <2>4 DEF Working, CallAt
  <2> QED  BY <2>3, <2>4
<1>14. SuccessIsReal'
  <2>1. \A j \in Calls \ {k} : WithBaseline(j)' => WithBaseline(j)
    BY <1>1, <1>3, <1>4 DEF WithBaseline
  <2> QED  BY <2>1 DEF UpgradesAreTold, SuccessIsReal
<1> QED  BY <1>5, <1>8, <1>9, <1>10, <1>11, <1>12, <1>13, <1>14 DEF UpgradesAreTold

\* A row is inserted for a call that begins, or for one of all hosts.
LEMMA CallInserts ==
    ASSUME UpgradesInv, NEW k \in Calls, NEW rec \in CallRecords, Shaped(rec), rec.step # "poll",
           NEW h \in Hosts, NEW c \in {"apt", "agent"}, Inserted(k, h, c),
           call' = [call EXCEPT ![k] = rec], UNCHANGED <<waiting, results, told, upgraded, blurred>>,
           \/ /\ CallAt(k, "unused") /\ rec.kind \in {"apt", "agent"} /\ rec.host = h
              /\ c = (IF rec.kind = "agent" THEN "agent" ELSE "apt")
           \/ call[k].kind = "batch" /\ rec.kind = "batch" /\ Working(k),
           rec.step \notin {"unused", "over", "dropped"}
    PROVE  UpgradesInv'
<1> USE DEF UpgradesInv
<1>1. PICK n \in Nat, s \in Nat :
            /\ n = Len(past) + 1 /\ Len(past') = n /\ past' \in Seq(UpgradeRows)
            /\ \A r \in 1..Len(past) : past'[r] = past[r]
            /\ past'[n] = Row(k, h, c, s)
            /\ \A r \in 1..Len(past) : past[r].stamp <= s
            /\ crossed \subseteq crossed' /\ crossed' \subseteq Calls
            /\ \A r \in 1..Len(past) :
                SameKey(past[r], h, c) /\ (past[r].stamp = s \/ Working(Of(r)))
                => Of(r) \in crossed' /\ k \in crossed'
  BY InsertedRow
<1>2. call \in [Calls -> CallRecords] /\ call' \in [Calls -> CallRecords] /\ call'[k] = rec
      /\ (\A j \in Calls : j # k => call'[j] = call[j]) /\ told[k] = "none"
      /\ \A r \in 1..Len(past) : past[r] \in UpgradeRows
  BY DEF UpgradesTypes, CallAt, Working
<1>3. /\ Len(past) \in Nat /\ 1..Len(past') = (1..Len(past)) \cup {n} /\ n \notin 1..Len(past)
      /\ \A r \in 1..Len(past) : r < n
  BY <1>1 DEF UpgradesTypes
<1>4. \A r \in 1..Len(past) : Of(r) \in Calls /\ Of(r)' = Of(r) /\ (CallAt(k, "unused") => Of(r) # k)
  BY <1>1, <1>2 DEF Of, UpgradeRows, RowsBelong
<1>5. Of(n)' = k /\ past'[n].host = h /\ past'[n].category = c /\ past'[n].stamp = s /\ past'[n].status = "started"
  BY <1>1 DEF Of, Row
<1>6. UpgradesTypes'
  BY <1>1, <1>2 DEF UpgradesTypes, Shaped
<1>7. \A r \in 1..Len(past) : /\ Single(Of(r))' <=> Single(Of(r))
                              /\ Single(Of(r)) => Of(r) # k
                              /\ Working(Of(r))' <=> Working(Of(r))
                              /\ call'[Of(r)].kind = call[Of(r)].kind
  BY <1>2, <1>4 DEF Single, Working, CallAt
<1>8. RowsBelong'
  <2>1. ASSUME NEW r \in 1..Len(past')
        PROVE  /\ ~CallAt(Of(r), "unused")' /\ call'[Of(r)'].kind # "scan"
               /\ Single(Of(r))' => past'[r].host = call'[Of(r)'].host /\ past'[r].category = Category(Of(r))'
    <3>1. CASE r = n
      BY <1>2, <1>5, <3>1 DEF CallAt, Single, Category
    <3>2. CASE r \in 1..Len(past)
      BY <1>1, <1>2, <1>4, <1>7, <3>2 DEF RowsBelong, CallAt, Category
    <3> QED  BY <1>3, <2>1, <3>1, <3>2
  <2>2. ASSUME NEW q \in 1..Len(past'), NEW r \in 1..Len(past'), q < r
        PROVE  past'[q].stamp <= past'[r].stamp
    <3>1. CASE r = n
      BY <1>1, <1>3, <1>5, <2>2, <3>1
    <3>2. CASE r \in 1..Len(past)
      BY <1>1, <1>3, <2>2, <3>2 DEF RowsBelong
    <3> QED  BY <1>3, <2>2, <3>1, <3>2
  <2> QED  BY <2>1, <2>2 DEF RowsBelong
<1>9. RowsSingle'
  <2>1. ASSUME NEW j \in Calls, Single(j)', ~CallAt(j, "unused")'
        PROVE  \E r \in 1..Len(past') : Of(r)' = j
    <3>1. CASE j = k
      BY <1>3, <1>5, <3>1
    <3>2. CASE j # k
      BY <1>2, <1>3, <1>4, <2>1, <3>2 DEF RowsSingle, Single, CallAt
    <3> QED  BY <3>1, <3>2
  <2>2. ASSUME NEW q \in 1..Len(past'), NEW r \in 1..Len(past'), Of(q)' = Of(r)', Single(Of(q))'
        PROVE  q = r
    <3>1. CASE q \in 1..Len(past) /\ r \in 1..Len(past)
      BY <1>4, <1>7, <2>2, <3>1 DEF RowsSingle
    <3>2. CASE q = n \/ r = n
      BY <1>3, <1>4, <1>5, <1>7, <2>2, <3>2
    <3> QED  BY <1>3, <2>2, <3>1, <3>2
  <2> QED  BY <2>1, <2>2 DEF RowsSingle
<1>10. RowsCross'
  <2> SUFFICES ASSUME NEW q \in 1..Len(past'), NEW r \in 1..Len(past'), q < r,
                      SameKey(past'[q], past'[r].host, past'[r].category),
                      past'[q].stamp = past'[r].stamp \/ Working(Of(q))'
               PROVE  Of(q)' \in crossed' /\ Of(r)' \in crossed'
    BY DEF RowsCross, SameKey
  <2>1. q \in 1..Len(past) /\ past'[q] = past[q]
    BY <1>1, <1>3
  <2>2. CASE r = n
    BY <1>1, <1>4, <1>5, <1>7, <2>1, <2>2
  <2>3. CASE r \in 1..Len(past)
    BY <1>1, <1>4, <1>7, <2>1, <2>3 DEF RowsCross
  <2> QED  BY <1>3, <2>2, <2>3
<1>11. BaselineStands'
  BY <1>2 DEF BaselineStands, CallAt
<1>12. HistoryIsTold'
  <2> SUFFICES ASSUME NEW r \in 1..Len(past'), told[Of(r)'] # "none", Of(r)' \notin crossed'
               PROVE  past'[r].status = told[Of(r)']
    BY DEF HistoryIsTold, Of
  <2>1. r \in 1..Len(past)
    BY <1>2, <1>3, <1>5
  <2> QED  BY <1>1, <1>4, <2>1 DEF UpgradesAreTold, HistoryIsTold, Of
<1>13. StartedIsAtWork'
  <2> SUFFICES ASSUME NEW r \in 1..Len(past'), past'[r].status = "started"
               PROVE  Working(Of(r))' \/ CallAt(Of(r), "dropped")' \/ Of(r)' \in crossed'
                      \/ call'[Of(r)'].kind = "batch"
    BY DEF StartedIsAtWork, Of
  <2>1. CASE r = n
    BY <1>2, <1>5, <2>1 DEF Working
  <2>2. CASE r \in 1..Len(past)
    <3>1. Working(Of(r)) \/ CallAt(Of(r), "dropped") \/ Of(r) \in crossed \/ call[Of(r)].kind = "batch"
      BY <1>1, <2>2 DEF UpgradesAreTold, StartedIsAtWork, Of
    <3>2. CallAt(Of(r), "dropped") => CallAt(Of(r), "dropped")'
      BY <1>2, <1>4, <2>2 DEF CallAt, Working
    <3> QED  BY <1>1, <1>4, <1>7, <2>2, <3>1, <3>2
  <2> QED  BY <1>3, <2>1, <2>2
<1>14. SuccessIsReal'
  BY <1>2 DEF UpgradesAreTold, SuccessIsReal, WithBaseline
<1> QED  BY <1>6, <1>8, <1>9, <1>10, <1>11, <1>12, <1>13, <1>14 DEF UpgradesAreTold

\* What is left of the invariant when a call goes on: the baseline.
LEMMA MovesNext ==
    ASSUME UpgradesInv, NEW k \in Calls, NEW rec \in CallRecords, Shaped(rec),
           call' = [call EXCEPT ![k] = rec], UNCHANGED <<waiting, results, past, told, crossed, observed>>,
           rec.step \notin {"unused", "poll"},
           \/ CallAt(k, "unused") /\ rec.kind \in {"batch", "scan"}
           \/ /\ Working(k) /\ rec.kind = call[k].kind
              /\ Single(k) => rec.host = call[k].host /\ rec.step # "over"
    PROVE  UpgradesInv'
<1>1. UpgradesTypes' /\ HistoryInv'
  <2>1. UNCHANGED <<waiting, results, past, told, crossed, upgraded>> /\ blurred' = blurred
        /\ blurred \subseteq Calls
    BY DEF observed, UpgradesInv, UpgradesTypes
  <2> QED  BY <2>1, CallMoves
<1>2. BaselineStands'
  <2>1. UNCHANGED <<waiting, results, upgraded, blurred>>
    BY DEF observed
  <2>2. \A j \in Calls : CallAt(j, "poll")' => call'[j] = call[j]
    BY DEF CallAt, UpgradesInv, UpgradesTypes
  <2> QED  BY <2>1, <2>2 DEF UpgradesInv, BaselineStands, CallAt
<1> QED  BY <1>1, <1>2 DEF UpgradesInv, HistoryInv

LEMMA StepType == ASSUME UpgradesTypes, NEW k \in Calls
                  PROVE  /\ call[k] \in CallRecords /\ Shaped(call[k])
                         /\ call[k] = [kind |-> call[k].kind, step |-> call[k].step, host |-> call[k].host,
                                       seen |-> call[k].seen, hosts |-> call[k].hosts]
BY DEF UpgradesTypes, CallRecords, Shaped

\* A call of which only the step changes.
LEMMA StepsNext ==
    ASSUME UpgradesInv, NEW k \in Calls, NEW step \in CallSteps, CallGo(k, step),
           UNCHANGED <<waiting, results, past, told, crossed, observed>>,
           Working(k), step \notin {"unused", "poll"}, Single(k) => step # "over",
           Shaped([call[k] EXCEPT !.step = step])
    PROVE  UpgradesInv'
<1>1. call[k] \in CallRecords /\ call' = [call EXCEPT ![k] = [call[k] EXCEPT !.step = step]]
  BY StepType DEF CallGo, UpgradesInv
<1> DEFINE rec == [call[k] EXCEPT !.step = step]
<1>2. rec \in CallRecords /\ rec.kind = call[k].kind /\ rec.host = call[k].host /\ rec.step = step
  BY <1>1 DEF CallRecords
<1> HIDE DEF rec
<1> QED  BY <1>1, <1>2, MovesNext DEF rec

LEMMA SingleCalls ==
    ASSUME UpgradesInv, NEW k \in Calls, NEW step \in CallSteps, CallGo(k, step),
           UNCHANGED <<waiting, results, past, told, crossed, observed>>,
           \/ CallAt(k, "kind") /\ step \in {"send", "nobody", "dropped"}
           \/ CallAt(k, "send") /\ step \in {"baseline", "dropped"}
           \/ CallAt(k, "nobody") /\ step = "dropped"
           \/ CallAt(k, "baseline") /\ step = "dropped"
           \/ CallAt(k, "trigger") /\ step = "watch"
           \/ CallAt(k, "list") /\ step = "dropped"
           \/ CallAt(k, "each") /\ step = "dropped"
           \/ CallAt(k, "relay") /\ step = "over"
    PROVE  UpgradesInv'
<1>1. call[k] \in CallRecords /\ Shaped(call[k])
  BY StepType DEF UpgradesInv
<1> DEFINE rec == [call[k] EXCEPT !.step = step]
<1>2. rec.kind = call[k].kind /\ rec.host = call[k].host /\ rec.step = step
  BY <1>1 DEF CallRecords
<1>3. Shaped(rec)
  BY <1>1, <1>2 DEF Shaped, CallAt
<1>4. Working(k) /\ step \notin {"unused", "poll"}
  BY DEF Working, CallAt
<1>5. Single(k) => step # "over"
  BY <1>1 DEF Shaped, CallAt, Single
<1> HIDE DEF rec
<1> QED  BY <1>3, <1>4, <1>5, StepsNext DEF rec

LEMMA NoCallType == NoCall \in CallRecords
BY DEF NoCall, CallRecords, CallKinds, CallSteps, Missing

LEMMA TargetNext ==
    ASSUME UpgradesInv, NEW k \in Calls, NEW h \in Hosts, NEW kind \in {"apt", "agent"}, Target(k, h, kind)
    PROVE  UpgradesInv'
<1> DEFINE first == IF kind = "agent" THEN "trigger" ELSE "kind"
<1> DEFINE rec == [NoCall EXCEPT !.kind = kind, !.host = h, !.step = first]
<1>1. call' = [call EXCEPT ![k] = rec] /\ CallAt(k, "unused")
  BY DEF Target, New
<1>2. rec \in CallRecords /\ Shaped(rec) /\ rec.step \notin {"unused", "over", "dropped", "poll"}
      /\ rec.kind = kind /\ rec.host = h
  <2>1. first \in CallSteps /\ kind \in CallKinds
    BY DEF CallSteps, CallKinds
  <2>2. rec \in CallRecords /\ rec.kind = kind /\ rec.host = h /\ rec.step = first
    BY <2>1, NoCallType DEF CallRecords
  <2> QED  BY <2>2 DEF Shaped
<1>3. Inserted(k, h, IF kind = "agent" THEN "agent" ELSE "apt")
      /\ UNCHANGED <<waiting, results, told, upgraded, blurred>>
  BY DEF Target, observed
<1> HIDE DEF rec
<1> QED  BY <1>1, <1>2, <1>3, CallInserts

LEMMA EachInsertNext ==
    ASSUME UpgradesInv, NEW k \in Calls, EachInsert(k)
    PROVE  UpgradesInv'
<1>1. call[k] \in CallRecords /\ Shaped(call[k]) /\ call[k].step = "each"
  BY StepType DEF UpgradesInv, EachInsert, CallAt
<1>2. PICK h \in call[k].hosts : Inserted(k, h, "apt") /\ call' = [call EXCEPT ![k] = [call[k] EXCEPT !.host = h]]
  BY DEF EachInsert
<1> DEFINE rec == [call[k] EXCEPT !.host = h]
<1>3. h \in Hosts
  BY <1>1 DEF CallRecords
<1>4. rec \in CallRecords /\ rec.step = "each" /\ rec.kind = call[k].kind
  BY <1>1, <1>3 DEF CallRecords
<1>5. Shaped(rec) /\ call[k].kind = "batch" /\ Working(k)
  BY <1>1, <1>4 DEF Shaped, Working, CallAt
<1>6. UNCHANGED <<waiting, results, told, upgraded, blurred>> /\ call' = [call EXCEPT ![k] = rec]
  BY <1>2 DEF EachInsert, observed
<1> HIDE DEF rec
<1> QED  BY <1>2, <1>3, <1>4, <1>5, <1>6, CallInserts

LEMMA BatchesNext ==
    ASSUME UpgradesInv, NEW k \in Calls,
           Batch(k) \/ Scan(k) \/ List(k) \/ EachSend(k) \/ AskHosts(k) \/ Relay(k)
    PROVE  UpgradesInv'
<1>1. call[k] \in CallRecords /\ Shaped(call[k])
  BY StepType DEF UpgradesInv
<1>2. UNCHANGED <<waiting, results, past, told, crossed, observed>>
  BY DEF Batch, Scan, List, EachSend, AskHosts, Relay
<1>3. CASE Batch(k)
  <2> DEFINE rec == [NoCall EXCEPT !.kind = "batch", !.step = "list"]
  <2>1. call' = [call EXCEPT ![k] = rec] /\ CallAt(k, "unused")
    BY <1>3 DEF Batch, New
  <2>2. rec \in CallRecords /\ Shaped(rec) /\ rec.step \notin {"unused", "poll"} /\ rec.kind = "batch"
    BY NoCallType DEF CallRecords, CallKinds, CallSteps, Shaped
  <2> HIDE DEF rec
  <2> QED  BY <1>2, <2>1, <2>2, MovesNext
<1>4. CASE Scan(k)
  <2> DEFINE rec == [NoCall EXCEPT !.kind = "scan", !.step = "ask"]
  <2>1. call' = [call EXCEPT ![k] = rec] /\ CallAt(k, "unused")
    BY <1>4 DEF Scan, New
  <2>2. rec \in CallRecords /\ Shaped(rec) /\ rec.step \notin {"unused", "poll"} /\ rec.kind = "scan"
    BY NoCallType DEF CallRecords, CallKinds, CallSteps, Shaped
  <2> HIDE DEF rec
  <2> QED  BY <1>2, <2>1, <2>2, MovesNext
<1>5. CASE List(k)
  <2> DEFINE due == {h \in Hosts : results[h] > 0}
  <2> DEFINE rec == [call[k] EXCEPT !.step = IF due = {} THEN "over" ELSE "each", !.hosts = due]
  <2>1. call' = [call EXCEPT ![k] = rec] /\ call[k].step = "list"
    BY <1>5 DEF List, CallAt
  <2>2. rec \in CallRecords /\ rec.kind = call[k].kind /\ rec.step \in {"over", "each"}
    BY <1>1 DEF CallRecords, CallSteps
  <2>3. Shaped(rec) /\ Working(k) /\ ~Single(k)
    BY <1>1, <2>1, <2>2 DEF Shaped, Working, CallAt, Single
  <2> HIDE DEF rec
  <2> QED  BY <1>2, <2>1, <2>2, <2>3, MovesNext
<1>6. CASE EachSend(k)
  <2> DEFINE rec == [call[k] EXCEPT !.host = NoHost, !.hosts = @ \ {call[k].host},
                                    !.step = IF call[k].hosts = {call[k].host} THEN "over" ELSE "each"]
  <2>1. call' = [call EXCEPT ![k] = rec] /\ call[k].step = "each"
    BY <1>6 DEF EachSend, CallAt
  <2>2. rec \in CallRecords /\ rec.kind = call[k].kind /\ rec.step \in {"over", "each"}
    BY <1>1 DEF CallRecords, CallSteps
  <2>3. Shaped(rec) /\ Working(k) /\ ~Single(k)
    BY <1>1, <2>1, <2>2 DEF Shaped, Working, CallAt, Single
  <2> HIDE DEF rec
  <2> QED  BY <1>2, <2>1, <2>2, <2>3, MovesNext
<1>7. CASE AskHosts(k)
  <2>1. Cardinality(Hosts) \in Int
    BY UpgradesAssumption, FS_CardinalityType
  <2>2. PICK n \in Int : call' = [call EXCEPT ![k] = [call[k] EXCEPT !.step = "relay", !.seen = n]]
    <3>1. CASE call' = [call EXCEPT ![k].step = "relay", ![k].seen = Cardinality(Hosts)]
      BY <2>1, <3>1
    <3>2. CASE call' = [call EXCEPT ![k].step = "relay", ![k].seen = 0]
      <4>1. PICK none \in Int : none = 0
        OBVIOUS
      <4> QED  BY <3>2, <4>1
    <3> QED  BY <1>7, <3>1, <3>2 DEF AskHosts
  <2> DEFINE rec == [call[k] EXCEPT !.step = "relay", !.seen = n]
  <2>3. call' = [call EXCEPT ![k] = rec] /\ call[k].step = "ask"
    BY <1>7, <2>2 DEF AskHosts, CallAt
  <2>4. rec \in CallRecords /\ rec.kind = call[k].kind /\ rec.step = "relay"
    BY <1>1 DEF CallRecords, CallSteps
  <2>5. Shaped(rec) /\ Working(k) /\ ~Single(k)
    BY <1>1, <2>3, <2>4 DEF Shaped, Working, CallAt, Single
  <2> HIDE DEF rec
  <2> QED  BY <1>2, <2>3, <2>4, <2>5, MovesNext
<1>8. CASE Relay(k)
  <2> DEFINE all == call[k].hosts \cup {h \in Hosts : results[h] # Missing}
  <2> DEFINE rec == [call[k] EXCEPT !.hosts = all,
                       !.step = IF call[k].seen > 0 /\ Cardinality(all) >= call[k].seen THEN "over" ELSE "relay"]
  <2>1. call' = [call EXCEPT ![k] = rec] /\ call[k].step = "relay"
    BY <1>8 DEF Relay, CallAt
  <2>0. all \in SUBSET Hosts
    BY <1>1 DEF CallRecords
  <2> HIDE DEF all
  <2>2. rec \in CallRecords /\ rec.kind = call[k].kind /\ rec.step \in {"over", "relay"}
    BY <1>1, <2>0 DEF CallRecords, CallSteps
  <2>3. Shaped(rec) /\ Working(k) /\ ~Single(k)
    BY <1>1, <2>1, <2>2 DEF Shaped, Working, CallAt, Single
  <2> HIDE DEF rec
  <2> QED  BY <1>2, <2>1, <2>2, <2>3, MovesNext
<1> QED  BY <1>3, <1>4, <1>5, <1>6, <1>7, <1>8

LEMMA BaselineNext ==
    ASSUME UpgradesInv, NEW k \in Calls, Baseline(k)
    PROVE  UpgradesInv'
<1>1. call[k] \in CallRecords /\ Shaped(call[k]) /\ call[k].step = "baseline"
  BY StepType DEF UpgradesInv, Baseline, CallAt
<1> DEFINE h == call[k].host
<1>2. h \in Hosts /\ call[k].kind = "apt" /\ Missing \in Int /\ results[h] \in Int
  BY <1>1 DEF Shaped, Missing, UpgradesInv, UpgradesTypes
<1>3. PICK seen \in {results[h], Missing} :
            call' = [call EXCEPT ![k] = [call[k] EXCEPT !.step = "poll", !.seen = seen]]
  BY DEF Baseline
<1> DEFINE rec == [call[k] EXCEPT !.step = "poll", !.seen = seen]
<1>4. rec \in CallRecords /\ rec.kind = "apt" /\ rec.step = "poll" /\ rec.host = h /\ rec.seen = seen
  BY <1>1, <1>2 DEF CallRecords, CallSteps
<1>5. Shaped(rec) /\ Working(k)
  BY <1>1, <1>2, <1>4 DEF Shaped, Working, CallAt
<1>6. UNCHANGED <<waiting, results, past, told, crossed, upgraded>> /\ call' = [call EXCEPT ![k] = rec]
      /\ blurred' = (IF results[h] = waiting[h] THEN blurred ELSE blurred \cup {k})
  BY <1>3 DEF Baseline
<1>7. blurred \subseteq blurred' /\ blurred' \subseteq Calls
  BY <1>6 DEF UpgradesInv, UpgradesTypes
<1>8. call \in [Calls -> CallRecords]
  BY DEF UpgradesInv, UpgradesTypes
<1> HIDE DEF rec
<1>9. UpgradesTypes' /\ HistoryInv'
  BY <1>2, <1>4, <1>5, <1>6, <1>7, CallMoves
<1>10. BaselineStands'
  <2> SUFFICES ASSUME NEW j \in Calls, call'[j].step = "poll", call'[j].seen # Missing, j \notin upgraded,
                      j \notin blurred'
               PROVE  waiting[call'[j].host] = call'[j].seen
                      /\ results[call'[j].host] \in {Missing, call'[j].seen}
    BY <1>6 DEF BaselineStands, CallAt
  <2>1. CASE j = k
    <3>1. call'[j] = rec
      BY <1>6, <1>8, <2>1
    <3>2. results[h] = waiting[h]
      BY <1>6, <2>1
    <3> QED  BY <1>3, <1>4, <3>1, <3>2
  <2>2. CASE j # k
    BY <1>6, <1>7, <1>8, <2>2 DEF UpgradesInv, BaselineStands, CallAt
  <2> QED  BY <2>1, <2>2
<1> QED  BY <1>9, <1>10 DEF UpgradesInv, HistoryInv

LEMMA ReportsNext ==
    ASSUME UpgradesInv, NEW k \in Calls,
           SendFails(k) \/ Detected(k) \/ GivesUp(k) \/ Watched(k) \/ (Trigger(k) /\ Report(k, "failed"))
    PROVE  UpgradesInv'
<1>1. UNCHANGED <<waiting, results, crossed, upgraded, blurred>>
  BY DEF SendFails, Detected, GivesUp, Watched, Trigger, observed
<1>2. Working(k) /\ Single(k)
  <2>1. call[k].step \in {"send", "nobody", "poll", "watch", "trigger"}
    BY DEF SendFails, Detected, GivesUp, Watched, Trigger, CallAt
  <2> QED  BY <2>1 DEF Working, Single, UpgradesInv, UpgradesTypes
<1>3. call \in [Calls -> CallRecords] /\ told \in [Calls -> {"none"} \cup Outcomes]
  BY DEF UpgradesInv, UpgradesTypes
<1>4. CASE Report(k, "failed")
  <2>1. ~WithBaseline(k)'
    BY <1>3, <1>4 DEF Report, WithBaseline
  <2> QED  BY <1>1, <1>2, <1>4, <2>1, CallReports DEF Outcomes
<1>5. CASE Detected(k)
  <2>1. Report(k, "success") /\ call[k].step = "poll" /\ results[call[k].host] \notin {Missing, call[k].seen}
    BY <1>5 DEF Detected, CallAt
  <2>2. call'[k].seen = call[k].seen
    BY <1>3, <2>1 DEF Report, CallGo, CallRecords
  <2>3. WithBaseline(k)' => k \in upgraded \/ k \in blurred
    BY <2>1, <2>2 DEF WithBaseline, UpgradesInv, BaselineStands, CallAt
  <2> QED  BY <1>1, <1>2, <2>1, <2>3, CallReports DEF Outcomes
<1>6. CASE Watched(k)
  <2>1. Report(k, "success") /\ call[k].step = "watch"
    BY <1>6 DEF Watched, CallAt
  <2>2. call'[k].kind = call[k].kind /\ call[k].kind = "agent"
    BY <1>3, <2>1 DEF Report, CallGo, CallRecords, UpgradesInv, UpgradesTypes
  <2>3. ~WithBaseline(k)'
    BY <2>2 DEF WithBaseline
  <2> QED  BY <1>1, <1>2, <2>1, <2>3, CallReports DEF Outcomes
<1> QED  BY <1>4, <1>5, <1>6 DEF SendFails, GivesUp

LEMMA WaitsNext ==
    ASSUME UpgradesInv, NEW k \in Calls,
           Kind(k) \/ Send(k) \/ (Trigger(k) /\ ~Report(k, "failed")) \/ RelayEnds(k) \/ HangUp(k)
    PROVE  UpgradesInv'
<1>1. UNCHANGED <<waiting, results, past, told, crossed, observed>>
  <2>1. CASE Kind(k)
    BY <2>1 DEF Kind, CallGo
  <2>2. CASE Send(k)
    BY <2>2 DEF Send, CallGo
  <2>3. CASE Trigger(k) /\ ~Report(k, "failed")
    BY <2>3 DEF Trigger
  <2>4. CASE RelayEnds(k) \/ HangUp(k)
    BY <2>4 DEF RelayEnds, HangUp
  <2> QED  BY <2>1, <2>2, <2>3, <2>4
<1>2. PICK step \in {"send", "nobody", "baseline", "watch", "over", "dropped"} :
        /\ CallGo(k, step)
        /\ \/ CallAt(k, "kind") /\ step \in {"send", "nobody", "dropped"}
           \/ CallAt(k, "send") /\ step \in {"baseline", "dropped"}
           \/ CallAt(k, "nobody") /\ step = "dropped"
           \/ CallAt(k, "baseline") /\ step = "dropped"
           \/ CallAt(k, "trigger") /\ step = "watch"
           \/ CallAt(k, "list") /\ step = "dropped"
           \/ CallAt(k, "each") /\ step = "dropped"
           \/ CallAt(k, "relay") /\ step = "over"
  BY DEF Kind, Send, Trigger, RelayEnds, HangUp, CallAt
<1>3. step \in CallSteps
  BY DEF CallSteps
<1> QED  BY <1>1, <1>2, <1>3, SingleCalls

LEMMA HostsNext ==
    ASSUME UpgradesInv,
           \/ \E h \in Hosts : HostUpgrades(h) \/ HostReports(h) \/ Publish(h)
           \/ NextSecond \/ OrchestratorRestarts
    PROVE  UpgradesInv'
<1>1. /\ UNCHANGED <<call, past, told, crossed>>
      /\ waiting' \in [Hosts -> Int] /\ results' \in [Hosts -> Int]
      /\ upgraded \subseteq upgraded' /\ upgraded' \subseteq Calls
      /\ blurred \subseteq blurred' /\ blurred' \subseteq Calls
      /\ \A k \in Calls : BaselineStands /\ CallAt(k, "poll") /\ call[k].host \in Hosts
                          /\ call[k].seen # Missing /\ k \notin upgraded' /\ k \notin blurred' =>
              waiting'[call[k].host] = call[k].seen /\ results'[call[k].host] \in {Missing, call[k].seen}
  <2> USE DEF UpgradesInv, UpgradesTypes, observed
  <2>1. ASSUME NEW h \in Hosts, HostUpgrades(h)
        PROVE  <1>1!:
    BY <2>1 DEF HostUpgrades, Sent, BaselineStands
  <2>2. ASSUME NEW h \in Hosts, HostReports(h)
        PROVE  <1>1!:
    BY <2>2 DEF HostReports, BaselineStands
  <2>3. ASSUME NEW h \in Hosts, Publish(h)
        PROVE  <1>1!:
    BY <2>3 DEF Publish, Sent, BaselineStands
  <2>4. CASE NextSecond
    BY <2>4 DEF NextSecond, BaselineStands
  <2>5. CASE OrchestratorRestarts
    BY <2>5 DEF OrchestratorRestarts, BaselineStands, Missing
  <2> QED  BY <2>1, <2>2, <2>3, <2>4, <2>5
<1>2. UpgradesTypes'
  BY <1>1 DEF UpgradesInv, UpgradesTypes
<1>3. RowsBelong' /\ RowsSingle' /\ RowsCross'
  BY <1>1 DEF UpgradesInv, RowsBelong, RowsSingle, RowsCross, Of, CallAt, Single, Category, SameKey, Working
<1>4. BaselineStands'
  BY <1>1 DEF UpgradesInv, UpgradesTypes, BaselineStands, CallAt
<1>5. UpgradesAreTold'
  BY <1>1 DEF UpgradesInv, UpgradesAreTold, HistoryIsTold, StartedIsAtWork, SuccessIsReal, WithBaseline, CallAt,
              Working
<1> QED  BY <1>2, <1>3, <1>4, <1>5 DEF UpgradesInv

LEMMA RestartNext ==
    ASSUME UpgradesInv, ApiRestarts
    PROVE  UpgradesInv'
<1> USE DEF UpgradesInv
<1>1. /\ call \in [Calls -> CallRecords] /\ past \in Seq(UpgradeRows) /\ Len(past) \in Nat
      /\ \A r \in 1..Len(past) : past[r] \in UpgradeRows
  BY DEF UpgradesTypes
<1>2. UNCHANGED <<waiting, results, told, crossed, upgraded, blurred>>
  BY DEF ApiRestarts, observed
<1>3. \A k \in Calls : call'[k] = IF Working(k) THEN [call[k] EXCEPT !.step = "over"] ELSE call[k]
  BY DEF ApiRestarts
<1>4. \A k \in Calls : call'[k] \in CallRecords /\ call'[k].kind = call[k].kind /\ call'[k].host = call[k].host
                       /\ call'[k].seen = call[k].seen
                       /\ call'[k].step = IF Working(k) THEN "over" ELSE call[k].step
  BY <1>1, <1>3 DEF CallRecords, CallSteps
<1>5. call' \in [Calls -> CallRecords]
  BY <1>4 DEF ApiRestarts
<1>6. \A r \in 1..Len(past) :
        past'[r] = IF past[r].status = "started" THEN [past[r] EXCEPT !.status = "failed"] ELSE past[r]
  BY DEF ApiRestarts
<1>7. \A r \in 1..Len(past) :
        /\ past'[r] \in UpgradeRows /\ past'[r].call = past[r].call /\ past'[r].host = past[r].host
        /\ past'[r].category = past[r].category /\ past'[r].stamp = past[r].stamp
        /\ past'[r].status # "started" /\ (past[r].status # "started" => past'[r].status = past[r].status)
  BY <1>1, <1>6 DEF UpgradeRows, Outcomes
<1>8. past' \in [1..Len(past) -> UpgradeRows]
  BY <1>7 DEF ApiRestarts
<1>9. past' \in Seq(UpgradeRows) /\ Len(past') = Len(past)
  BY <1>1, <1>8
<1>10. \A k \in Calls : /\ ~Working(k)' /\ (Single(k)' <=> Single(k)) /\ Category(k)' = Category(k)
                        /\ CallAt(k, "unused")' <=> CallAt(k, "unused")
  BY <1>4 DEF Working, Single, Category, CallAt
<1>11. \A r \in 1..Len(past) : Of(r) \in Calls /\ Of(r)' = Of(r)
  BY <1>1, <1>7 DEF Of, UpgradeRows
<1>12. UpgradesTypes'
  BY <1>2, <1>4, <1>5, <1>9 DEF UpgradesTypes, Working
<1>13. RowsBelong'
  BY <1>4, <1>7, <1>9, <1>10, <1>11 DEF RowsBelong
<1>14. RowsSingle'
  BY <1>9, <1>10, <1>11 DEF RowsSingle
<1>15. RowsCross'
  BY <1>2, <1>7, <1>9, <1>10, <1>11 DEF RowsCross, SameKey
<1>16. BaselineStands'
  BY <1>4, <1>10 DEF BaselineStands, CallAt, Working
<1>17. HistoryIsTold'
  <2> SUFFICES ASSUME NEW r \in 1..Len(past), told[Of(r)] # "none", Of(r) \notin crossed
               PROVE  past'[r].status = told[Of(r)]
    BY <1>2, <1>9, <1>11 DEF HistoryIsTold, Of
  <2>1. past[r].status = told[Of(r)] /\ told[Of(r)] \in {"none"} \cup Outcomes
    BY <1>11 DEF UpgradesAreTold, HistoryIsTold, Of, UpgradesTypes
  <2> QED  BY <1>7, <2>1 DEF Outcomes
<1>18. StartedIsAtWork'
  BY <1>7, <1>9 DEF StartedIsAtWork
<1>19. SuccessIsReal'
  BY <1>2, <1>4 DEF UpgradesAreTold, SuccessIsReal, WithBaseline
<1> QED  BY <1>12, <1>13, <1>14, <1>15, <1>16, <1>17, <1>18, <1>19 DEF UpgradesAreTold

-----------------------------------------------------------------------------
LEMMA UpgradesInvInit == UpgradesInit => UpgradesInv
<1> SUFFICES ASSUME UpgradesInit
             PROVE  UpgradesInv
  OBVIOUS
<1>1. NoCall \in CallRecords /\ NoCall.kind = "apt" /\ NoCall.step = "unused"
  BY DEF NoCall, CallRecords, CallKinds, CallSteps, Missing
<1>2. \A k \in Calls : call[k] = NoCall /\ told[k] = "none"
  BY DEF UpgradesInit
<1>3. past = <<>> /\ 1..Len(past) = {}
  BY DEF UpgradesInit
<1>4. UpgradesTypes
  <2>1. waiting \in [Hosts -> Int] /\ results \in [Hosts -> Int]
    BY UpgradesAssumption DEF UpgradesInit, Missing
  <2>2. past \in Seq(UpgradeRows)
    BY <1>3
  <2> QED  BY <1>1, <1>2, <2>1, <2>2 DEF UpgradesInit, UpgradesTypes
<1>5. RowsBelong /\ RowsSingle /\ RowsCross
  BY <1>1, <1>2, <1>3 DEF RowsBelong, RowsSingle, RowsCross, CallAt
<1>6. BaselineStands /\ UpgradesAreTold
  BY <1>1, <1>2, <1>3 DEF BaselineStands, CallAt, UpgradesAreTold, HistoryIsTold, StartedIsAtWork, SuccessIsReal,
                          WithBaseline
<1> QED  BY <1>4, <1>5, <1>6 DEF UpgradesInv

LEMMA UpgradesInvNext == UpgradesInv /\ [UpgradesNext]_upgradesVars => UpgradesInv'
<1> SUFFICES ASSUME UpgradesInv, [UpgradesNext]_upgradesVars
             PROVE  UpgradesInv'
  OBVIOUS
<1>1. ASSUME NEW k \in Calls, CallStep(k) \/ Batch(k) \/ Scan(k)
      PROVE  UpgradesInv'
  <2>1. CASE Kind(k) \/ Send(k) \/ Trigger(k) \/ RelayEnds(k) \/ HangUp(k)
    BY <2>1, WaitsNext, ReportsNext
  <2>2. CASE SendFails(k) \/ Detected(k) \/ GivesUp(k) \/ Watched(k)
    BY <2>2, ReportsNext
  <2>3. CASE Batch(k) \/ Scan(k) \/ List(k) \/ EachSend(k) \/ AskHosts(k) \/ Relay(k)
    BY <2>3, BatchesNext
  <2>4. CASE Baseline(k) \/ EachInsert(k)
    BY <2>4, BaselineNext, EachInsertNext
  <2> QED  BY <1>1, <2>1, <2>2, <2>3, <2>4 DEF CallStep
<1>2. ASSUME NEW k \in Calls, NEW h \in Hosts, NEW kind \in {"apt", "agent"}, Target(k, h, kind)
      PROVE  UpgradesInv'
  BY <1>2, TargetNext
<1>3. CASE \/ \E h \in Hosts : HostUpgrades(h) \/ HostReports(h) \/ Publish(h)
           \/ NextSecond \/ OrchestratorRestarts
  BY <1>3, HostsNext
<1>4. CASE ApiRestarts
  BY <1>4, RestartNext
<1>5. CASE UNCHANGED upgradesVars
  BY <1>5 DEF upgradesVars, UpgradesInv, UpgradesTypes, RowsBelong, RowsSingle, RowsCross, BaselineStands,
              UpgradesAreTold, HistoryIsTold, StartedIsAtWork, SuccessIsReal, WithBaseline, Of, CallAt, Single,
              Category, SameKey, Working
<1> QED  BY <1>1, <1>2, <1>3, <1>4, <1>5 DEF UpgradesNext

\* Updates: a check or an upgrade of the machine that is shown as running does run; the history of the
\* upgrades of hosts keeps what the user was told of each, shows as started only what is at work, and a
\* success that was told against a baseline is of a host that upgraded or got packages meanwhile.
THEOREM UpdatesStayTrue == UpdatesSpec => []UpdatesAreTrue
<1> DEFINE Inv == JobsInv /\ UpgradesInv
<1>1. UpdatesInit => Inv
  BY JobsInvInit, UpgradesInvInit DEF UpdatesInit
<1>2. Inv /\ [UpdatesNext]_updatesVars => Inv'
  <2> SUFFICES ASSUME JobsInv, UpgradesInv, [UpdatesNext]_updatesVars
               PROVE  JobsInv' /\ UpgradesInv'
    OBVIOUS
  <2>1. [JobsNext]_jobsVars /\ [UpgradesNext]_upgradesVars
    BY DEF UpdatesNext, updatesVars
  <2> QED  BY <2>1, JobsInvNext, UpgradesInvNext
<1>3. Inv => UpdatesAreTrue
  BY JobsAreShown DEF UpdatesAreTrue, UpgradesInv
<1> QED  BY <1>1, <1>2, <1>3, PTL DEF UpdatesSpec
=============================================================================
