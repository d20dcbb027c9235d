------------------------------- MODULE Accounts -------------------------------
(***************************************************************************)
(* Sessions and users (hr-auth).  hr-edge and homeroute each have an       *)
(* AuthService on the same two files: the SQLite table of sessions, and    *)
(* users.yml, which every change reads as a whole and writes back as a     *)
(* whole, in place, with no lock.  There is one user.                      *)
(*                                                                         *)
(* A caller is a request in one of the processes; a step is one statement  *)
(* on the table or one access to the file.  A row has outlived its term,   *)
(* has had no activity for 30 minutes, or neither; time is the actions     *)
(* that say so.  A write empties the file and fills it again.              *)
(***************************************************************************)
EXTENDS Integers

CONSTANTS
    Edge, Api,      \* a request in hr-edge and one in homeroute
    Ids,            \* session ids; one is used once
    MaxChanges,     \* bound: changes of the password
    MaxCrashes      \* bound: processes that die

Callers == {Edge, Api}

VARIABLES
    table, created,      \* the rows of the sessions, and the ids used so far
    file,                \* users.yml: whether it is whole, and the user
    req,                 \* of each caller: its step, its session, what it has read and is to do
    changes, crashes,
    saved,               \* history: the user with every change applied that has been written
    lost                 \* history: a stale copy was written

rows == <<table, created>>
history == <<changes, crashes, saved, lost>>
vars == <<rows, file, req, history>>

NoUuid == "no uuid"
Nobody == [password |-> 0, uuid |-> NoUuid]

\* Two fields are history: the copy is older than the file; the session had ended at the start.
Idle == [pc |-> "idle", id |-> "none", todo |-> "none", copy |-> Nobody,
         stale |-> FALSE, late |-> FALSE]

Init ==
    /\ table = <<>> /\ created = {}
    /\ file = [whole |-> TRUE, user |-> Nobody]
    /\ req = [c \in Callers |-> Idle]
    /\ changes = 0 /\ crashes = 0 /\ saved = Nobody /\ lost = FALSE

At(c, step) == req[c].pc = step
Then(c, step) == IF step = "idle" THEN Idle ELSE [req[c] EXCEPT !.pc = step]
Go(c, step) == req' = [req EXCEPT ![c] = Then(c, step)]
Begin(c, step, what) == req' = [req EXCEPT ![c] = [Idle EXCEPT !.pc = step, !.todo = what]]
Without(s) == [i \in DOMAIN table \ {s} |-> table[i]]

-----------------------------------------------------------------------------
(* Sessions.                                                               *)

\* A login whose password is right.  hr-edge notes the time of the login before it creates the
\* session, homeroute after it.
Login(c) ==
    /\ At(c, "idle") /\ file.whole
    /\ IF c = Edge THEN Begin(c, "load", "login") ELSE Begin(c, "create", "stamp")
    /\ UNCHANGED <<rows, file, history>>

Create(c) ==
    \E s \in Ids \ created, long \in BOOLEAN :
        /\ At(c, "create") /\ Go(c, IF c = Edge THEN "idle" ELSE "load")
        /\ long => c = Api
        /\ table' = [i \in DOMAIN table \cup {s} |->
                        IF i = s THEN [over |-> FALSE, quiet |-> FALSE, long |-> long] ELSE table[i]]
        /\ created' = created \cup {s}
        /\ UNCHANGED <<file, history>>

\* A request with the cookie of a session: validate, then users.get.
Present(c, s) ==
    /\ At(c, "idle") /\ s \in created
    /\ req' = [req EXCEPT ![c] = [Idle EXCEPT !.pc = "select", !.id = s, !.todo = "enter",
                                  !.late = s \notin DOMAIN table \/ table[s].over]]
    /\ UNCHANGED <<rows, file, history>>

Inactive(s) == table[s].quiet /\ ~table[s].long

\* Mutant: expiry is left to the periodic cleanup.
Select_NoExpiry(c) ==
    LET s == req[c].id IN
    /\ At(c, "select")
    /\ Go(c, IF s \notin DOMAIN table THEN "idle" ELSE IF Inactive(s) THEN "remove" ELSE "touch")
    /\ UNCHANGED <<rows, file, history>>

\* SessionStore::get
Select(c) ==
    LET s == req[c].id IN
    /\ At(c, "select")
    /\ Go(c, IF s \notin DOMAIN table THEN "idle"
             ELSE IF table[s].over \/ Inactive(s) THEN "remove" ELSE "touch")
    /\ UNCHANGED <<rows, file, history>>

Remove(c) ==
    /\ At(c, "remove") /\ Go(c, "idle")
    /\ table' = Without(req[c].id)
    /\ UNCHANGED <<created, file, history>>

\* Mutant: the row that was read is written back.
Touch_WritesBack(c) ==
    LET s == req[c].id IN
    /\ At(c, "touch") /\ Go(c, "user")
    /\ table' = [i \in DOMAIN table \cup {s} |->
                    IF i = s THEN [over |-> FALSE, quiet |-> FALSE, long |-> FALSE] ELSE table[i]]
    /\ UNCHANGED <<created, file, history>>

\* update_activity: an UPDATE, which does nothing to a row that is gone.
Touch(c) ==
    LET s == req[c].id IN
    /\ At(c, "touch") /\ Go(c, "user")
    /\ table' = IF s \in DOMAIN table THEN [table EXCEPT ![s].quiet = FALSE] ELSE table
    /\ UNCHANGED <<created, file, history>>

\* logout, and revoke_session of another session of the user.
Delete(c, s) ==
    /\ At(c, "idle") /\ s \in DOMAIN table
    /\ table' = Without(s)
    /\ UNCHANGED <<created, file, req, history>>

CleanupExpired ==
    /\ table' = [i \in {j \in DOMAIN table : ~table[j].over} |-> table[i]]
    /\ UNCHANGED <<created, file, req, history>>

\* Time.
Ages(s) ==
    /\ s \in DOMAIN table
    /\ \/ table' = [table EXCEPT ![s].over = TRUE]
       \/ table' = [table EXCEPT ![s].quiet = TRUE]
    /\ UNCHANGED <<created, file, req, history>>

-----------------------------------------------------------------------------
(* Users.                                                                  *)

\* UserStore::get: a user without a uuid is given one.  /me deletes the session of a user it does
\* not find, the other routes only refuse.
FindUser(c) ==
    /\ At(c, "user")
    /\ \/ /\ ~file.whole
          /\ Go(c, "idle")
          /\ table' \in {table} \cup (IF c = Api THEN {Without(req[c].id)} ELSE {})
       \/ /\ file.whole
          /\ req' = [req EXCEPT ![c].pc = IF file.user.uuid = NoUuid THEN "empty" ELSE "in",
                                ![c].copy = file.user]
          /\ table' = table
    /\ UNCHANGED <<created, file, history>>

\* change_password, for a caller that has proved who it is.
ChangePassword(c) ==
    /\ At(c, "idle") /\ Begin(c, "load", "change")
    /\ changes < MaxChanges /\ changes' = changes + 1
    /\ UNCHANGED <<rows, file, crashes, saved, lost>>

\* What each change does to the user it has read.
Changed(c, user) ==
    CASE req[c].todo = "enter"  -> [user EXCEPT !.uuid = IF @ = NoUuid THEN c ELSE @]
      [] req[c].todo = "change" -> [user EXCEPT !.password = changes]
      [] OTHER                  -> user

\* What follows a write, or a file in which the user is not found.
AfterFile(c) ==
    CASE req[c].todo = "enter" -> "in" [] req[c].todo = "login" -> "create" [] OTHER -> "idle"

\* Mutant: a user that is not found is made.
Load_Default(c) ==
    /\ At(c, "load")
    /\ req' = [req EXCEPT ![c].pc = "empty", ![c].copy = IF file.whole THEN file.user ELSE Nobody]
    /\ UNCHANGED <<rows, file, history>>

\* An unreadable file is one without users: nothing is written then.
Load(c) ==
    /\ At(c, "load")
    /\ IF file.whole
       THEN req' = [req EXCEPT ![c].pc = "empty", ![c].copy = file.user]
       ELSE Go(c, AfterFile(c))
    /\ UNCHANGED <<rows, file, history>>

Empty(c) ==
    /\ At(c, "empty")
    /\ file' = [file EXCEPT !.whole = FALSE]
    /\ req' = [d \in Callers |->
                  IF d = c THEN Then(c, "fill")
                  ELSE [req[d] EXCEPT !.stale = @ \/ req[d].pc \in {"empty", "fill"}]]
    /\ UNCHANGED <<rows, history>>

Fill(c) ==
    /\ At(c, "fill") /\ Go(c, AfterFile(c))
    /\ file' = [whole |-> TRUE, user |-> Changed(c, req[c].copy)]
    /\ saved' = Changed(c, saved)
    /\ lost' = (lost \/ req[c].stale)
    /\ UNCHANGED <<rows, changes, crashes>>

Done(c) ==
    /\ At(c, "in") /\ Go(c, "idle")
    /\ UNCHANGED <<rows, file, history>>

\* The process dies, perhaps between the two halves of a write.
Die(c) ==
    /\ crashes < MaxCrashes /\ crashes' = crashes + 1
    /\ Go(c, "idle")
    /\ UNCHANGED <<rows, file, changes, saved, lost>>

-----------------------------------------------------------------------------
Next ==
    \/ \E c \in Callers :
        \/ Login(c) \/ Create(c) \/ Select(c) \/ Remove(c) \/ Touch(c) \/ FindUser(c)
        \/ ChangePassword(c) \/ Load(c) \/ Empty(c) \/ Fill(c) \/ Done(c) \/ Die(c)
    \/ \E c \in Callers, s \in Ids : Present(c, s) \/ Delete(c, s)
    \/ \E s \in Ids : Ages(s)
    \/ CleanupExpired

Spec == Init /\ [][Next]_vars

-----------------------------------------------------------------------------
User == [password : 0..MaxChanges, uuid : Callers \cup {NoUuid}]

TypeOK ==
    /\ created \subseteq Ids /\ DOMAIN table \subseteq created
    /\ \A s \in DOMAIN table : table[s] \in [over : BOOLEAN, quiet : BOOLEAN, long : BOOLEAN]
    /\ file \in [whole : BOOLEAN, user : User] /\ saved \in User
    /\ req \in [Callers -> [pc : {"idle", "create", "select", "remove", "touch", "user", "load",
                                  "empty", "fill", "in"},
                            id : Ids \cup {"none"}, copy : User,
                            todo : {"none", "login", "stamp", "enter", "change"},
                            stale : BOOLEAN, late : BOOLEAN]]
    /\ changes \in 0..MaxChanges /\ crashes \in 0..MaxCrashes
    /\ lost \in BOOLEAN

\* A session that was logged out, revoked or cleaned up does not come back, whatever a validation
\* that read it before still does.
GoneStaysGone ==
    [][\A s \in created : s \notin DOMAIN table => s \notin DOMAIN table']_vars

\* Nobody whose session had ended when the request came is let in.
NoLateWelcome == \A c \in Callers : At(c, "in") => ~req[c].late

\* users.yml holds every change that was written - a password, a uuid that was given out - unless two
\* changes overlapped on whole files: in particular a change that reads the file while another one
\* writes it does no harm, and a process that dies within a write leaves a file that nobody takes for
\* whole.
SavedStays == (file.whole /\ ~lost) => file.user = saved

\* What the two stores promise: no ended session is let in, and the file keeps what it was given.
AccountsHold == NoLateWelcome /\ SavedStays
=============================================================================
