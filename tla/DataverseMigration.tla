-------------------------- MODULE DataverseMigration --------------------------
(***************************************************************************)
(* hr-dataverse-migrate: the move of one application from SQLite to its    *)
(* own PostgreSQL database, with the provisioning or adoption of the role  *)
(* and the database (hr-dataverse, provisioning and manager), and the      *)
(* operator who runs it again after a failure.  A step is one statement,   *)
(* or one access to the file of secrets; the process may die between two,  *)
(* and a statement may fail.                                               *)
(*                                                                         *)
(* A batch is one row, and rows of SQLite are numbers: what they hold, the *)
(* types of the columns and the strategy of the ids are left out.  The     *)
(* order of the tables is left open.  SQLite is not written to.  The       *)
(* passwords of the role are the numbers of the runs that set them.        *)
(***************************************************************************)
EXTENDS Naturals, Sequences

CONSTANTS
    Tables,
    MaxRows,        \* bound: rows of a table
    MaxRuns,        \* bound: runs of the tool
    MaxBreaks,      \* bound: statements that fail, and deaths of the process
    MaxAdded        \* bound: rows the application adds to a table

VARIABLES
    source,             \* SQLite: the number of rows of each table
    role, db,           \* PostgreSQL: the role's password, 0 for no role; whether there is a database
    made, listed,       \* its tables, and those that _dv_tables lists
    pg, added,          \* the rows of SQLite in each table, in the order of their coming; rows of
                        \* the application
    secret,             \* the password in the file of secrets, 0 for none
    run, runs,          \* the run, and how many there have been
    breaks,
    stranded,           \* history: a role was left without its database
    cut,                \* history: a password was set, or a database kept, without its secret
    blind               \* history: a table with rows was counted as empty

postgres == <<role, db, made, listed, pg, added>>
history == <<stranded, cut, blind>>
migrationVars == <<source, postgres, secret, run, runs, breaks, history>>

ASSUME MigrationAssumption ==
    MaxRows \in Nat /\ MaxRuns \in Nat /\ MaxBreaks \in Nat /\ MaxAdded \in Nat

InSource(t) == [i \in 1..source[t] |-> i]
NoRows == [t \in Tables |-> <<>>]
NoTable == "none"
\* No run is under way; outcome is that of the last one.
NoRun == [pc |-> "idle", outcome |-> "none", dry |-> FALSE, save |-> FALSE, adopted |-> FALSE,
         todo |-> {}, table |-> NoTable, next |-> 0, expected |-> [t \in Tables |-> 0]]

\* An application that only has SQLite, or one that was moved before.
MigrationInit ==
    /\ source \in [Tables -> 0..MaxRows]
    /\ db \in BOOLEAN
    /\ role = (IF db THEN 1 ELSE 0) /\ secret = role
    /\ made = (IF db THEN Tables ELSE {}) /\ listed = made
    /\ pg = [t \in Tables |-> IF db THEN InSource(t) ELSE <<>>]
    /\ added = [t \in Tables |-> 0]
    /\ run = NoRun /\ runs = 0 /\ breaks = 0
    /\ stranded = FALSE /\ cut = FALSE /\ blind = FALSE

Doing(step) == run.pc = step
Proceed(step) == run' = [run EXCEPT !.pc = step]
EndRun(outcome) == run' = [NoRun EXCEPT !.outcome = outcome]
Password == runs + 1
Count(t) == added[t] + Len(pg[t])
Breaking == breaks < MaxBreaks /\ breaks' = breaks + 1
\* The password of the role has been changed and the secret has not been saved.
Exposed == run.pc \in {"createDb", "grantDb", "init", "save"} /\ role = Password

-----------------------------------------------------------------------------
(* provision_app and adopt_app.                                            *)

StartRun(dry, save) ==
    /\ Doing("idle") /\ runs < MaxRuns /\ runs' = runs + 1
    /\ run' = [NoRun EXCEPT !.pc = "exists", !.dry = dry, !.save = save]
    /\ UNCHANGED <<source, postgres, secret, breaks, history>>

HasDatabase ==
    /\ Doing("exists")
    /\ run' = [run EXCEPT !.pc = IF db THEN "alter" ELSE "createRole", !.adopted = db]
    /\ UNCHANGED <<source, postgres, secret, runs, breaks, history>>

\* A role that a run before this one left behind makes it fail.
CreateRole ==
    /\ Doing("createRole")
    /\ IF role = 0 THEN role' = Password /\ Proceed("grant")
                   ELSE UNCHANGED role /\ EndRun("error")
    /\ UNCHANGED <<source, db, made, listed, pg, added, secret, runs, breaks, history>>

GrantMembership ==
    /\ Doing("grant") /\ Proceed("createDb")
    /\ UNCHANGED <<source, postgres, secret, runs, breaks, history>>

CreateDatabase ==
    /\ Doing("createDb")
    /\ db' = TRUE /\ made' = {} /\ listed' = {} /\ Proceed("grantDb")
    /\ pg' = NoRows /\ added' = [t \in Tables |-> 0]
    /\ UNCHANGED <<source, role, secret, runs, breaks, history>>

\* Mutant: the role is kept.
RollBack_KeepsRole ==
    /\ run.pc \in {"grant", "createDb"} /\ Breaking /\ EndRun("error")
    /\ UNCHANGED <<source, postgres, secret, runs, history>>

\* GRANT or CREATE DATABASE fails: the role is dropped again, if that does not fail too.
RollBack ==
    /\ run.pc \in {"grant", "createDb"} /\ Breaking /\ EndRun("error")
    /\ \/ role' = 0 /\ UNCHANGED stranded
       \/ role' = role /\ stranded' = TRUE
    /\ UNCHANGED <<source, db, made, listed, pg, added, secret, runs, cut, blind>>

\* The grants on the database; the connection as the new role that makes the metadata.
GrantDatabase ==
    /\ Doing("grantDb") /\ Proceed("init")
    /\ UNCHANGED <<source, postgres, secret, runs, breaks, history>>

InitMetadata ==
    /\ Doing("init") /\ Proceed("save")
    /\ UNCHANGED <<source, postgres, secret, runs, breaks, history>>

AlterRole ==
    /\ Doing("alter")
    /\ IF role # 0 THEN role' = Password /\ Proceed("save")
                   ELSE UNCHANGED role /\ EndRun("error")
    /\ UNCHANGED <<source, db, made, listed, pg, added, secret, runs, breaks, history>>

\* Mutant: the secret of an adopted database is taken for the one that is saved.
SaveSecret_NewOnly ==
    /\ Doing("save") /\ Proceed("engine")
    /\ secret' = IF run.save /\ ~run.adopted THEN Password ELSE secret
    /\ cut' = (cut \/ ~run.save)
    /\ UNCHANGED <<source, postgres, runs, breaks, stranded, blind>>

\* provision and adopt_existing: the secret is saved if the tool was told where.
SaveSecret ==
    /\ Doing("save") /\ Proceed("engine")
    /\ secret' = IF run.save THEN Password ELSE secret
    /\ cut' = (cut \/ ~run.save)
    /\ UNCHANGED <<source, postgres, runs, breaks, stranded, blind>>

-----------------------------------------------------------------------------
(* do_migrate.                                                             *)

\* The connection, and list_tables, whose failure is taken for no tables.
ListTables ==
    /\ Doing("engine")
    /\ \/ UNCHANGED breaks /\ run' = [run EXCEPT !.pc = "create", !.todo = Tables \ listed]
       \/ Breaking /\ run' = [run EXCEPT !.pc = "create", !.todo = Tables]
    /\ UNCHANGED <<source, postgres, secret, runs, history>>

\* create_table: its first statement and its last (see DataverseSchema).
CreateTable(t) ==
    /\ Doing("create") /\ t \in run.todo
    /\ IF t \in made
       THEN EndRun("error") /\ UNCHANGED made
       ELSE made' = made \cup {t} /\ run' = [run EXCEPT !.pc = "list", !.table = t]
    /\ UNCHANGED <<source, role, db, listed, pg, added, secret, runs, breaks, history>>

ListTable ==
    /\ Doing("list")
    /\ listed' = listed \cup {run.table}
    /\ run' = [run EXCEPT !.pc = "create", !.todo = @ \ {run.table}, !.table = NoTable]
    /\ UNCHANGED <<source, role, db, made, pg, added, secret, runs, breaks, history>>

AllCreated ==
    /\ Doing("create") /\ run.todo = {}
    /\ run' = [run EXCEPT !.pc = "count", !.todo = Tables]
    /\ UNCHANGED <<source, postgres, secret, runs, breaks, history>>

\* What is done about a table that has n rows.
Settle(t, n) ==
    run' = IF n = source[t] /\ n > 0
           THEN [run EXCEPT !.todo = @ \ {t}, !.expected[t] = n]
           ELSE IF n > 0 THEN [NoRun EXCEPT !.outcome = "error"]
           ELSE [run EXCEPT !.pc = "copy", !.table = t, !.next = 1]

\* Mutant: rows that are there already do not matter.
CountTable_Resumes(t) ==
    /\ Doing("count") /\ t \in run.todo
    /\ run' = IF Count(t) = source[t] THEN [run EXCEPT !.todo = @ \ {t}, !.expected[t] = source[t]]
              ELSE [run EXCEPT !.pc = "copy", !.table = t, !.next = 1]
    /\ UNCHANGED <<source, postgres, secret, runs, breaks, history>>

\* The rows that are there decide; a count that fails is taken for zero.
CountTable(t) ==
    /\ Doing("count") /\ t \in run.todo
    /\ \/ Settle(t, Count(t)) /\ UNCHANGED <<breaks, blind>>
       \/ Breaking /\ Settle(t, 0) /\ blind' = (blind \/ Count(t) > 0)
    /\ UNCHANGED <<source, postgres, secret, runs, stranded, cut>>

\* copy_rows: each batch commits by itself.
CopyBatch ==
    LET t == run.table  n == run.next IN
    /\ Doing("copy")
    /\ IF n <= source[t]
       THEN pg' = [pg EXCEPT ![t] = Append(@, n)] /\ run' = [run EXCEPT !.next = n + 1]
       ELSE /\ UNCHANGED pg
            /\ run' = [run EXCEPT !.pc = "count", !.todo = @ \ {t}, !.table = NoTable, !.next = 0,
                                  !.expected[t] = source[t]]
    /\ UNCHANGED <<source, role, db, made, listed, added, secret, runs, breaks, history>>

AllCopied ==
    /\ Doing("count") /\ run.todo = {}
    /\ run' = [run EXCEPT !.pc = "validate", !.todo = Tables]
    /\ UNCHANGED <<source, postgres, secret, runs, breaks, history>>

\* Mutant: a table may have more rows than were copied.
Validate_AtLeast(t) ==
    /\ Doing("validate") /\ t \in run.todo
    /\ IF Count(t) >= run.expected[t] THEN run' = [run EXCEPT !.todo = @ \ {t}] ELSE EndRun("error")
    /\ UNCHANGED <<source, postgres, secret, runs, breaks, history>>

Validate(t) ==
    /\ Doing("validate") /\ t \in run.todo
    /\ IF Count(t) = run.expected[t] THEN run' = [run EXCEPT !.todo = @ \ {t}] ELSE EndRun("error")
    /\ UNCHANGED <<source, postgres, secret, runs, breaks, history>>

Report ==
    /\ Doing("validate") /\ run.todo = {}
    /\ IF run.dry THEN Proceed("dropDb") ELSE EndRun("ok")
    /\ UNCHANGED <<source, postgres, secret, runs, breaks, history>>

-----------------------------------------------------------------------------
(* drop_app, at the end of a dry run.  What fails is passed over.          *)

DropDatabase ==
    /\ Doing("dropDb") /\ Proceed("dropRole")
    /\ \/ /\ UNCHANGED breaks /\ db' = FALSE /\ made' = {} /\ listed' = {}
          /\ pg' = NoRows /\ added' = [t \in Tables |-> 0]
       \/ Breaking /\ UNCHANGED <<db, made, listed, pg, added>>
    /\ UNCHANGED <<source, role, secret, runs, stranded, cut, blind>>

\* A role that owns a database cannot be dropped.
DropRole ==
    /\ Doing("dropRole") /\ Proceed("forget")
    /\ \/ UNCHANGED <<breaks, stranded>> /\ role' = IF db THEN role ELSE 0
       \/ Breaking /\ UNCHANGED role /\ stranded' = (stranded \/ ~db)
    /\ UNCHANGED <<source, db, made, listed, pg, added, secret, runs, cut, blind>>

ForgetSecret ==
    /\ Doing("forget") /\ EndRun("none")
    /\ secret' = IF run.save THEN 0 ELSE secret
    /\ cut' = (cut \/ db)
    /\ UNCHANGED <<source, postgres, runs, breaks, stranded, blind>>

-----------------------------------------------------------------------------
\* A statement fails where that ends the run, or the process dies.
Breaks ==
    /\ ~Doing("idle") /\ Breaking /\ EndRun("error")
    /\ stranded' = (stranded \/ (role # 0 /\ ~db))
    /\ cut' = (cut \/ Exposed \/ run.pc \in {"dropRole", "forget"})
    /\ UNCHANGED <<source, postgres, secret, runs, blind>>

\* The application, through the gateway.
AddRow(t) ==
    /\ db /\ secret # 0 /\ t \in listed
    /\ added[t] < MaxAdded /\ added' = [added EXCEPT ![t] = @ + 1]
    /\ UNCHANGED <<source, role, db, made, listed, pg, secret, run, runs, breaks, history>>

MigrationNext ==
    \/ \E dry, save \in BOOLEAN : StartRun(dry, save)
    \/ HasDatabase \/ CreateRole \/ GrantMembership \/ CreateDatabase \/ RollBack \/ GrantDatabase
    \/ InitMetadata \/ AlterRole \/ SaveSecret
    \/ ListTables \/ ListTable \/ AllCreated \/ CopyBatch \/ AllCopied \/ Report
    \/ DropDatabase \/ DropRole \/ ForgetSecret \/ Breaks
    \/ \E t \in Tables : CreateTable(t) \/ CountTable(t) \/ Validate(t) \/ AddRow(t)

MigrationSpec == MigrationInit /\ [][MigrationNext]_migrationVars

-----------------------------------------------------------------------------
MigrationTypeOK ==
    /\ source \in [Tables -> 0..MaxRows] /\ db \in BOOLEAN /\ role \in 0..(MaxRuns + 1)
    /\ listed \subseteq made /\ made \subseteq Tables /\ secret \in 0..(MaxRuns + 1)
    /\ pg \in [Tables -> Seq(1..MaxRows)] /\ added \in [Tables -> 0..MaxAdded]
    /\ run.todo \subseteq Tables /\ run.expected \in [Tables -> Nat]
    /\ runs \in 0..MaxRuns /\ breaks \in 0..MaxBreaks
    /\ <<stranded, cut, blind>> \in BOOLEAN \X BOOLEAN \X BOOLEAN

\* A migration that reports success has as many rows as SQLite in each table to which the application
\* has added nothing, in however many runs; and they are the rows of SQLite, each once, unless a failed
\* count was taken for an empty table: then two runs may have copied the first rows and none the last.
SuccessIsComplete ==
    run.outcome = "ok" =>
        \A t \in Tables : added[t] = 0 =>
            Len(pg[t]) = source[t] /\ (~blind => pg[t] = InSource(t))

\* No row is copied twice, in however many runs, unless a failed count was taken for an empty table.
NoRowTwice ==
    ~blind => \A t \in Tables : \A i, j \in DOMAIN pg[t] : pg[t][i] = pg[t][j] => i = j

\* Between runs the role and the database exist together, so that the next run can provision or
\* adopt, unless the process died between the two or the removal of one of them failed.
PairedAtRest == (Doing("idle") /\ ~stranded) => (db = (role # 0))

\* Between runs the saved secret opens the database, unless a run was cut off between the two, or
\* was told not to save.
SecretOpens == (Doing("idle") /\ ~cut /\ db) => secret = role

\* "The database exists and contains all rows": after every success.
SuccessMeansAllRows ==
    run.outcome = "ok" =>
        \A t \in Tables : \A i \in 1..source[t] : \E k \in DOMAIN pg[t] : pg[t][k] = i

\* What a run of the migration (do_migrate, copy_rows, provision_app, drop_app, adopt_existing) leaves
\* behind: every row once when it reports success, and in any case a role with its database that the
\* next run and the gateway can open.
MigrationHolds == SuccessIsComplete /\ NoRowTwice /\ PairedAtRest /\ SecretOpens
=============================================================================
