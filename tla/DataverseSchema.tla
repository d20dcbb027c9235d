--------------------------- MODULE DataverseSchema ---------------------------
(***************************************************************************)
(* The schema of one application's database (hr-dataverse, engine): the    *)
(* tables and constraints that PostgreSQL has, the metadata that describes *)
(* them, the version that counts the changes, and the GraphQL schema that  *)
(* is built from the metadata and cached under a version.                  *)
(*                                                                         *)
(* A step is one statement, and each commits by itself.  Names are already *)
(* valid; types, defaults, the position of a column and the strategy of    *)
(* the ids are left out, and a name of a table is also its slug.  A        *)
(* relation points to the id of its target.  The entries of one table are  *)
(* written, and read, by one step.                                         *)
(***************************************************************************)
EXTENDS Integers, FiniteSets

CONSTANTS
    Editors,        \* requests that change the schema, or serve it
    TableNames, Columns,
    MaxChanges,     \* bound: changes of the schema that begin
    MaxCuts         \* bound: statements that the connection fails

ASSUME SchemaAssumption ==
    /\ "none" \notin TableNames \cup Columns /\ IsFiniteSet(Editors)
    /\ MaxChanges \in Nat /\ MaxCuts \in Nat

VARIABLES
    real, armed, keys,              \* PostgreSQL: columns of each table, tables with the trigger
                                    \* that counts versions, foreign keys
    tables, columns, relations,     \* _dv_tables, _dv_columns, _dv_relations
    version, journal,               \* _dv_meta and the length of _dv_migrations
    cache,                          \* the GraphQL schema that is cached, and its version
    ask,                            \* of each editor: its step, its change, what it has read
    begun, cuts,
    torn, overlapped                \* history: a change ended after its first statement and before
                                    \* its last; a removal overlapped with a change of the same table

database == <<real, armed, keys>>
metadata == <<tables, columns, relations>>
counts == <<version, journal>>
marks == <<torn, overlapped>>
schemaVars == <<database, metadata, counts, cache, ask, begun, cuts, marks>>

None == "none"
Nothing == [version |-> 0, tables |-> {}, columns |-> {}]
NoChange == [pc |-> "idle", op |-> None, table |-> None, column |-> None, target |-> None,
             seen |-> Nothing]

\* A new database, or one in which a table was created.
SchemaInit ==
    /\ tables \in {{}} \cup {{t} : t \in TableNames} /\ columns = {} /\ relations = {}
    /\ real = [t \in tables |-> {}] /\ armed = tables /\ keys = {}
    /\ journal = Cardinality(tables) /\ version = journal + 1 /\ cache = Nothing
    /\ ask = [c \in Editors |-> NoChange]
    /\ begun = 0 /\ cuts = 0 /\ torn = FALSE /\ overlapped = FALSE

ChangeAt(c, op, step) == ask[c].op = op /\ ask[c].pc = step
ChangeGo(c, step) ==
    ask' = [ask EXCEPT ![c] = IF step = "idle" THEN NoChange ELSE [@ EXCEPT !.pc = step]]

Exists(t) == t \in DOMAIN real
HasColumn(t, k) == Exists(t) /\ k \in real[t]
Key(r) == [from |-> r.table, column |-> r.column, to |-> r.target]
\* What ADD CONSTRAINT asks for; the name of a constraint is made of the table and the column.
MayAddKey(r) ==
    /\ HasColumn(r.table, r.column) /\ Exists(r.target)
    /\ \A k \in keys : ~(k.from = r.table /\ k.column = r.column)

-----------------------------------------------------------------------------
(* A change begins.                                                        *)

Changing(c) == ask[c].pc # "idle" /\ ask[c].op # "serve"
Removes(op) == op \in {"drop", "remove"}
Concerns(r) == {r.table, r.target} \ {None}

BeginChange(c, r) ==
    /\ ask[c].pc = "idle"
    /\ begun < MaxChanges /\ begun' = begun + 1
    /\ ask' = [ask EXCEPT ![c] = r]
    /\ overlapped' = (overlapped \/ \E d \in Editors \ {c} :
            /\ Changing(d) /\ (Removes(ask[d].op) \/ Removes(r.op))
            /\ Concerns(ask[d]) \cap Concerns(r) # {})
    /\ UNCHANGED <<database, metadata, counts, cache, cuts, torn>>

ChangeOf(op, t, k, u) ==
    [NoChange EXCEPT !.pc = IF op = "remove" THEN "ddl" ELSE "check", !.op = op, !.table = t,
                 !.column = k, !.target = u]

\* A table has one column at first, a lookup of another table or not, or none.
BeginCreate(c, t) ==
    \E k \in Columns \cup {None}, u \in TableNames \cup {None} :
        (u # None => k # None) /\ BeginChange(c, ChangeOf("create", t, k, u))
BeginAdd(c, t, k) == \E u \in TableNames \cup {None} : BeginChange(c, ChangeOf("add", t, k, u))
BeginRelate(c, t, k, u) == BeginChange(c, ChangeOf("relate", t, k, u))
BeginDrop(c, t) == BeginChange(c, ChangeOf("drop", t, None, None))
BeginRemove(c, t, k) == BeginChange(c, ChangeOf("remove", t, k, None))

\* What each change looks for in the metadata; the code that finds it missing answers with an error.
Valid(r) ==
    CASE r.op = "create" -> r.table \notin tables /\ r.target \in tables \cup {None, r.table}
      [] r.op = "add"    -> r.table \in tables
      [] r.op = "drop"   -> r.table \in tables
      [] r.op = "relate" -> /\ {r.table, r.target} \subseteq tables
                              /\ <<r.table, r.column>> \in columns

Check(c) ==
    /\ Changing(c) /\ ask[c].pc = "check"
    /\ ChangeGo(c, IF ~Valid(ask[c]) THEN "idle" ELSE IF ask[c].op = "relate" THEN "key" ELSE "ddl")
    /\ UNCHANGED <<database, metadata, counts, cache, begun, cuts, marks>>

-----------------------------------------------------------------------------
(* The statements of the changes.  One that PostgreSQL refuses ends the     *)
(* request.                                                                 *)

\* Mutant: the table is listed before its trigger is made.
MakeTable_EnlistsFirst(c) ==
    LET r == ask[c] IN
    /\ ChangeAt(c, "create", "ddl")
    /\ IF Exists(r.table)
       THEN ChangeGo(c, "idle") /\ UNCHANGED <<real, tables>>
       ELSE /\ real' = [t \in DOMAIN real \cup {r.table} |->
                           IF t = r.table THEN {r.column} \ {None} ELSE real[t]]
            /\ tables' = tables \cup {r.table}
            /\ ChangeGo(c, "trigger")
    /\ UNCHANGED <<armed, keys, columns, relations, counts, cache, begun, cuts, marks>>

MakeTable(c) ==
    LET r == ask[c] IN
    /\ ChangeAt(c, "create", "ddl")
    /\ IF Exists(r.table)
       THEN ChangeGo(c, "idle") /\ UNCHANGED real
       ELSE /\ real' = [t \in DOMAIN real \cup {r.table} |->
                           IF t = r.table THEN {r.column} \ {None} ELSE real[t]]
            /\ ChangeGo(c, "trigger")
    /\ UNCHANGED <<armed, keys, metadata, counts, cache, begun, cuts, marks>>

\* The trigger, and the index of the rows that are not deleted.
CreateTrigger(c) ==
    LET t == ask[c].table IN
    /\ ChangeAt(c, "create", "trigger")
    /\ IF Exists(t) /\ t \notin armed
       THEN armed' = armed \cup {t} /\ ChangeGo(c, "table")
       ELSE UNCHANGED armed /\ ChangeGo(c, "idle")
    /\ UNCHANGED <<real, keys, metadata, counts, cache, begun, cuts, marks>>

EnlistTable(c) ==
    LET t == ask[c].table IN
    /\ ChangeAt(c, "create", "table")
    /\ IF t \in tables THEN ChangeGo(c, "idle") /\ UNCHANGED tables
       ELSE /\ tables' = tables \cup {t}
            /\ ChangeGo(c, IF ask[c].column = None THEN "bump" ELSE "column")
    /\ UNCHANGED <<database, columns, relations, counts, cache, begun, cuts, marks>>

AddColumn(c) ==
    LET r == ask[c] IN
    /\ ChangeAt(c, "add", "ddl")
    /\ IF Exists(r.table) /\ r.column \notin real[r.table]
       THEN real' = [real EXCEPT ![r.table] = @ \cup {r.column}] /\ ChangeGo(c, "column")
       ELSE UNCHANGED real /\ ChangeGo(c, "idle")
    /\ UNCHANGED <<armed, keys, metadata, counts, cache, begun, cuts, marks>>

\* insert_column_metadata
ListColumn(c) ==
    LET r == ask[c] IN
    /\ ask[c].pc = "column"
    /\ IF <<r.table, r.column>> \in columns
       THEN ChangeGo(c, "idle") /\ UNCHANGED columns
       ELSE /\ columns' = columns \cup {<<r.table, r.column>>}
            /\ ChangeGo(c, IF r.target = None THEN "bump" ELSE "key")
    /\ UNCHANGED <<database, tables, relations, counts, cache, begun, cuts, marks>>

\* add_column does not look for the target of a lookup: the foreign key is refused after the column
\* was made and listed, and the change ends without a new version.
AddKey(c) ==
    /\ ask[c].pc = "key"
    /\ IF MayAddKey(ask[c])
       THEN keys' = keys \cup {Key(ask[c])} /\ ChangeGo(c, "relation") /\ UNCHANGED torn
       ELSE UNCHANGED keys /\ ChangeGo(c, "idle") /\ torn' = (torn \/ ask[c].op # "relate")
    /\ UNCHANGED <<real, armed, metadata, counts, cache, begun, cuts, overlapped>>

\* insert_relation_metadata: ON CONFLICT DO NOTHING
ListRelation(c) ==
    /\ ask[c].pc = "relation"
    /\ relations' = relations \cup {Key(ask[c])} /\ ChangeGo(c, "bump")
    /\ UNCHANGED <<database, tables, columns, counts, cache, begun, cuts, marks>>

\* DROP TABLE IF EXISTS .. CASCADE: the foreign keys from and to the table go with it.
DropTable(c) ==
    LET t == ask[c].table IN
    /\ ChangeAt(c, "drop", "ddl")
    /\ real' = [u \in DOMAIN real \ {t} |-> real[u]]
    /\ armed' = armed \ {t}
    /\ keys' = {k \in keys : t \notin {k.from, k.to}}
    /\ ChangeGo(c, "columns")
    /\ UNCHANGED <<metadata, counts, cache, begun, cuts, marks>>

UnlistColumns(c) ==
    /\ ChangeAt(c, "drop", "columns") /\ ChangeGo(c, "relations")
    /\ columns' = {k \in columns : k[1] # ask[c].table}
    /\ UNCHANGED <<database, tables, relations, counts, cache, begun, cuts, marks>>

\* Mutant: only the relations from the table.
UnlistRelations_From(c) ==
    /\ ChangeAt(c, "drop", "relations") /\ ChangeGo(c, "table")
    /\ relations' = {k \in relations : ask[c].table # k.from}
    /\ UNCHANGED <<database, tables, columns, counts, cache, begun, cuts, marks>>

UnlistRelations(c) ==
    /\ ChangeAt(c, "drop", "relations") /\ ChangeGo(c, "table")
    /\ relations' = {k \in relations : ask[c].table \notin {k.from, k.to}}
    /\ UNCHANGED <<database, tables, columns, counts, cache, begun, cuts, marks>>

UnlistTable(c) ==
    /\ ChangeAt(c, "drop", "table") /\ ChangeGo(c, "bump")
    /\ tables' = tables \ {ask[c].table}
    /\ UNCHANGED <<database, columns, relations, counts, cache, begun, cuts, marks>>

\* ALTER TABLE .. DROP COLUMN IF EXISTS .. CASCADE
RemoveColumn(c) ==
    LET r == ask[c] IN
    /\ ChangeAt(c, "remove", "ddl")
    /\ IF Exists(r.table)
       THEN /\ real' = [real EXCEPT ![r.table] = @ \ {r.column}]
            /\ keys' = {k \in keys : ~(k.from = r.table /\ k.column = r.column)}
            /\ ChangeGo(c, "columns")
       ELSE UNCHANGED <<real, keys>> /\ ChangeGo(c, "idle")
    /\ UNCHANGED <<armed, metadata, counts, cache, begun, cuts, marks>>

UnlistColumn(c) ==
    /\ ChangeAt(c, "remove", "columns") /\ ChangeGo(c, "relations")
    /\ columns' = columns \ {<<ask[c].table, ask[c].column>>}
    /\ UNCHANGED <<database, tables, relations, counts, cache, begun, cuts, marks>>

UnlistRelation(c) ==
    /\ ChangeAt(c, "remove", "relations") /\ ChangeGo(c, "bump")
    /\ relations' = {k \in relations : ~(k.from = ask[c].table /\ k.column = ask[c].column)}
    /\ UNCHANGED <<database, tables, columns, counts, cache, begun, cuts, marks>>

\* Mutant: the version that the check read is raised.
Bump_Stale(c) ==
    /\ Changing(c) /\ ask[c].pc = "bump"
    /\ version' = IF \E d \in Editors \ {c} : Changing(d) /\ ask[d].pc = "journal"
                  THEN version ELSE version + 1
    /\ ChangeGo(c, "journal")
    /\ UNCHANGED <<database, metadata, journal, cache, begun, cuts, marks>>

\* bump_schema_version: one UPDATE
Bump(c) ==
    /\ Changing(c) /\ ask[c].pc = "bump"
    /\ version' = version + 1 /\ ChangeGo(c, "journal")
    /\ UNCHANGED <<database, metadata, journal, cache, begun, cuts, marks>>

\* Mutant: a change is journaled as one of the table and as one of its column.
Journal_Both(c) ==
    /\ Changing(c) /\ ask[c].pc = "journal"
    /\ journal' = journal + 2 /\ ChangeGo(c, "idle")
    /\ UNCHANGED <<database, metadata, version, cache, begun, cuts, marks>>

\* journal_migration: one INSERT
Journal(c) ==
    /\ Changing(c) /\ ask[c].pc = "journal"
    /\ journal' = journal + 1 /\ ChangeGo(c, "idle")
    /\ UNCHANGED <<database, metadata, version, cache, begun, cuts, marks>>

-----------------------------------------------------------------------------
(* graphql_schema.                                                         *)

\* The version, and a look into the cache.
Serve(c) ==
    /\ ask[c].pc = "idle" /\ cache.version # version
    /\ ask' = [ask EXCEPT ![c] = [NoChange EXCEPT !.pc = "tables", !.op = "serve",
                                  !.seen = [Nothing EXCEPT !.version = version]]]
    /\ UNCHANGED <<database, metadata, counts, cache, begun, cuts, marks>>

\* get_schema: the tables, then the columns of each of them
ReadTables(c) ==
    /\ ChangeAt(c, "serve", "tables")
    /\ ask' = [ask EXCEPT ![c].pc = "columns", ![c].seen.tables = tables]
    /\ UNCHANGED <<database, metadata, counts, cache, begun, cuts, marks>>

ReadColumns(c) ==
    /\ ChangeAt(c, "serve", "columns")
    /\ ask' = [ask EXCEPT ![c].pc = "put",
                          ![c].seen.columns = {k \in columns : k[1] \in ask[c].seen.tables}]
    /\ UNCHANGED <<database, metadata, counts, cache, begun, cuts, marks>>

\* Mutant: the schema is cached under the version that get_schema read after it.
Put_LateVersion(c) ==
    /\ ChangeAt(c, "serve", "put") /\ ChangeGo(c, "idle")
    /\ cache' = [ask[c].seen EXCEPT !.version = version]
    /\ UNCHANGED <<database, metadata, counts, begun, cuts, marks>>

Put(c) ==
    /\ ChangeAt(c, "serve", "put") /\ ChangeGo(c, "idle")
    /\ cache' = ask[c].seen
    /\ UNCHANGED <<database, metadata, counts, begun, cuts, marks>>

-----------------------------------------------------------------------------
\* The connection fails a statement: the request ends where it is.
Fails(c) ==
    /\ ask[c].pc # "idle"
    /\ cuts < MaxCuts /\ cuts' = cuts + 1
    /\ ChangeGo(c, "idle")
    /\ torn' = (torn \/ (Changing(c) /\ ask[c].pc \notin {"check", "ddl"}
                              /\ ~(ask[c].op = "relate" /\ ask[c].pc = "key")))
    /\ UNCHANGED <<database, metadata, counts, cache, begun, overlapped>>

SchemaNext ==
    \/ \E c \in Editors :
        \/ \E t \in TableNames :
            \/ BeginCreate(c, t) \/ BeginDrop(c, t)
            \/ \E k \in Columns : BeginAdd(c, t, k) \/ BeginRemove(c, t, k)
            \/ \E k \in Columns, u \in TableNames : BeginRelate(c, t, k, u)
        \/ Check(c)
        \/ MakeTable(c) \/ CreateTrigger(c) \/ EnlistTable(c)
        \/ AddColumn(c) \/ ListColumn(c) \/ AddKey(c) \/ ListRelation(c)
        \/ DropTable(c) \/ UnlistColumns(c) \/ UnlistRelations(c) \/ UnlistTable(c)
        \/ RemoveColumn(c) \/ UnlistColumn(c) \/ UnlistRelation(c)
        \/ Bump(c) \/ Journal(c)
        \/ Serve(c) \/ ReadTables(c) \/ ReadColumns(c) \/ Put(c) \/ Fails(c)

SchemaSpec == SchemaInit /\ [][SchemaNext]_schemaVars

-----------------------------------------------------------------------------
AllKeys == [from : TableNames, column : Columns, to : TableNames]
Snapshots == [version : Nat, tables : SUBSET TableNames, columns : SUBSET (TableNames \X Columns)]

SchemaTypeOK ==
    /\ DOMAIN real \subseteq TableNames /\ \A t \in DOMAIN real : real[t] \subseteq Columns
    /\ armed \subseteq DOMAIN real /\ keys \subseteq AllKeys
    /\ tables \subseteq TableNames /\ columns \subseteq TableNames \X Columns
    /\ relations \subseteq AllKeys
    /\ version \in 1..(MaxChanges + 2) /\ journal \in 0..(MaxChanges + 1) /\ cache \in Snapshots
    /\ \A c \in Editors : ask[c].seen \in Snapshots

SchemaQuiet == \A c \in Editors : ~Changing(c)

\* When no change is under way the metadata is what the database has - tables, columns and foreign
\* keys -, unless a change was cut off or a removal overlapped with a change of the same table:
\* in particular whatever else runs at the same time, on the same table too.
MetadataIsReal ==
    (SchemaQuiet /\ ~torn /\ ~overlapped) =>
        /\ tables = DOMAIN real
        /\ columns = UNION {{t} \X real[t] : t \in DOMAIN real}
        /\ relations = keys

\* The GraphQL schema that is cached under the version in force is the one the metadata describes,
\* although it was read by several statements and may be put long after.
ServedIsCurrent ==
    (SchemaQuiet /\ ~torn /\ ~overlapped /\ cache.version = version) =>
        cache.tables = tables /\ cache.columns = {k \in columns : k[1] \in tables}

\* A table that is listed counts the versions of its rows, even when its creation was cut off.
ListedIsArmed == ~overlapped => tables \cap DOMAIN real \subseteq armed

\* No change is lost from the version or from the journal.
VersionCountsChanges == (SchemaQuiet /\ ~torn) => version = journal + 1

\* The four tables of metadata, the triggers and the cached schema say what the database has.
SchemaIsReal == MetadataIsReal /\ ListedIsArmed /\ VersionCountsChanges /\ ServedIsCurrent
=============================================================================
