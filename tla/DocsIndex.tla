------------------------------- MODULE DocsIndex -------------------------------
(* The documentation of one application (hr-docs): one file per entry, at most one diagram per entry,
   and the search index in SQLite, whose rows (doc_entries) and words (doc_fts) are two tables written
   by statements that commit one at a time.  The tools of the orchestrator write the files and then
   the index; they run on several threads and nothing orders two calls on one entry except the mutex
   of the index.  At its start the orchestrator migrates the directory and rebuilds the index if it
   has no row.

   A text is a number: 0 is what is read from a file that was truncated and not yet written. *)
EXTENDS Integers, FiniteSets

CONSTANTS
    Callers,       \* concurrent calls of the docs tools
    DocEntries,       \* names of entries besides the overview
    MaxTexts,      \* bound: updates
    MaxDiagrams,   \* bound: diagrams set
    MaxFaults      \* bound: deaths of the process and failed statements

Startup == "start"   \* the actor that is not a caller

ASSUME DocsAssumption ==
    /\ MaxTexts \in Nat /\ MaxDiagrams \in Nat /\ MaxFaults \in Nat
    /\ Startup \notin Callers

VARIABLES
    files,     \* entry -> its text and its "diagram" flag, or Missing
    drawn,     \* the entries that have a diagram file
    meta,      \* meta.json: "nodir", "none", "old", "torn" or "v2"
    rows,      \* doc_entries: entry -> what was indexed, or Missing
    words,     \* doc_fts: entry -> the text whose words were indexed, or Missing
    phase,     \* "down", "boot" or "up"
    indexed,   \* the orchestrator opened the index (docs_index is Some)
    call,      \* actor -> the call, or the start, in progress
    texts, diagrams, faults,
    \* history: entries whose index may be behind their file; whose two tables may differ; that two
    \* calls, or a call and a fault, handled together
    behind, halved, crossed

docsVars == <<files, drawn, meta, rows, words, phase, indexed, call, texts, diagrams, faults, behind,
              halved, crossed>>

Overview == "overview"
All      == DocEntries \cup {Overview}
Workers  == Callers \cup {Startup}
Missing  == [text |-> -1, flag |-> FALSE]
EmptyText == [text |-> 0, flag |-> FALSE]
Holder   == [text |-> MaxTexts + 1, flag |-> FALSE]   \* the overview the migration writes
Contents == [text : 0..MaxTexts + 1, flag : BOOLEAN]
NoCall   == [op |-> "none", at |-> "idle", e |-> Overview, new |-> EmptyText, todo |-> {}, alone |-> TRUE]

\* Statements executed while the mutex of the index is held.
InIndex   == {"unword", "word", "unindex"}
IndexFree == \A a \in Workers : call[a].at \notin InIndex
Handlers(e) == {a \in Workers : call[a].at # "idle" /\ call[a].e = e}
Written   == {e \in All : files[e] # Missing}

DocsTypeOK ==
    /\ files \in [All -> Contents \cup {Missing}]
    /\ drawn \subseteq All
    /\ meta \in {"nodir", "none", "old", "torn", "v2"}
    /\ rows \in [All -> Contents \cup {Missing}]
    /\ words \in [All -> -1..MaxTexts + 1]
    /\ phase \in {"down", "boot", "up"} /\ indexed \in BOOLEAN
    /\ call \in [Workers -> [op : {"none", "update", "diagram", "delete", "migrate", "rebuild"},
                            at : InIndex \cup {"idle", "truncate", "fill", "read", "reread", "row",
                                               "unlink", "undraw", "unrow", "meta", "stamp",
                                               "open", "wipe", "next"},
                            e : All, new : Contents, todo : SUBSET All, alone : BOOLEAN]]
    /\ texts \in 0..MaxTexts /\ diagrams \in 0..MaxDiagrams /\ faults \in 0..MaxFaults
    /\ behind \cup halved \cup crossed \subseteq All

\* A new installation, or the directory of an earlier version, which may have an overview.
DocsInit ==
    /\ meta \in {"nodir", "old"}
    /\ files \in [All -> {Missing, EmptyText, Holder}]
    /\ \A e \in All : files[e] # Missing => meta = "old" /\ e = Overview
    /\ drawn = {} /\ rows = [e \in All |-> Missing] /\ words = [e \in All |-> -1]
    /\ phase = "down" /\ indexed = FALSE /\ call = [a \in Workers |-> NoCall]
    /\ texts = 0 /\ diagrams = 0 /\ faults = 0
    /\ behind = All /\ halved = {} /\ crossed = {}

Stands(a, at) == call[a].at = at
Moves(a, at)  == call' = [call EXCEPT ![a].at = at]
Limits     == <<texts, diagrams, faults>>
History    == <<behind, halved, crossed>>
Index      == <<rows, words>>
Files      == <<files, drawn, meta>>
Life       == <<phase, indexed>>

\* A call on an entry that another call handles: neither is alone any more.
Handle(c, op, e, at, new) ==
    /\ phase = "up" /\ Stands(c, "idle")
    /\ call' = [a \in Workers |->
         IF a = c THEN [NoCall EXCEPT !.op = op, !.at = at, !.e = e, !.new = new,
                                      !.alone = (Handlers(e) = {})]
         ELSE IF a \in Handlers(e) THEN [call[a] EXCEPT !.alone = FALSE] ELSE call[a]]
    /\ crossed' = IF Handlers(e) = {} THEN crossed ELSE crossed \cup {e}

\* A call that wrote the index last leaves it level with the file if no other call came across.
Settles(a) == behind' = IF call[a].alone THEN behind \ {call[a].e} ELSE behind \cup {call[a].e}
Finish(a)  == call' = [call EXCEPT ![a] = NoCall]

-----------------------------------------------------------------------------
(* The tools *)

\* docs.update: directory and meta.json are made if absent; the flag is read from the disk.
Update(c, e) ==
    /\ texts < MaxTexts /\ texts' = texts + 1
    /\ Handle(c, "update", e, "truncate", [text |-> texts + 1, flag |-> e \in drawn])
    /\ meta' = IF meta \in {"nodir", "none"} THEN "v2" ELSE meta
    /\ UNCHANGED <<files, drawn, Index, Life, diagrams, faults, behind, halved>>

\* Mutant: the diagram's file is left to the entry.
DiagramSet_EntryOnly(c, e) ==
    /\ diagrams < MaxDiagrams /\ diagrams' = diagrams + 1
    /\ Handle(c, "diagram", e, "read", EmptyText)
    /\ meta' = IF meta = "nodir" THEN "none" ELSE meta
    /\ UNCHANGED <<files, drawn, Index, Life, texts, faults, behind, halved>>

\* docs.diagram_set: the diagram is written first, whether the entry exists or not.
DiagramSet(c, e) ==
    /\ diagrams < MaxDiagrams /\ diagrams' = diagrams + 1
    /\ Handle(c, "diagram", e, "read", EmptyText)
    /\ drawn' = drawn \cup {e}
    /\ meta' = IF meta = "nodir" THEN "none" ELSE meta
    /\ UNCHANGED <<files, Index, Life, texts, faults, behind, halved>>

\* write_diagram then reads the entry, to write it back with the flag; without one it does nothing more.
ReadEntry(c) ==
    /\ Stands(c, "read")
    /\ LET file == files[call[c].e]
       IN  IF file = Missing THEN Moves(c, "reread")
           ELSE call' = [call EXCEPT ![c].at = "truncate", ![c].new = [file EXCEPT !.flag = TRUE]]
    /\ UNCHANGED <<Files, Index, Life, Limits, History>>

\* The tool reads the entry once more, for the index.
ReadAgain(c) ==
    /\ Stands(c, "reread")
    /\ LET file == files[call[c].e]
       IN  IF file = Missing \/ ~indexed
           THEN Finish(c) /\ behind' = IF file = Missing THEN behind ELSE behind \cup {call[c].e}
           ELSE behind' = behind /\ call' = [call EXCEPT ![c].at = "row", ![c].new = file]
    /\ UNCHANGED <<Files, Index, Life, Limits, halved, crossed>>

\* docs.delete of an entry that exists; of one that does not it answers "not deleted" and does nothing.
Delete(c, e) ==
    /\ e # Overview /\ files[e] # Missing
    /\ Handle(c, "delete", e, "unlink", EmptyText)
    /\ UNCHANGED <<Files, Index, Life, Limits, behind, halved>>

\* Removing a file that another call removed meanwhile fails, and ends the call.
Unlink(c) ==
    /\ Stands(c, "unlink")
    /\ IF files[call[c].e] = Missing THEN Finish(c) ELSE Moves(c, "undraw")
    /\ files' = [files EXCEPT ![call[c].e] = Missing]
    /\ UNCHANGED <<drawn, meta, Index, Life, Limits, History>>

Undraw(c) ==
    /\ Stands(c, "undraw") /\ drawn' = drawn \ {call[c].e}
    /\ IF indexed THEN Moves(c, "unrow") /\ behind' = behind
       ELSE Finish(c) /\ behind' = behind \cup {call[c].e}
    /\ UNCHANGED <<files, meta, Index, Life, Limits, halved, crossed>>

-----------------------------------------------------------------------------
(* Writing a file and writing the index *)

\* std::fs::write empties the file first.
Truncate(a) ==
    /\ Stands(a, "truncate") /\ Moves(a, "fill")
    /\ files' = [files EXCEPT ![call[a].e] = EmptyText]
    /\ UNCHANGED <<drawn, meta, Index, Life, Limits, History>>

FillFile(a) ==
    /\ Stands(a, "fill")
    /\ files' = [files EXCEPT ![call[a].e] = call[a].new]
    /\ CASE call[a].op = "migrate" -> Moves(a, "open") /\ behind' = behind
         [] call[a].op = "diagram" -> Moves(a, "reread") /\ behind' = behind
         [] call[a].op = "update" /\ indexed -> Moves(a, "row") /\ behind' = behind
         [] OTHER -> Finish(a) /\ behind' = behind \cup {call[a].e}
    /\ UNCHANGED <<drawn, meta, Index, Life, Limits, halved, crossed>>

\* Mutant: the statements of an upsert are not under the mutex.
PutRow_Unlocked(a) ==
    /\ Stands(a, "row") /\ Moves(a, "unword")
    /\ rows' = [rows EXCEPT ![call[a].e] = call[a].new]
    /\ UNCHANGED <<Files, words, Life, Limits, History>>

\* upsert: the row, then the words are deleted, then inserted.
PutRow(a) ==
    /\ Stands(a, "row") /\ IndexFree /\ Moves(a, "unword")
    /\ rows' = [rows EXCEPT ![call[a].e] = call[a].new]
    /\ UNCHANGED <<Files, words, Life, Limits, History>>

DropWords(a) ==
    /\ Stands(a, "unword") /\ Moves(a, "word")
    /\ words' = [words EXCEPT ![call[a].e] = -1]
    /\ UNCHANGED <<Files, rows, Life, Limits, History>>

PutWords(a) ==
    /\ Stands(a, "word")
    /\ words' = [words EXCEPT ![call[a].e] = call[a].new.text]
    /\ halved' = halved \ {call[a].e} /\ Settles(a)
    /\ IF a = Startup THEN Moves(a, "next") ELSE Finish(a)
    /\ UNCHANGED <<Files, rows, Life, Limits, crossed>>

\* Index::remove, after a deletion.
DropRow(c) ==
    /\ Stands(c, "unrow") /\ IndexFree /\ Moves(c, "unindex")
    /\ rows' = [rows EXCEPT ![call[c].e] = Missing]
    /\ UNCHANGED <<Files, words, Life, Limits, History>>

\* Mutant: only the row is removed.
DropEntry_KeepsWords(c) ==
    /\ Stands(c, "unindex") /\ Finish(c)
    /\ halved' = halved \ {call[c].e} /\ Settles(c)
    /\ UNCHANGED <<Files, Index, Life, Limits, crossed>>

DropEntry(c) ==
    /\ Stands(c, "unindex") /\ Finish(c)
    /\ words' = [words EXCEPT ![call[c].e] = -1]
    /\ halved' = halved \ {call[c].e} /\ Settles(c)
    /\ UNCHANGED <<Files, rows, Life, Limits, crossed>>

\* A statement fails: a tool logs it and answers success; at the start there is no index from then on.
IndexFails(a) ==
    /\ Stands(a, "row") \/ Stands(a, "unrow") \/ call[a].at \in InIndex
    /\ faults < MaxFaults /\ faults' = faults + 1
    /\ Finish(a)
    /\ phase' = IF a = Startup THEN "up" ELSE phase
    /\ behind' = behind \cup {call[a].e} \cup call[a].todo
    /\ halved' = IF call[a].at \in InIndex THEN halved \cup {call[a].e} ELSE halved
    /\ UNCHANGED <<Files, Index, indexed, texts, diagrams, crossed>>

-----------------------------------------------------------------------------
(* The start of the orchestrator, and its death *)

\* run_all: a directory whose meta.json is absent, of an earlier version or unreadable is migrated.
Boot ==
    /\ phase = "down" /\ phase' = "boot" /\ indexed' = FALSE
    /\ call' = [call EXCEPT ![Startup] =
         [NoCall EXCEPT !.op = "migrate", !.at = IF meta \in {"nodir", "v2"} THEN "open" ELSE "meta"]]
    /\ UNCHANGED <<Files, Index, Limits, History>>

\* The files of the earlier version are removed and meta.json is written.
WriteMeta ==
    /\ Stands(Startup, "meta") /\ meta' = "torn" /\ Moves(Startup, "stamp")
    /\ UNCHANGED <<files, drawn, Index, Life, Limits, History>>

\* Mutant: the overview is written whether there is one or not.
StampMeta_Always ==
    /\ Stands(Startup, "stamp") /\ meta' = "v2"
    /\ call' = [call EXCEPT ![Startup].at = "truncate", ![Startup].new = Holder]
    /\ UNCHANGED <<files, drawn, Index, Life, Limits, History>>

\* An overview is written only where there is none.
StampMeta ==
    /\ Stands(Startup, "stamp") /\ meta' = "v2"
    /\ IF files[Overview] = Missing
       THEN call' = [call EXCEPT ![Startup].at = "truncate", ![Startup].new = Holder]
       ELSE Moves(Startup, "open")
    /\ UNCHANGED <<files, drawn, Index, Life, Limits, History>>

\* open_or_rebuild: only an index without any row is rebuilt.
OpenIndex ==
    /\ Stands(Startup, "open")
    /\ IF \A e \in All : rows[e] = Missing
       THEN /\ call' = [call EXCEPT ![Startup].op = "rebuild", ![Startup].at = "wipe",
                                    ![Startup].todo = Written]
            /\ UNCHANGED Life
       ELSE Finish(Startup) /\ phase' = "up" /\ indexed' = TRUE
    /\ UNCHANGED <<Files, Index, Limits, History>>

\* Mutant: the words of the earlier rows stay.
Wipe_RowsOnly ==
    /\ Stands(Startup, "wipe") /\ Moves(Startup, "next")
    /\ rows' = [e \in All |-> Missing]
    /\ behind' = Written /\ halved' = {}
    /\ UNCHANGED <<Files, words, Life, Limits, crossed>>

\* Everything is deleted; what the walk found is read and indexed, one entry after the other.
Wipe ==
    /\ Stands(Startup, "wipe") /\ Moves(Startup, "next")
    /\ rows' = [e \in All |-> Missing] /\ words' = [e \in All |-> -1]
    /\ behind' = Written /\ halved' = {}
    /\ UNCHANGED <<Files, Life, Limits, crossed>>

IndexNext ==
    /\ Stands(Startup, "next")
    /\ \E e \in call[Startup].todo :
         call' = [call EXCEPT ![Startup].at = "row", ![Startup].e = e, ![Startup].new = files[e],
                              ![Startup].todo = @ \ {e}]
    /\ UNCHANGED <<Files, Index, Life, Limits, History>>

Rebuilt ==
    /\ Stands(Startup, "next") /\ call[Startup].todo = {}
    /\ Finish(Startup) /\ phase' = "up" /\ indexed' = TRUE
    /\ UNCHANGED <<Files, Index, Limits, History>>

\* The process dies; what its calls were doing stays half done.
DocsDie ==
    /\ phase # "down" /\ faults < MaxFaults /\ faults' = faults + 1
    /\ phase' = "down" /\ call' = [a \in Workers |-> NoCall]
    /\ LET cut == {call[a].e : a \in {b \in Workers : call[b].at # "idle"}}
       IN  /\ behind' = behind \cup cut
           /\ crossed' = crossed \cup cut
           /\ halved' = halved \cup {call[a].e : a \in {b \in Workers : call[b].at \in InIndex}}
    /\ UNCHANGED <<Files, Index, indexed, texts, diagrams>>

DocsNext ==
    \/ \E c \in Callers :
         \/ \E e \in All : Update(c, e) \/ DiagramSet(c, e) \/ Delete(c, e)
         \/ ReadEntry(c) \/ ReadAgain(c) \/ Unlink(c) \/ Undraw(c) \/ DropRow(c) \/ DropEntry(c)
    \/ \E a \in Workers :
         Truncate(a) \/ FillFile(a) \/ PutRow(a) \/ DropWords(a) \/ PutWords(a) \/ IndexFails(a)
    \/ Boot \/ WriteMeta \/ StampMeta \/ OpenIndex \/ Wipe \/ IndexNext \/ Rebuilt \/ DocsDie

DocsSpec == DocsInit /\ [][DocsNext]_docsVars

-----------------------------------------------------------------------------
(* What search and the readers answer *)

Quiet(e) == phase = "up" /\ Handlers(e) = {}

(* fs.rs, index.rs, mcp.rs: whenever the orchestrator is up and no call handles an entry, the row and
   the words of the index are those of its file, so that every hit of a search can be opened and
   nothing written is missing: unless a fault, or a call that came across, interfered since the last
   undisturbed change of the entry or the last whole rebuild. *)
IndexFollows ==
    \A e \in All \ behind : Quiet(e) => rows[e] = files[e] /\ words[e] = files[e].text

(* index.rs (one mutex around the statements of an upsert or a removal): however many calls cross,
   the two tables of the index agree on every entry, except one where a fault cut a write short. *)
TablesAgree ==
    IndexFree => \A e \in All \ halved : words[e] = rows[e].text

(* fs.rs (write_entry, write_diagram, delete_entry): an entry that says that it has a diagram has
   one, unless calls or faults crossed on it. *)
FlagsHold ==
    \A e \in All \ crossed : Handlers(e) = {} /\ files[e].flag => e \in drawn

(* The three promises about the documentation. *)
DocsHold == IndexFollows /\ TablesAgree /\ FlagsHold

(* migrate.rs, main.rs: starting the orchestrator, as often as it dies, never loses or changes an
   entry that has a text. *)
BootKeepsDocs ==
    [][phase = "boot" => \A e \in All : files[e] \notin {Missing, EmptyText} => files'[e] = files[e]]_docsVars
=============================================================================
