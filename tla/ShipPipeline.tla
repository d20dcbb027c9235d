---------------------------- MODULE ShipPipeline ----------------------------
(***************************************************************************)
(* The build and ship pipelines of one application (apps_handler.rs, build *)
(* and ship) under their lock, with the events they emit, the artefacts    *)
(* they copy from CloudMaster, and the builds that an agent runs there     *)
(* without asking for the lock.  A step is one command of a stage.         *)
(*                                                                         *)
(* An artefact is the generation of the build that made it, 0 for one that *)
(* is absent.  Whether the process runs is left to AppSupervisor: the      *)
(* pipeline stops it and starts it, and goes on whatever comes of either.  *)
(* The step events, which only report progress, and the output of the      *)
(* stages are left out.                                                    *)
(***************************************************************************)
EXTENDS Integers, FiniteSets

CONSTANTS
    Calls,              \* calls of build and ship
    Artefacts,          \* what is copied, in any order
    Optional,           \* those with a question mark
    MaxBuilds,          \* bound: generations
    MaxFailures         \* bound: stages that fail, expired timeouts, deaths of the orchestrator

VARIABLES
    remote, local,      \* the generation of each artefact on CloudMaster, and where it is served
    lock,               \* who holds the lock of the slug
    pipeline,           \* of each call: its stage, what it has left to do, its last event
    agent,              \* artefacts that a build without the lock has yet to write there
    generation, failures,
    crossed             \* history: such a build was under way while a pipeline compiled or copied

shipVars == <<remote, local, lock, pipeline, agent, generation, failures, crossed>>

Nobody == "nobody"
Torn == -1
\* exit is the exit code of the answer: 0, 1, or -1 for a call that was refused or timed out; hung
\* is history: the client went away, and the call with it.
NoPipeline == [pc |-> "idle", op |-> "none", todo |-> {}, built |-> 0, said |-> "none", exit |-> 0,
         hung |-> FALSE]

ShipInit ==
    /\ remote = [a \in Artefacts |-> 1] /\ local = remote
    /\ lock = Nobody
    /\ pipeline = [c \in Calls |-> NoPipeline]
    /\ agent = {} /\ generation = 1 /\ failures = 0 /\ crossed = FALSE

InStage(c, stage) == pipeline[c].pc = stage
Go(c, stage) == pipeline' = [pipeline EXCEPT ![c].pc = stage]
Failing == failures < MaxFailures /\ failures' = failures + 1
\* The stages during which another writer on CloudMaster changes what this call serves.
Exposed(c) == pipeline[c].pc \in {"compile", "stop", "copy"}
\* into_result, into_result_ok: an answer with an exit code, whatever has happened.
Exit(c, code) == pipeline' = [pipeline EXCEPT ![c].pc = "answer", ![c].exit = code]

-----------------------------------------------------------------------------
\* try_lock: a call that finds the lock taken is refused, and emits nothing.
Start(c, op) ==
    /\ InStage(c, "idle")
    /\ IF lock = Nobody
       THEN /\ lock' = c
            /\ pipeline' = [pipeline EXCEPT
                    ![c] = [NoPipeline EXCEPT !.op = op, !.said = "started",
                                              !.pc = IF op = "build" THEN "upload" ELSE "stop"]]
       ELSE /\ UNCHANGED lock
            /\ pipeline' = [pipeline EXCEPT ![c] = [NoPipeline EXCEPT !.op = op, !.exit = -1]]
    /\ UNCHANGED <<remote, local, agent, generation, failures, crossed>>

\* ssh probe, mkdir and rsync up; none of them when the sources are on CloudMaster.
Upload(c) ==
    /\ InStage(c, "upload")
    /\ \/ Go(c, "compile") /\ UNCHANGED failures
       \/ Failing /\ Exit(c, 1)
    /\ UNCHANGED <<remote, local, lock, agent, generation, crossed>>

\* The build command; an optional artefact may not be among what it makes.  (With no generation
\* left it can only fail.)
Compile(c) ==
    /\ InStage(c, "compile")
    /\ \/ /\ generation < MaxBuilds /\ generation' = generation + 1
          /\ remote' \in {r \in [Artefacts -> {0, generation'}] :
                            \A a \in Artefacts \ Optional : r[a] = generation'}
          /\ pipeline' = [pipeline EXCEPT ![c].pc = "stop", ![c].built = generation']
          /\ UNCHANGED failures
       \/ /\ IF generation < MaxBuilds THEN Failing ELSE UNCHANGED failures
          /\ Exit(c, 1) /\ UNCHANGED <<remote, generation>>
    /\ crossed' = (crossed \/ agent # {})
    /\ UNCHANGED <<local, lock, agent>>

\* The stop before the copy; the pipeline goes on when it fails.
Stop(c) ==
    /\ InStage(c, "stop")
    /\ pipeline' = [pipeline EXCEPT ![c].pc = "copy", ![c].todo = Artefacts]
    /\ crossed' = (crossed \/ agent # {})
    /\ UNCHANGED <<remote, local, lock, agent, generation, failures>>

\* Mutant: an optional artefact that is absent ends the loop.
Copy_Breaks(c, a) ==
    /\ InStage(c, "copy") /\ a \in pipeline[c].todo
    /\ pipeline' = [pipeline EXCEPT ![c].todo = IF remote[a] = 0 /\ a \in Optional THEN {} ELSE @ \ {a}]
    /\ local' = IF remote[a] = 0 THEN local ELSE [local EXCEPT ![a] = remote[a]]
    /\ UNCHANGED <<remote, lock, agent, generation, failures, crossed>>

\* test -e, test -d and rsync down of one artefact.  One that is absent is passed over if it is
\* optional, and so is one whose test fails; what an rsync that fails has copied stays.
Copy(c, a) ==
    /\ InStage(c, "copy") /\ a \in pipeline[c].todo
    /\ \/ /\ remote[a] # 0
          /\ local' = [local EXCEPT ![a] = remote[a]]
          /\ pipeline' = [pipeline EXCEPT ![c].todo = @ \ {a}]
          /\ UNCHANGED failures
       \/ /\ remote[a] = 0
          /\ IF a \in Optional THEN pipeline' = [pipeline EXCEPT ![c].todo = @ \ {a}] ELSE Exit(c, 1)
          /\ UNCHANGED <<local, failures>>
       \/ /\ Failing /\ a \in Optional
          /\ pipeline' = [pipeline EXCEPT ![c].todo = @ \ {a}]
          /\ UNCHANGED local
       \/ /\ Failing /\ Exit(c, 1)
          /\ local' \in {local, [local EXCEPT ![a] = Torn]}
    /\ UNCHANGED <<remote, lock, agent, generation, crossed>>

\* The start after the copy, whose failure is only reported.
Restart(c) ==
    /\ InStage(c, "copy") /\ pipeline[c].todo = {}
    /\ Exit(c, 0)
    /\ UNCHANGED <<remote, local, lock, agent, generation, failures, crossed>>

\* kill_on_drop ends the ssh of a build command; the command goes on at the other end.
LeftBehind(compiling) ==
    \/ UNCHANGED <<agent, generation>>
    \/ /\ compiling /\ agent = {} /\ generation < MaxBuilds
       /\ generation' = generation + 1 /\ agent' = Artefacts

\* The timeout around the pipeline drops it, with the command that runs here.
TimeOut(c) ==
    /\ pipeline[c].pc \in {"upload", "compile", "stop", "copy"} /\ Failing
    /\ Exit(c, -1)
    /\ local' \in {local} \cup {[local EXCEPT ![a] = Torn] : a \in pipeline[c].todo}
    /\ LeftBehind(InStage(c, "compile"))
    /\ UNCHANGED <<remote, lock, crossed>>

\* A client of POST /mcp goes away: the server drops its build as a timeout does, but nobody is left
\* to say how it ended.
HangUp(c) ==
    /\ ~InStage(c, "idle") /\ pipeline[c].op = "build" /\ pipeline[c].said = "started" /\ Failing
    /\ lock' = Nobody
    /\ pipeline' = [pipeline EXCEPT ![c].pc = "idle", ![c].todo = {}, ![c].hung = TRUE]
    /\ local' \in {local} \cup {[local EXCEPT ![a] = Torn] : a \in pipeline[c].todo}
    /\ LeftBehind(InStage(c, "compile"))
    /\ UNCHANGED <<remote, crossed>>

\* The last event: build looks at the exit code of the answer, ship at whether there is one.
LastEvent(c) ==
    IF pipeline[c].op = "build" THEN IF pipeline[c].exit = 0 THEN "finished" ELSE "error"
                            ELSE IF pipeline[c].exit # -1 THEN "finished" ELSE "error"

\* Mutant: a build ends as a ship does.
Answer_LikeShip(c) ==
    /\ InStage(c, "answer") /\ lock' = Nobody
    /\ pipeline' = [pipeline EXCEPT ![c].pc = "idle", ![c].said = IF pipeline[c].exit # -1 THEN "finished" ELSE "error"]
    /\ UNCHANGED <<remote, local, agent, generation, failures, crossed>>

\* Mutant: no event for a pipeline that timed out.
Answer_Silent(c) ==
    /\ InStage(c, "answer") /\ lock' = Nobody
    /\ pipeline' = [pipeline EXCEPT ![c].pc = "idle", ![c].said = IF pipeline[c].exit = -1 THEN @ ELSE LastEvent(c)]
    /\ UNCHANGED <<remote, local, agent, generation, failures, crossed>>

\* The last event and the answer; the guard of the lock is dropped.
Answer(c) ==
    /\ InStage(c, "answer") /\ lock' = Nobody
    /\ pipeline' = [pipeline EXCEPT ![c].pc = "idle", ![c].said = LastEvent(c)]
    /\ UNCHANGED <<remote, local, agent, generation, failures, crossed>>

-----------------------------------------------------------------------------
\* A build by an agent on CloudMaster, with its artefacts written one after the other.
AgentBegins ==
    /\ agent = {} /\ generation < MaxBuilds
    /\ generation' = generation + 1 /\ agent' = Artefacts
    /\ crossed' = (crossed \/ \E c \in Calls : Exposed(c))
    /\ UNCHANGED <<remote, local, lock, pipeline, failures>>

AgentWrites(a) ==
    /\ a \in agent /\ agent' = agent \ {a}
    /\ remote' = [remote EXCEPT ![a] = generation]
    /\ crossed' = (crossed \/ \E c \in Calls : Exposed(c))
    /\ UNCHANGED <<local, lock, pipeline, generation, failures>>

\* The orchestrator dies: its commands with it, and the locks are new when it is back.
Die ==
    /\ Failing /\ lock' = Nobody
    /\ pipeline' = [c \in Calls |-> NoPipeline]
    /\ local' \in {local} \cup {[local EXCEPT ![a] = Torn] : a \in UNION {pipeline[c].todo : c \in Calls}}
    /\ LeftBehind(\E c \in Calls : InStage(c, "compile"))
    /\ UNCHANGED <<remote, crossed>>

PipelineStep(c) ==
    \/ Upload(c) \/ Compile(c) \/ Stop(c) \/ Restart(c) \/ Answer(c) \/ TimeOut(c)
    \/ \E a \in Artefacts : Copy(c, a)

ShipNext ==
    \/ \E c \in Calls : Start(c, "build") \/ Start(c, "ship") \/ PipelineStep(c) \/ HangUp(c)
    \/ AgentBegins \/ (\E a \in Artefacts : AgentWrites(a)) \/ Die

ShipSpec == ShipInit /\ [][ShipNext]_shipVars

-----------------------------------------------------------------------------
Generations == Torn..MaxBuilds

ShipTypeOK ==
    /\ remote \in [Artefacts -> 0..MaxBuilds] /\ local \in [Artefacts -> Generations]
    /\ lock \in Calls \cup {Nobody}
    /\ pipeline \in [Calls -> [pc : {"idle", "upload", "compile", "stop", "copy", "answer"},
                           op : {"none", "build", "ship"}, todo : SUBSET Artefacts,
                           built : 0..MaxBuilds, said : {"none", "started", "finished", "error"},
                           exit : -1..1, hung : BOOLEAN]]
    /\ agent \subseteq Artefacts /\ generation \in 1..MaxBuilds /\ failures \in 0..MaxFailures

\* A build says "finished" only when what it compiled is what is served: every artefact that is not
\* optional has been copied, and from that build - unless one without the lock came in between.
BuiltMeansServed ==
    [][\A c \in Calls :
        (pipeline[c].op = "build" /\ pipeline[c].said = "started" /\ pipeline'[c].said = "finished" /\ ~crossed) =>
            \A a \in Artefacts \ Optional : local[a] = pipeline[c].built]_shipVars

\* The files that are served are of one build when no pipeline is under way, unless a stage failed
\* or a build without the lock came in between.
ServedIsOneBuild ==
    (failures = 0 /\ ~crossed /\ lock = Nobody /\ agent = {}) =>
        \A a, b \in Artefacts \ Optional : local[a] = local[b]

\* The last thing said of a build is "started" only while it runs, and a pipeline that is refused
\* says nothing: the panel of the Studio shows no build that has ended - unless its client hung up.
PanelIsTrue == \A c \in Calls : pipeline[c].said = "started" => lock = c \/ pipeline[c].hung

\* What a pipeline leaves behind: files of one build, and a panel that shows no build that has ended.
RestIsTrue == ServedIsOneBuild /\ PanelIsTrue
=============================================================================
