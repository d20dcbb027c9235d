----------------------------- MODULE PipelineProofs -----------------------------
(***************************************************************************)
(* Proofs about the two pipelines of hr-orchestrator.  ShipPipeline, for   *)
(* any calls, artefacts, builds and failures: a build that says "finished" *)
(* is the one that is served, the files that are served at rest are of one *)
(* build, and the panel shows no build that has ended; the inductive       *)
(* invariant follows an artefact from the build that made it to the place  *)
(* where it is served.  BackupPipeline, for any callers and any number of  *)
(* runs, repositories and kept jobs, with or without timeouts: what is     *)
(* shown at rest and the children of a run need no assumption about the    *)
(* callers, "Done" needs callers who wait.                                 *)
(***************************************************************************)
EXTENDS ShipPipeline, BackupPipeline, TLAPS

Needed == Artefacts \ Optional

Records ==
    [pc : {"idle", "upload", "compile", "stop", "copy", "answer"}, op : {"none", "build", "ship"},
     todo : SUBSET Artefacts, built : 0..MaxBuilds, said : {"none", "started", "finished", "error"},
     exit : -1..1, hung : BOOLEAN]

\* The lock is with the only pipeline there is.
Holder == \A c \in Calls : pipeline[c].pc # "idle" => lock = c

Panel == \A c \in Calls : pipeline[c].said = "started" => pipeline[c].pc # "idle" \/ pipeline[c].hung

\* Where the artefacts of a build are at each of its stages, if no other build came in between.
FromBuild(c) ==
    (pipeline[c].op = "build" /\ ~crossed) => \A a \in Needed :
        /\ pipeline[c].pc \in {"stop", "copy"} => remote[a] = pipeline[c].built
        /\ (pipeline[c].pc = "copy" /\ a \notin pipeline[c].todo) => local[a] = pipeline[c].built
        /\ (pipeline[c].pc = "answer" /\ pipeline[c].exit = 0) => local[a] = pipeline[c].built

\* Every build makes what is needed.
Made == \A a \in Needed : remote[a] # 0

OneBuild(files) == \A a, b \in Needed : files[a] = files[b]

\* With no failure and no overlap: the artefacts on CloudMaster are of one build as soon as the build
\* that writes them is over, and so are those that are served when none is being copied.
Uniform ==
    (failures = 0 /\ ~crossed) =>
        /\ agent = {} => OneBuild(remote)
        /\ agent # {} => \A a \in Needed \ agent : remote[a] = generation
        /\ \A c \in Calls : InStage(c, "copy") =>
                agent = {} /\ \A a \in Needed \ pipeline[c].todo : local[a] = remote[a]
        /\ (\A c \in Calls : ~InStage(c, "copy")) => OneBuild(local)

IInv == ShipTypeOK /\ Holder /\ Panel /\ (\A c \in Calls : FromBuild(c)) /\ Made /\ Uniform

-----------------------------------------------------------------------------
LEMMA NoPipelineType ==
    ASSUME MaxBuilds \in Nat PROVE NoPipeline \in Records
  BY DEF NoPipeline, Records

LEMMA InitInv ==
    ASSUME MaxBuilds \in Nat \ {0}, MaxFailures \in Nat, ShipInit PROVE IInv
<1>1. /\ \A c \in Calls : /\ pipeline[c].pc = "idle" /\ pipeline[c].said = "none"
                          /\ pipeline[c].op = "none"
      /\ \A a \in Artefacts : remote[a] = 1 /\ local[a] = 1
  BY DEF ShipInit, NoPipeline
<1>2. ShipTypeOK
  <2>1. pipeline \in [Calls -> Records]
    BY NoPipelineType DEF ShipInit
  <2>2. 1 \in 0..MaxBuilds /\ 1 \in Torn..MaxBuilds /\ 1 \in 1..MaxBuilds
    BY DEF Torn
  <2> QED
    BY <2>1, <2>2 DEF ShipInit, ShipTypeOK, Records, Generations
<1> QED
  BY <1>1, <1>2 DEF ShipInit, IInv, Holder, Panel, FromBuild, Made, Needed, Uniform, OneBuild, InStage

\* Who holds the lock is alone.
LEMMA Alone ==
    ASSUME Holder, NEW c \in Calls, pipeline[c].pc # "idle"
    PROVE  lock = c /\ \A d \in Calls \ {c} : pipeline[d].pc = "idle"
  BY DEF Holder

\* A step of the pipeline that is under way: what is left to show is what it makes of the files.
LEMMA OwnStep ==
    ASSUME Nobody \notin Calls, NEW c \in Calls, NEW q \in Records, IInv,
           \A d \in Calls \ {c} : pipeline[d].pc = "idle",
           pipeline' = [pipeline EXCEPT ![c] = q], q.pc # "idle" => lock' = c,
           q.said = "started" => q.pc # "idle" \/ q.hung,
           ShipTypeOK', FromBuild(c)', Made', Uniform'
    PROVE  IInv'
<1>1. pipeline'[c] = q /\ \A d \in Calls \ {c} : pipeline'[d] = pipeline[d]
  BY DEF IInv, ShipTypeOK
<1>2. Holder' /\ Panel'
  BY <1>1 DEF IInv, Holder, Panel
<1>3. \A d \in Calls : FromBuild(d)'
  BY <1>1 DEF FromBuild
<1> QED
  BY <1>2, <1>3 DEF IInv

\* A step that fails says nothing about what the files are worth together.
LEMMA Failed ==
    ASSUME ShipTypeOK, Failing
    PROVE  Uniform' /\ failures' \in Nat \ {0}
  BY DEF ShipTypeOK, Failing, Uniform

LEMMA Bounded ==
    ASSUME MaxFailures \in Nat, ShipTypeOK, Failing
    PROVE  failures' \in 0..MaxFailures
  BY DEF ShipTypeOK, Failing

-----------------------------------------------------------------------------
(* One lemma per action. *)

LEMMA StartStep ==
    ASSUME MaxBuilds \in Nat \ {0}, Nobody \notin Calls, NEW c \in Calls, NEW op \in {"build", "ship"},
           IInv, Start(c, op)
    PROVE  IInv'
<1>1. /\ pipeline[c].pc = "idle"
      /\ UNCHANGED <<remote, local, agent, generation, failures, crossed>>
  BY DEF Start, InStage
<1>2. CASE lock = Nobody
  <2> DEFINE q == [NoPipeline EXCEPT !.op = op, !.said = "started",
                                     !.pc = IF op = "build" THEN "upload" ELSE "stop"]
  <2>1. lock' = c /\ pipeline' = [pipeline EXCEPT ![c] = q]
    BY <1>2 DEF Start
  <2>2. /\ q \in Records /\ q.op = op /\ q.pc = (IF op = "build" THEN "upload" ELSE "stop")
        /\ q.hung = FALSE
    BY NoPipelineType DEF Records, NoPipeline
  <2> HIDE DEF q
  <2>3. \A d \in Calls \ {c} : pipeline[d].pc = "idle"
    BY <1>2 DEF IInv, Holder
  <2>4. pipeline'[c] = q /\ \A d \in Calls \ {c} : pipeline'[d] = pipeline[d]
    BY <2>1 DEF IInv, ShipTypeOK
  <2>5. ShipTypeOK'
    BY <1>1, <2>1, <2>2 DEF IInv, ShipTypeOK, Records
  <2>6. FromBuild(c)'
    BY <2>2, <2>4 DEF FromBuild
  <2>7. Made'
    BY <1>1 DEF IInv, Made
  <2>8. \A d \in Calls : ~InStage(d, "copy") /\ ~InStage(d, "copy")'
    BY <1>1, <2>2, <2>3, <2>4 DEF InStage
  <2>9. Uniform'
    BY <1>1, <2>8 DEF IInv, Uniform, OneBuild
  <2> QED
    BY <2>1, <2>2, <2>3, <2>5, <2>6, <2>7, <2>9, OwnStep
<1>3. CASE lock # Nobody
  <2> DEFINE q == [NoPipeline EXCEPT !.op = op, !.exit = -1]
  <2>1. lock' = lock /\ pipeline' = [pipeline EXCEPT ![c] = q]
    BY <1>3 DEF Start
  <2>2. q \in Records /\ q.pc = "idle" /\ q.said = "none"
    <3>1. NoPipeline.pc = "idle" /\ NoPipeline.said = "none"
      BY DEF NoPipeline
    <3>2. -1 \in -1..1
      OBVIOUS
    <3> QED
      BY <3>1, <3>2, NoPipelineType DEF Records
  <2> HIDE DEF q
  <2>3. pipeline'[c] = q /\ \A d \in Calls \ {c} : pipeline'[d] = pipeline[d]
    BY <2>1 DEF IInv, ShipTypeOK
  <2>4. ShipTypeOK'
    BY <1>1, <2>1, <2>2 DEF IInv, ShipTypeOK, Records
  <2>5. Holder' /\ Panel' /\ Made'
    BY <1>1, <2>1, <2>2, <2>3 DEF IInv, Holder, Panel, Made
  <2>6. \A d \in Calls : FromBuild(d)'
    BY <1>1, <2>2, <2>3 DEF IInv, FromBuild
  <2>7. \A d \in Calls : InStage(d, "copy")' => InStage(d, "copy") /\ pipeline'[d] = pipeline[d]
    BY <2>2, <2>3 DEF InStage
  <2>8. \A d \in Calls : InStage(d, "copy") => InStage(d, "copy")'
    BY <1>1, <2>3 DEF InStage
  <2>9. Uniform'
    BY <1>1, <2>7, <2>8 DEF IInv, Uniform, OneBuild
  <2> QED
    BY <2>4, <2>5, <2>6, <2>9 DEF IInv
<1> QED
  BY <1>2, <1>3

\* Exit as a new record; a call that is to answer has nothing more to copy.
LEMMA ExitStep ==
    ASSUME NEW c \in Calls, NEW code \in -1..1, IInv, pipeline[c].pc # "idle", Exit(c, code)
    PROVE  \E q \in Records :
                /\ pipeline' = [pipeline EXCEPT ![c] = q] /\ pipeline'[c] = q
                /\ q.pc = "answer" /\ q.exit = code /\ q.op = pipeline[c].op
                /\ q.built = pipeline[c].built
<1> DEFINE q == [pipeline[c] EXCEPT !.pc = "answer", !.exit = code]
<1>1. pipeline[c] \in Records
  BY DEF IInv, ShipTypeOK, Records
<1>2. q \in Records
  BY <1>1 DEF Records
<1>3. pipeline' = [pipeline EXCEPT ![c] = q]
  BY DEF Exit, IInv, ShipTypeOK
<1> QED
  BY <1>1, <1>2, <1>3 DEF IInv, ShipTypeOK, Records

\* A pipeline that gives up with exit code 1 or -1, whatever it has done to the files that are served.
LEMMA GivesUp ==
    ASSUME MaxBuilds \in Nat \ {0}, MaxFailures \in Nat, Nobody \notin Calls, NEW c \in Calls,
           IInv, NEW code \in {-1, 1}, pipeline[c].pc # "idle", Exit(c, code),
           local' \in [Artefacts -> Generations], agent' \subseteq Artefacts,
           generation' \in 1..MaxBuilds, failures' \in 0..MaxFailures,
           UNCHANGED <<remote, lock>>, Uniform'
    PROVE  IInv'
<1>1. lock = c /\ \A d \in Calls \ {c} : pipeline[d].pc = "idle"
  BY Alone DEF IInv
<1>2. PICK q \in Records :
        /\ pipeline' = [pipeline EXCEPT ![c] = q] /\ pipeline'[c] = q
        /\ q.pc = "answer" /\ q.exit = code
  <2>1. code \in -1..1
    OBVIOUS
  <2> QED
    BY <2>1, ExitStep
<1>3. ShipTypeOK'
  BY <1>2 DEF IInv, ShipTypeOK, Records
<1>4. FromBuild(c)'
  BY <1>2 DEF FromBuild
<1>5. Made'
  BY DEF IInv, Made
<1> QED
  BY <1>1, <1>2, <1>3, <1>4, <1>5, OwnStep

LEMMA UploadStep ==
    ASSUME MaxBuilds \in Nat \ {0}, MaxFailures \in Nat, Nobody \notin Calls, NEW c \in Calls,
           IInv, Upload(c)
    PROVE  IInv'
<1>1. /\ pipeline[c].pc = "upload"
      /\ UNCHANGED <<remote, local, lock, agent, generation, crossed>>
  BY DEF Upload, InStage
<1>2. lock = c /\ \A d \in Calls \ {c} : pipeline[d].pc = "idle"
  BY <1>1, Alone DEF IInv
<1>3. CASE Failing /\ Exit(c, 1)
  BY <1>1, <1>3, GivesUp, Failed, Bounded DEF IInv, ShipTypeOK
<1>4. CASE Go(c, "compile") /\ UNCHANGED failures
  <2> DEFINE q == [pipeline[c] EXCEPT !.pc = "compile"]
  <2>1. pipeline[c] \in Records
    BY DEF IInv, ShipTypeOK, Records
  <2>2. q \in Records /\ q.pc = "compile"
    BY <2>1 DEF Records
  <2>3. pipeline' = [pipeline EXCEPT ![c] = q]
    BY <1>4 DEF Go, IInv, ShipTypeOK
  <2> HIDE DEF q
  <2>4. pipeline'[c] = q /\ \A d \in Calls \ {c} : pipeline'[d] = pipeline[d]
    BY <2>3 DEF IInv, ShipTypeOK
  <2>5. ShipTypeOK' /\ Made'
    BY <1>1, <1>4, <2>2, <2>3 DEF IInv, ShipTypeOK, Records, Made
  <2>6. FromBuild(c)'
    BY <2>2, <2>4 DEF FromBuild
  <2>7. \A d \in Calls : ~InStage(d, "copy") /\ ~InStage(d, "copy")'
    BY <1>1, <1>2, <2>2, <2>4 DEF InStage
  <2>8. Uniform'
    BY <1>1, <1>4, <2>7 DEF IInv, Uniform, OneBuild
  <2> QED
    BY <1>1, <1>2, <2>2, <2>3, <2>5, <2>6, <2>8, OwnStep
<1> QED
  BY <1>3, <1>4 DEF Upload

LEMMA CompileStep ==
    ASSUME MaxBuilds \in Nat \ {0}, MaxFailures \in Nat, Nobody \notin Calls, NEW c \in Calls,
           IInv, Compile(c)
    PROVE  IInv'
<1>1. /\ pipeline[c].pc = "compile" /\ crossed' = (crossed \/ agent # {})
      /\ UNCHANGED <<local, lock, agent>>
  BY DEF Compile, InStage
<1>2. lock = c /\ \A d \in Calls \ {c} : pipeline[d].pc = "idle"
  BY <1>1, Alone DEF IInv
<1>3. CASE /\ IF generation < MaxBuilds THEN Failing ELSE UNCHANGED failures
           /\ Exit(c, 1) /\ UNCHANGED <<remote, generation>>
  <2>1. failures' \in 0..MaxFailures /\ (failures' = failures \/ failures' \in Nat \ {0})
    BY <1>3, Failed, Bounded DEF IInv, ShipTypeOK
  <2>2. \A d \in Calls : ~InStage(d, "copy") /\ ~InStage(d, "copy")'
    <3>1. pipeline'[c].pc = "answer" /\ \A d \in Calls \ {c} : pipeline'[d] = pipeline[d]
      BY <1>3 DEF Exit, IInv, ShipTypeOK
    <3> QED
      BY <1>1, <1>2, <3>1 DEF InStage
  <2>3. Uniform'
    BY <1>1, <1>3, <2>1, <2>2 DEF IInv, Uniform, OneBuild
  <2> QED
    BY <1>1, <1>3, <2>1, <2>3, GivesUp DEF IInv, ShipTypeOK
<1>4. CASE /\ generation < MaxBuilds /\ generation' = generation + 1
           /\ remote' \in {r \in [Artefacts -> {0, generation'}] :
                             \A a \in Artefacts \ Optional : r[a] = generation'}
           /\ pipeline' = [pipeline EXCEPT ![c].pc = "stop", ![c].built = generation']
           /\ UNCHANGED failures
  <2> DEFINE q == [pipeline[c] EXCEPT !.pc = "stop", !.built = generation']
  <2>1. pipeline[c] \in Records
    BY DEF IInv, ShipTypeOK, Records
  <2>2. generation' \in 1..MaxBuilds /\ generation' \in 0..MaxBuilds /\ generation' # 0
    BY <1>4 DEF IInv, ShipTypeOK
  <2>3. q \in Records /\ q.pc = "stop" /\ q.built = generation'
    BY <2>1, <2>2 DEF Records
  <2>4. pipeline' = [pipeline EXCEPT ![c] = q]
    BY <1>4 DEF IInv, ShipTypeOK
  <2> HIDE DEF q
  <2>5. pipeline'[c] = q /\ \A d \in Calls \ {c} : pipeline'[d] = pipeline[d]
    BY <2>4 DEF IInv, ShipTypeOK
  <2>6. \A a \in Needed : remote'[a] = generation'
    BY <1>4 DEF Needed
  <2>7. remote' \in [Artefacts -> 0..MaxBuilds]
    BY <1>4, <2>2
  <2>8. ShipTypeOK'
    <3>1. pipeline \in [Calls -> Records] /\ pipeline' \in [Calls -> Records]
      BY <2>3, <2>4 DEF IInv, ShipTypeOK, Records
    <3>2. failures' \in 0..MaxFailures /\ local' \in [Artefacts -> Generations]
      BY <1>1, <1>4 DEF IInv, ShipTypeOK
    <3> QED
      BY <1>1, <2>2, <2>7, <3>1, <3>2 DEF IInv, ShipTypeOK, Records
  <2>9. FromBuild(c)' /\ Made'
    BY <2>2, <2>3, <2>5, <2>6 DEF FromBuild, Made
  <2>10. \A d \in Calls : ~InStage(d, "copy") /\ ~InStage(d, "copy")'
    BY <1>1, <1>2, <2>3, <2>5 DEF InStage
  <2>11. Uniform'
    BY <1>1, <1>4, <2>6, <2>10 DEF IInv, Uniform, OneBuild
  <2> QED
    BY <1>1, <1>2, <2>3, <2>4, <2>8, <2>9, <2>11, OwnStep
<1> QED
  BY <1>3, <1>4 DEF Compile

LEMMA StopStep ==
    ASSUME MaxBuilds \in Nat \ {0}, MaxFailures \in Nat, Nobody \notin Calls, NEW c \in Calls,
           IInv, Stop(c)
    PROVE  IInv'
<1> DEFINE q == [pipeline[c] EXCEPT !.pc = "copy", !.todo = Artefacts]
<1>1. /\ pipeline[c].pc = "stop" /\ crossed' = (crossed \/ agent # {})
      /\ UNCHANGED <<remote, local, lock, agent, generation, failures>>
  BY DEF Stop, InStage
<1>2. lock = c /\ \A d \in Calls \ {c} : pipeline[d].pc = "idle"
  BY <1>1, Alone DEF IInv
<1>3. pipeline[c] \in Records
  BY DEF IInv, ShipTypeOK, Records
<1>4. /\ q \in Records /\ q.pc = "copy" /\ q.todo = Artefacts /\ q.built = pipeline[c].built
      /\ q.op = pipeline[c].op
  BY <1>3 DEF Records
<1>5. pipeline' = [pipeline EXCEPT ![c] = q]
  BY DEF Stop, IInv, ShipTypeOK
<1> HIDE DEF q
<1>6. pipeline'[c] = q /\ \A d \in Calls \ {c} : pipeline'[d] = pipeline[d]
  BY <1>5 DEF IInv, ShipTypeOK
<1>7. ShipTypeOK' /\ Made'
  BY <1>1, <1>4, <1>5 DEF IInv, ShipTypeOK, Records, Made
<1>8. FromBuild(c)'
  BY <1>1, <1>4, <1>6 DEF IInv, FromBuild, Needed
<1>9. Uniform'
  <2> SUFFICES ASSUME failures = 0, ~crossed, agent = {}
               PROVE  Uniform'
    BY <1>1 DEF Uniform
  <2>1. \A d \in Calls : InStage(d, "copy")' => d = c
    BY <1>2, <1>6 DEF InStage
  <2>2. InStage(c, "copy")' /\ Needed \ pipeline'[c].todo = {}
    BY <1>4, <1>6 DEF InStage, Needed
  <2> QED
    BY <1>1, <2>1, <2>2 DEF IInv, Uniform, OneBuild
<1> QED
  BY <1>1, <1>2, <1>4, <1>5, <1>7, <1>8, <1>9, OwnStep

\* A copy that goes on: one artefact is done, as it is on CloudMaster or as it was.
LEMMA CopiedStep ==
    ASSUME MaxBuilds \in Nat \ {0}, MaxFailures \in Nat, Nobody \notin Calls, NEW c \in Calls,
           NEW a \in Artefacts, IInv, pipeline[c].pc = "copy",
           pipeline' = [pipeline EXCEPT ![c].todo = @ \ {a}],
           local' = [local EXCEPT ![a] = remote[a]] \/ (local' = local /\ a \in Optional),
           failures' \in 0..MaxFailures, failures' = 0 => failures = 0,
           UNCHANGED <<remote, lock, agent, generation, crossed>>
    PROVE  IInv'
<1> DEFINE q == [pipeline[c] EXCEPT !.todo = @ \ {a}]
<1>1. lock = c /\ \A d \in Calls \ {c} : pipeline[d].pc = "idle"
  BY Alone DEF IInv
<1>2. pipeline[c] \in Records
  BY DEF IInv, ShipTypeOK, Records
<1>3. /\ q \in Records /\ q.pc = "copy" /\ q.todo = pipeline[c].todo \ {a}
      /\ q.built = pipeline[c].built /\ q.op = pipeline[c].op
  BY <1>2 DEF Records
<1>4. pipeline' = [pipeline EXCEPT ![c] = q]
  BY DEF IInv, ShipTypeOK
<1> HIDE DEF q
<1>5. pipeline'[c] = q /\ \A d \in Calls \ {c} : pipeline'[d] = pipeline[d]
  BY <1>4 DEF IInv, ShipTypeOK
<1>6. local' \in [Artefacts -> Generations]
  BY DEF IInv, ShipTypeOK, Generations, Torn
<1>7. ShipTypeOK' /\ Made'
  BY <1>3, <1>4, <1>6 DEF IInv, ShipTypeOK, Records, Made
<1>8. \A b \in Needed : local'[b] = IF b = a THEN remote[a] ELSE local[b]
  BY DEF IInv, ShipTypeOK, Needed
<1>9. FromBuild(c)'
  BY <1>3, <1>5, <1>8 DEF IInv, FromBuild
<1>10. Uniform'
  <2> SUFFICES ASSUME failures = 0, ~crossed
               PROVE  Uniform'
    BY DEF Uniform
  <2>1. \A d \in Calls : InStage(d, "copy")' => d = c
    BY <1>1, <1>5 DEF InStage
  <2>2. InStage(c, "copy") /\ InStage(c, "copy")'
    BY <1>3, <1>5 DEF InStage
  <2>3. agent = {} /\ \A b \in Needed \ pipeline'[c].todo : local'[b] = remote[b]
    BY <1>3, <1>5, <1>8, <2>2 DEF IInv, Uniform
  <2> QED
    BY <2>1, <2>2, <2>3 DEF IInv, Uniform, OneBuild
<1> QED
  BY <1>1, <1>3, <1>4, <1>7, <1>9, <1>10, OwnStep

LEMMA CopyStep ==
    ASSUME MaxBuilds \in Nat \ {0}, MaxFailures \in Nat, Nobody \notin Calls, NEW c \in Calls,
           NEW a \in Artefacts, IInv, Copy(c, a)
    PROVE  IInv'
<1>1. /\ pipeline[c].pc = "copy"
      /\ UNCHANGED <<remote, lock, agent, generation, crossed>>
  BY DEF Copy, InStage
<1>2. failures \in 0..MaxFailures /\ ShipTypeOK
  BY DEF IInv, ShipTypeOK
<1>3. Failing => failures' \in 0..MaxFailures /\ failures' # 0 /\ Uniform'
  BY <1>2, Failed, Bounded
<1>4. CASE /\ remote[a] # 0 /\ local' = [local EXCEPT ![a] = remote[a]]
           /\ pipeline' = [pipeline EXCEPT ![c].todo = @ \ {a}] /\ UNCHANGED failures
  BY <1>1, <1>2, <1>4, CopiedStep
<1>5. CASE /\ remote[a] = 0 /\ a \in Optional /\ pipeline' = [pipeline EXCEPT ![c].todo = @ \ {a}]
           /\ UNCHANGED <<local, failures>>
  BY <1>1, <1>2, <1>5, CopiedStep
<1>6. CASE /\ remote[a] = 0 /\ a \notin Optional /\ Exit(c, 1) /\ UNCHANGED <<local, failures>>
  BY <1>6 DEF IInv, Made, Needed
<1>7. CASE /\ Failing /\ a \in Optional /\ pipeline' = [pipeline EXCEPT ![c].todo = @ \ {a}]
           /\ UNCHANGED local
  BY <1>1, <1>3, <1>7, CopiedStep
<1>8. CASE Failing /\ Exit(c, 1) /\ local' \in {local, [local EXCEPT ![a] = Torn]}
  <2>1. local' \in [Artefacts -> Generations]
    BY <1>2, <1>8 DEF ShipTypeOK, Generations, Torn
  <2> QED
    BY <1>1, <1>2, <1>3, <1>8, <2>1, GivesUp DEF ShipTypeOK
<1> QED
  BY <1>4, <1>5, <1>6, <1>7, <1>8 DEF Copy

LEMMA RestartStep ==
    ASSUME MaxBuilds \in Nat \ {0}, MaxFailures \in Nat, Nobody \notin Calls, NEW c \in Calls,
           IInv, Restart(c)
    PROVE  IInv'
<1>1. /\ pipeline[c].pc = "copy" /\ pipeline[c].todo = {}
      /\ UNCHANGED <<remote, local, lock, agent, generation, failures, crossed>>
  BY DEF Restart, InStage
<1>2. lock = c /\ \A d \in Calls \ {c} : pipeline[d].pc = "idle"
  BY <1>1, Alone DEF IInv
<1>3. PICK q \in Records :
        /\ pipeline' = [pipeline EXCEPT ![c] = q] /\ pipeline'[c] = q
        /\ q.pc = "answer" /\ q.exit = 0 /\ q.op = pipeline[c].op /\ q.built = pipeline[c].built
  BY <1>1, ExitStep, 0 \in -1..1 DEF Restart
<1>4. \A d \in Calls \ {c} : pipeline'[d] = pipeline[d]
  BY <1>3
<1>5. ShipTypeOK' /\ Made'
  BY <1>1, <1>3 DEF IInv, ShipTypeOK, Records, Made
<1>6. FromBuild(c)'
  BY <1>1, <1>3 DEF IInv, FromBuild
<1>7. Uniform'
  <2> SUFFICES ASSUME failures = 0, ~crossed
               PROVE  Uniform'
    BY <1>1 DEF Uniform
  <2>1. agent = {} /\ (\A a \in Needed : local[a] = remote[a]) /\ OneBuild(remote)
    BY <1>1 DEF IInv, Uniform, InStage
  <2>2. \A d \in Calls : ~InStage(d, "copy")'
    BY <1>2, <1>3, <1>4 DEF InStage
  <2> QED
    BY <1>1, <2>1, <2>2 DEF Uniform, OneBuild
<1> QED
  BY <1>1, <1>2, <1>3, <1>5, <1>6, <1>7, OwnStep

\* What of the files may be torn where a pipeline is dropped.
LEMMA TornType ==
    ASSUME MaxBuilds \in Nat \ {0}, ShipTypeOK, NEW todo \in SUBSET Artefacts,
           local' \in {local} \cup {[local EXCEPT ![a] = Torn] : a \in todo}
    PROVE  local' \in [Artefacts -> Generations]
  BY DEF ShipTypeOK, Generations, Torn

LEMMA LeftBehindType ==
    ASSUME MaxBuilds \in Nat \ {0}, ShipTypeOK, NEW compiling \in BOOLEAN, LeftBehind(compiling)
    PROVE  agent' \subseteq Artefacts /\ generation' \in 1..MaxBuilds
  BY DEF ShipTypeOK, LeftBehind

LEMMA TimeOutStep ==
    ASSUME MaxBuilds \in Nat \ {0}, MaxFailures \in Nat, Nobody \notin Calls, NEW c \in Calls,
           IInv, TimeOut(c)
    PROVE  IInv'
<1>1. /\ pipeline[c].pc # "idle" /\ Failing /\ Exit(c, -1)
      /\ UNCHANGED <<remote, lock, crossed>>
  BY DEF TimeOut
<1>2. ShipTypeOK /\ pipeline[c].todo \in SUBSET Artefacts
  BY DEF IInv, ShipTypeOK
<1>3. local' \in [Artefacts -> Generations]
  BY <1>2, TornType DEF TimeOut
<1>4. agent' \subseteq Artefacts /\ generation' \in 1..MaxBuilds
  BY <1>2, LeftBehindType DEF TimeOut, InStage
<1> QED
  BY <1>1, <1>2, <1>3, <1>4, GivesUp, Failed, Bounded

\* A client that hangs up and a death leave no pipeline with the lock.
LEMMA HangUpStep ==
    ASSUME MaxBuilds \in Nat \ {0}, MaxFailures \in Nat, Nobody \notin Calls, NEW c \in Calls,
           IInv, HangUp(c)
    PROVE  IInv'
<1> DEFINE q == [pipeline[c] EXCEPT !.pc = "idle", !.todo = {}, !.hung = TRUE]
<1>1. /\ pipeline[c].pc # "idle" /\ Failing /\ lock' = Nobody
      /\ UNCHANGED <<remote, crossed>>
  BY DEF HangUp, InStage
<1>2. ShipTypeOK /\ pipeline[c] \in Records /\ pipeline[c].todo \in SUBSET Artefacts
  BY DEF IInv, ShipTypeOK, Records
<1>3. \A d \in Calls \ {c} : pipeline[d].pc = "idle"
  BY <1>1, Alone DEF IInv
<1>4. q \in Records /\ q.pc = "idle" /\ q.hung = TRUE
  BY <1>2 DEF Records
<1>5. pipeline' = [pipeline EXCEPT ![c] = q]
  BY <1>2 DEF HangUp, ShipTypeOK
<1> HIDE DEF q
<1>6. local' \in [Artefacts -> Generations]
  BY <1>2, TornType DEF HangUp
<1>7. agent' \subseteq Artefacts /\ generation' \in 1..MaxBuilds
  BY <1>2, LeftBehindType DEF HangUp, InStage
<1>8. Uniform' /\ failures' \in 0..MaxFailures
  BY <1>1, <1>2, Failed, Bounded
<1>9. ShipTypeOK' /\ Made'
  BY <1>1, <1>4, <1>5, <1>6, <1>7, <1>8 DEF IInv, ShipTypeOK, Records, Made
<1>10. FromBuild(c)'
  BY <1>4, <1>5 DEF IInv, ShipTypeOK, FromBuild
<1> QED
  BY <1>3, <1>4, <1>5, <1>8, <1>9, <1>10, OwnStep

LEMMA AnswerStep ==
    ASSUME MaxBuilds \in Nat \ {0}, MaxFailures \in Nat, Nobody \notin Calls, NEW c \in Calls,
           IInv, Answer(c)
    PROVE  IInv'
<1> DEFINE q == [pipeline[c] EXCEPT !.pc = "idle", !.said = LastEvent(c)]
<1>1. /\ pipeline[c].pc = "answer" /\ lock' = Nobody
      /\ UNCHANGED <<remote, local, agent, generation, failures, crossed>>
  BY DEF Answer, InStage
<1>2. pipeline[c] \in Records
  BY DEF IInv, ShipTypeOK, Records
<1>3. \A d \in Calls \ {c} : pipeline[d].pc = "idle"
  BY <1>1, Alone DEF IInv
<1>4. LastEvent(c) \in {"finished", "error"}
  BY DEF LastEvent
<1>5. q \in Records /\ q.pc = "idle" /\ q.said # "started"
  BY <1>2, <1>4 DEF Records
<1>6. pipeline' = [pipeline EXCEPT ![c] = q]
  BY DEF Answer, IInv, ShipTypeOK
<1> HIDE DEF q
<1>7. pipeline'[c] = q /\ \A d \in Calls \ {c} : pipeline'[d] = pipeline[d]
  BY <1>6 DEF IInv, ShipTypeOK
<1>8. ShipTypeOK' /\ Made'
  BY <1>1, <1>5, <1>6 DEF IInv, ShipTypeOK, Records, Made
<1>9. FromBuild(c)'
  BY <1>5, <1>7 DEF FromBuild
<1>10. \A d \in Calls : ~InStage(d, "copy") /\ ~InStage(d, "copy")'
  BY <1>1, <1>3, <1>5, <1>7 DEF InStage
<1>11. Uniform'
  BY <1>1, <1>10 DEF IInv, Uniform, OneBuild
<1> QED
  BY <1>3, <1>5, <1>6, <1>8, <1>9, <1>11, OwnStep

\* An agent's build is a crossing as soon as it meets a pipeline that compiles or copies.
LEMMA AgentBeginsStep ==
    ASSUME MaxBuilds \in Nat \ {0}, MaxFailures \in Nat, IInv, AgentBegins
    PROVE  IInv'
<1>1. /\ agent = {} /\ agent' = Artefacts
      /\ generation < MaxBuilds /\ generation' = generation + 1
      /\ crossed' = (crossed \/ \E c \in Calls : Exposed(c))
      /\ UNCHANGED <<remote, local, lock, pipeline, failures>>
  BY DEF AgentBegins
<1>2. ShipTypeOK' /\ Holder' /\ Panel' /\ Made'
  <2>1. generation' \in 1..MaxBuilds
    BY <1>1 DEF IInv, ShipTypeOK
  <2> QED
    BY <1>1, <2>1 DEF IInv, ShipTypeOK, Holder, Panel, Made
<1>3. \A c \in Calls : FromBuild(c)'
  BY <1>1 DEF IInv, FromBuild
<1>4. Uniform'
  <2> SUFFICES ASSUME failures = 0, ~crossed, \A c \in Calls : ~Exposed(c)
               PROVE  Uniform'
    BY <1>1 DEF Uniform
  <2>1. \A c \in Calls : ~InStage(c, "copy") /\ ~InStage(c, "copy")'
    BY <1>1 DEF Exposed, InStage
  <2>2. OneBuild(remote) /\ OneBuild(local)
    BY <1>1, <2>1 DEF IInv, Uniform
  <2> QED
    BY <1>1, <2>1, <2>2 DEF Uniform, OneBuild, Needed
<1> QED
  BY <1>2, <1>3, <1>4 DEF IInv

LEMMA AgentWritesStep ==
    ASSUME MaxBuilds \in Nat \ {0}, MaxFailures \in Nat, NEW a \in Artefacts, IInv, AgentWrites(a)
    PROVE  IInv'
<1>1. /\ a \in agent /\ agent' = agent \ {a}
      /\ remote' = [remote EXCEPT ![a] = generation]
      /\ crossed' = (crossed \/ \E c \in Calls : Exposed(c))
      /\ UNCHANGED <<local, lock, pipeline, generation, failures>>
  BY DEF AgentWrites
<1>2. generation \in 1..MaxBuilds /\ generation \in 0..MaxBuilds /\ generation # 0
  BY DEF IInv, ShipTypeOK
<1>3. \A b \in Artefacts : remote'[b] = IF b = a THEN generation ELSE remote[b]
  BY <1>1 DEF IInv, ShipTypeOK
<1>4. ShipTypeOK' /\ Holder' /\ Panel'
  BY <1>1, <1>2 DEF IInv, ShipTypeOK, Holder, Panel
<1>5. Made'
  BY <1>2, <1>3 DEF IInv, Made, Needed
<1>6. \A c \in Calls : FromBuild(c)'
  BY <1>1 DEF IInv, FromBuild, Exposed
<1>7. Uniform'
  <2> SUFFICES ASSUME failures = 0, ~crossed, \A c \in Calls : ~Exposed(c)
               PROVE  Uniform'
    BY <1>1 DEF Uniform
  <2>1. \A c \in Calls : ~InStage(c, "copy") /\ ~InStage(c, "copy")'
    BY <1>1 DEF Exposed, InStage
  <2>2. OneBuild(local) /\ \A b \in Needed \ agent : remote[b] = generation
    BY <1>1, <2>1 DEF IInv, Uniform
  <2>3. \A b \in Needed \ agent' : remote'[b] = generation
    BY <1>1, <1>3, <2>2 DEF Needed
  <2> QED
    BY <1>1, <2>1, <2>2, <2>3 DEF Uniform, OneBuild
<1> QED
  BY <1>4, <1>5, <1>6, <1>7 DEF IInv

LEMMA DieStep ==
    ASSUME MaxBuilds \in Nat \ {0}, MaxFailures \in Nat, IInv, Die
    PROVE  IInv'
<1>1. Failing /\ lock' = Nobody /\ pipeline' = [c \in Calls |-> NoPipeline]
      /\ UNCHANGED <<remote, crossed>>
  BY DEF Die
<1>2. ShipTypeOK /\ UNION {pipeline[c].todo : c \in Calls} \in SUBSET Artefacts
  BY DEF IInv, ShipTypeOK
<1>3. local' \in [Artefacts -> Generations]
  BY <1>2, TornType DEF Die
<1>4. agent' \subseteq Artefacts /\ generation' \in 1..MaxBuilds
  <2>1. (\E c \in Calls : InStage(c, "compile")) \in BOOLEAN
    OBVIOUS
  <2> QED
    BY <1>2, <2>1, LeftBehindType DEF Die
<1>5. Uniform' /\ failures' \in 0..MaxFailures
  BY <1>1, <1>2, Failed, Bounded
<1>6. \A c \in Calls : pipeline'[c].pc = "idle" /\ pipeline'[c].said = "none"
  BY <1>1 DEF NoPipeline
<1>7. pipeline' \in [Calls -> Records]
  BY <1>1, NoPipelineType
<1>8. ShipTypeOK'
  BY <1>1, <1>2, <1>3, <1>4, <1>5, <1>7 DEF ShipTypeOK, Records
<1>9. Holder' /\ Panel' /\ Made' /\ \A c \in Calls : FromBuild(c)'
  BY <1>1, <1>6 DEF IInv, Holder, Panel, Made, FromBuild
<1> QED
  BY <1>5, <1>8, <1>9 DEF IInv

-----------------------------------------------------------------------------
(* What holds of every behaviour. *)

LEMMA StepInv ==
    ASSUME MaxBuilds \in Nat \ {0}, MaxFailures \in Nat, Nobody \notin Calls,
           IInv, [ShipNext]_shipVars
    PROVE  IInv'
<1>1. CASE UNCHANGED shipVars
  BY <1>1 DEF shipVars, IInv, ShipTypeOK, Holder, Panel, FromBuild, Made, Uniform, OneBuild, InStage
<1>2. CASE ShipNext
  <2>1. ASSUME NEW c \in Calls, PipelineStep(c) PROVE IInv'
    BY <2>1, UploadStep, CompileStep, StopStep, RestartStep, AnswerStep, TimeOutStep, CopyStep
       DEF PipelineStep
  <2>2. ASSUME NEW c \in Calls, Start(c, "build") \/ Start(c, "ship") \/ HangUp(c) PROVE IInv'
    BY <2>2, StartStep, HangUpStep
  <2> QED
    BY <1>2, <2>1, <2>2, AgentBeginsStep, AgentWritesStep, DieStep DEF ShipNext
<1> QED
  BY <1>1, <1>2

\* At rest (build, ship): the files that are served are of one build unless a stage failed or a build
\* without the lock came in between, and the panel shows no build that has ended.
THEOREM ServedAtRest ==
    ASSUME MaxBuilds \in Nat \ {0}, MaxFailures \in Nat, Nobody \notin Calls
    PROVE  ShipSpec => [](ShipTypeOK /\ RestIsTrue)
<1>1. ShipInit => IInv
  BY InitInv
<1>2. IInv /\ [ShipNext]_shipVars => IInv'
  BY StepInv
<1>3. IInv => ShipTypeOK /\ RestIsTrue
  <2> SUFFICES ASSUME IInv PROVE ShipTypeOK /\ RestIsTrue
    OBVIOUS
  <2>1. ServedIsOneBuild
    <3> SUFFICES ASSUME failures = 0, ~crossed, lock = Nobody, agent = {}
                 PROVE  OneBuild(local)
      BY DEF ServedIsOneBuild, OneBuild, Needed
    <3>1. \A c \in Calls : ~InStage(c, "copy")
      BY DEF IInv, Holder, InStage
    <3> QED
      BY <3>1 DEF IInv, Uniform
  <2>2. PanelIsTrue
    BY DEF IInv, Holder, Panel, PanelIsTrue
  <2> QED
    BY <2>1, <2>2 DEF IInv, RestIsTrue
<1> QED
  BY <1>1, <1>2, <1>3, PTL DEF ShipSpec

\* A build (build) says "finished" only when everything it has to serve is there, and is its own,
\* unless a build without the lock came in between.
THEOREM FinishedMeansServed ==
    ASSUME MaxBuilds \in Nat \ {0}, MaxFailures \in Nat, Nobody \notin Calls
    PROVE  ShipSpec => BuiltMeansServed
<1>1. ShipInit => IInv
  BY InitInv
<1>2. IInv /\ [ShipNext]_shipVars => IInv'
  BY StepInv
<1>3. IInv /\ [ShipNext]_shipVars =>
        [\A c \in Calls :
            (pipeline[c].op = "build" /\ pipeline[c].said = "started"
                /\ pipeline'[c].said = "finished" /\ ~crossed) =>
                \A a \in Artefacts \ Optional : local[a] = pipeline[c].built]_shipVars
  <2> SUFFICES ASSUME IInv, ShipNext, NEW c \in Calls,
                      pipeline[c].op = "build", pipeline[c].said = "started",
                      pipeline'[c].said = "finished", ~crossed, NEW a \in Needed
               PROVE  local[a] = pipeline[c].built
    BY DEF Needed
  <2>1. pipeline \in [Calls -> Records]
    BY DEF IInv, ShipTypeOK, Records
  <2>2. Answer(c)
    <3>1. ASSUME NEW d \in Calls, NEW op \in {"build", "ship"}, Start(d, op) PROVE FALSE
      <4> DEFINE q == IF lock = Nobody
                      THEN [NoPipeline EXCEPT !.op = op, !.said = "started",
                                              !.pc = IF op = "build" THEN "upload" ELSE "stop"]
                      ELSE [NoPipeline EXCEPT !.op = op, !.exit = -1]
      <4>1. pipeline' = [pipeline EXCEPT ![d] = q]
        BY <3>1 DEF Start
      <4>2. q.said # "finished"
        BY DEF NoPipeline
      <4> HIDE DEF q
      <4> QED
        BY <2>1, <4>1, <4>2
    <3>2. ASSUME NEW d \in Calls, Upload(d) \/ Compile(d) \/ Stop(d) \/ Restart(d) PROVE FALSE
      BY <2>1, <3>2 DEF Upload, Compile, Stop, Restart, Go, Exit, Records
    <3>3. ASSUME NEW d \in Calls, TimeOut(d) \/ HangUp(d) \/ \E b \in Artefacts : Copy(d, b) PROVE FALSE
      BY <2>1, <3>3 DEF TimeOut, HangUp, Copy, Exit, Records
    <3>4. ASSUME NEW d \in Calls, Answer(d), d # c PROVE FALSE
      BY <2>1, <3>4 DEF Answer
    <3>5. ASSUME AgentBegins \/ Die \/ \E b \in Artefacts : AgentWrites(b) PROVE FALSE
      <4>1. NoPipeline.said = "none"
        BY DEF NoPipeline
      <4>2. pipeline' = pipeline \/ pipeline' = [d \in Calls |-> NoPipeline]
        BY <3>5 DEF AgentBegins, AgentWrites, Die
      <4> QED
        BY <4>1, <4>2
    <3> QED
      BY <3>1, <3>2, <3>3, <3>4, <3>5 DEF ShipNext, PipelineStep
  <2>3. pipeline[c].pc = "answer" /\ LastEvent(c) = "finished"
    BY <2>1, <2>2 DEF Answer, InStage, Records
  <2>4. pipeline[c].exit = 0
    BY <2>3 DEF LastEvent
  <2> QED
    BY <2>3, <2>4 DEF IInv, FromBuild
<1> QED
  BY <1>1, <1>2, <1>3, PTL DEF ShipSpec, BuiltMeansServed

-----------------------------------------------------------------------------
(* BackupPipeline: the types, and the steps by who takes them.             *)

\* The steps at which a task has a repository in hand.
CopySteps == {"scan", "pid", "loop", "read", "drop", "eof", "wait", "verify", "good", "bad"}

TaskRecord == [step : TaskSteps, repo : 1..(NumRepos + 1), ok : BOOLEAN]
Job == [repo : Repos, success : BOOLEAN]

\* The types, by what changes together.
StatusOK == running \in BOOLEAN /\ stage \in Stages
ScreenOK == shown \in [running : BOOLEAN, phase : Phases]
JobsOK == jobs \in Seq(Job) /\ Len(jobs) <= MaxJobs
CallsOK == cancelled \in BOOLEAN /\ call \in [Callers -> CallSteps]
ChildrenOK == /\ rsyncPid \in Pids \cup {NoPid}
              /\ rsync \subseteq Pids /\ clean \subseteq Pids /\ cut \subseteq Runs
TasksOK == task \in [Runs -> TaskRecord]

\* A task has a repository that exists in hand, and a new one begins with the first.
Positions ==
    \A r \in Runs :
        /\ task[r].step \in CopySteps => task[r].repo \in Repos
        /\ task[r].step = "unused" => task[r].repo = 1 /\ task[r].ok

BackupTypes == StatusOK /\ ScreenOK /\ JobsOK /\ CallsOK /\ ChildrenOK /\ TasksOK /\ Positions

LEMMA BackupTypesAre == BackupTypes => BackupTypeOK
  BY DEF BackupTypes, BackupTypeOK, StatusOK, ScreenOK, JobsOK, CallsOK, ChildrenOK, TasksOK, Job,
         TaskRecord

\* What a trigger or a cancel does, what a task does before and between the repositories, while it
\* copies one, and at its end.
Callings(c) == TriggerCheck(c) \/ CancelCheck(c) \/ CallStep(c)
Pipeline(r) == Connect(r) \/ AllDone(r) \/ NextCancelled(r) \/ NextRepo(r)
Copying(r) ==
    \/ ScanEndsEarly(r) \/ ScanSpawns(r) \/ StorePid(r) \/ LoopCancelled(r) \/ DropPid(r)
    \/ LoopGoesOn(r) \/ ReadData(r) \/ ReadFails(r) \/ ReadEnd(r) \/ ClearPid(r) \/ Wait(r)
    \/ Verify(r)
Ending(r) == Timeout(r) \/ EndStatus(r) \/ EndShown(r)

USE DEF At, Step, status

LEMMA BackupSteps ==
    ASSUME [BackupNext]_vars
    PROVE  \/ \E c \in Callers : Callings(c)
           \/ \E r \in Runs : Pipeline(r) \/ Record(r) \/ Copying(r) \/ Ending(r)
           \/ \E p \in Pids : RsyncExits(p)
           \/ UNCHANGED vars
  BY DEF BackupNext, CallStep, TaskStep, ChildStep, Callings, Pipeline, Copying, Ending

\* A task in its place has the fields of its type.
LEMMA TaskFields ==
    ASSUME TasksOK, NEW r \in Runs
    PROVE  /\ task[r] \in TaskRecord
           /\ task[r].step \in TaskSteps /\ task[r].repo \in 1..(NumRepos + 1) /\ task[r].ok \in BOOLEAN
  BY DEF TasksOK, TaskRecord

\* Nothing but the task r changes its place.
OnlyTask(r) == \A q \in Runs \ {r} : task'[q] = task[q]

LEMMA Goes ==
    ASSUME TasksOK, NEW r \in Runs, NEW step \in TaskSteps, Advance(r, step)
    PROVE  /\ TasksOK' /\ OnlyTask(r)
           /\ task'[r].step = step /\ task'[r].repo = task[r].repo /\ task'[r].ok = task[r].ok
<1>1. task[r] \in TaskRecord /\ task' = [task EXCEPT ![r] = [task[r] EXCEPT !.step = step]]
  BY TaskFields DEF Advance
<1>2. [task[r] EXCEPT !.step = step] \in TaskRecord
  BY <1>1 DEF TaskRecord
<1> QED
  BY <1>1, <1>2 DEF TasksOK, OnlyTask, TaskRecord

LEMMA GiveUpTypes ==
    ASSUME TasksOK, NEW r \in Runs, GiveUp(r)
    PROVE  /\ TasksOK' /\ OnlyTask(r)
           /\ task'[r].step = "end status" /\ task'[r].repo = task[r].repo /\ ~task'[r].ok
<1> DEFINE t == [[task[r] EXCEPT !.step = "end status"] EXCEPT !.ok = FALSE]
<1>1. /\ task[r] \in TaskRecord /\ task' = [task EXCEPT ![r] = t]
      /\ task'[r].step = "end status" /\ task'[r].repo = task[r].repo /\ ~task'[r].ok
  BY DEF GiveUp, TasksOK, TaskRecord
<1>2. t \in TaskRecord
  BY <1>1 DEF TaskRecord, TaskSteps
<1> QED
  BY <1>1, <1>2 DEF TasksOK, OnlyTask

LEMMA RecordTask ==
    ASSUME BackupTypes, NEW r \in Runs, Record(r)
    PROVE  /\ TasksOK' /\ OnlyTask(r)
           /\ task'[r].step = "next" /\ task'[r].repo = task[r].repo + 1
           /\ task'[r].ok = (task[r].ok /\ At(r, "good"))
           /\ task[r].repo \in Repos
<1> DEFINE t == [step |-> "next", repo |-> task[r].repo + 1, ok |-> task[r].ok /\ At(r, "good")]
<1>1. task' = [task EXCEPT ![r] = t]
  BY DEF Record
<1>2. task[r].repo \in Repos /\ task[r] \in TaskRecord /\ NumRepos \in Nat
  BY TaskFields, BackupAssumption DEF Record, BackupTypes, Positions, CopySteps
<1>3. t.repo \in 1..(NumRepos + 1)
  BY <1>2 DEF Repos
<1>4. t.step \in TaskSteps /\ t.ok \in BOOLEAN
  BY DEF TaskSteps, WorkSteps
<1>5. t \in TaskRecord
  BY <1>3, <1>4 DEF TaskRecord
<1> QED
  BY <1>1, <1>2, <1>5 DEF TasksOK, OnlyTask, TaskRecord, BackupTypes

-----------------------------------------------------------------------------
\* The history of jobs keeps its limit.
LEMMA RecordJobs ==
    ASSUME BackupTypes, NEW r \in Runs, Record(r)
    PROVE  /\ JobsOK'
           /\ Len(jobs') >= 1 /\ jobs'[1] = [repo |-> task[r].repo, success |-> At(r, "good")]
           /\ Len(jobs') >= IF Len(jobs) + 1 <= MaxJobs THEN Len(jobs) + 1 ELSE MaxJobs
           /\ \A i \in 2..Len(jobs') : jobs'[i] = jobs[i - 1]
<1> DEFINE job == [repo |-> task[r].repo, success |-> At(r, "good")]
           all == <<job>> \o jobs
<1>1. task[r].repo \in Repos /\ job \in Job
  BY DEF Record, BackupTypes, Positions, CopySteps, Job
<1>2. <<job>> \in Seq(Job) /\ jobs \in Seq(Job) /\ Len(jobs) <= MaxJobs /\ Len(jobs) \in Nat
  BY <1>1 DEF BackupTypes, JobsOK
<1>3. /\ all \in Seq(Job) /\ Len(all) = Len(jobs) + 1 /\ all[1] = job
      /\ \A i \in 2..Len(all) : all[i] = jobs[i - 1]
  BY <1>1, <1>2
<1>4. MaxJobs >= 1 /\ MaxJobs \in Nat
  BY <1>1, BackupAssumption DEF Repos
<1>5. jobs' = IF Len(all) > MaxJobs THEN SubSeq(all, 1, MaxJobs) ELSE all
  BY DEF Record
<1>6. CASE Len(all) > MaxJobs
  <2>1. /\ SubSeq(all, 1, MaxJobs) \in Seq(Job) /\ Len(SubSeq(all, 1, MaxJobs)) = MaxJobs
        /\ \A i \in 1..MaxJobs : SubSeq(all, 1, MaxJobs)[i] = all[i]
    BY <1>3, <1>4, <1>6
  <2> QED
    BY <1>2, <1>3, <1>4, <1>5, <1>6, <2>1 DEF JobsOK
<1>7. CASE ~(Len(all) > MaxJobs)
  BY <1>2, <1>3, <1>4, <1>5, <1>7 DEF JobsOK
<1> QED
  BY <1>6, <1>7
-----------------------------------------------------------------------------
\* What is shown is left alone or becomes a phase.
LEMMA ScreenStep ==
    ASSUME ScreenOK, NEW b \in BOOLEAN, NEW p \in Phases,
           shown' = shown \/ shown' = [running |-> b, phase |-> p]
    PROVE  ScreenOK'
<1>1. CASE shown' = shown
  BY <1>1 DEF ScreenOK
<1>2. CASE shown' = [running |-> b, phase |-> p]
  BY <1>2 DEF ScreenOK
<1> QED
  BY <1>1, <1>2

LEMMA BackupTypesInit == BackupInit => BackupTypes
<1> SUFFICES ASSUME BackupInit PROVE BackupTypes
  OBVIOUS
<1>1. MaxJobs \in Nat /\ NumRepos \in Nat
  BY BackupAssumption
<1>2. JobsOK
  BY <1>1 DEF BackupInit, JobsOK
<1>3. TasksOK /\ Positions
  BY <1>1 DEF BackupInit, TasksOK, TaskRecord, Positions, TaskSteps, CopySteps
<1>4. StatusOK /\ ScreenOK
  BY DEF BackupInit, StatusOK, ScreenOK, Stages, Phases
<1>5. CallsOK /\ ChildrenOK
  BY DEF BackupInit, CallsOK, ChildrenOK, CallSteps
<1> QED
  BY <1>2, <1>3, <1>4, <1>5 DEF BackupTypes

\* A step of a task keeps the types of the tasks, and nobody else's place.
LEMMA TasksStep ==
    ASSUME BackupTypes, NEW r \in Runs, Pipeline(r) \/ Record(r) \/ Copying(r) \/ Ending(r)
    PROVE  TasksOK' /\ Positions' /\ OnlyTask(r)
<1>1. TasksOK /\ Positions /\ task[r].repo \in 1..(NumRepos + 1) /\ NumRepos \in Nat
  BY TaskFields, BackupAssumption DEF BackupTypes
<1>2. CASE Pipeline(r)
  <2>1. PICK step \in {"next", "end status", "scan"} :
           /\ Advance(r, step) \/ GiveUp(r)
           /\ step = "scan" => task[r].repo <= NumRepos
    BY <1>2 DEF Pipeline, Connect, AllDone, NextCancelled, NextRepo
  <2>2. step \in TaskSteps
    BY DEF TaskSteps, WorkSteps
  <2>3. CASE Advance(r, step)
    <3>1. TasksOK' /\ OnlyTask(r) /\ task'[r].step = step /\ task'[r].repo = task[r].repo
      BY <1>1, <2>2, <2>3, Goes
    <3>2. step # "unused" /\ (step \in CopySteps => step = "scan")
      BY <2>1 DEF CopySteps
    <3>3. step = "scan" => task[r].repo \in Repos
      BY <1>1, <2>1 DEF Repos
    <3> QED
      BY <1>1, <3>1, <3>2, <3>3 DEF OnlyTask, Positions, CopySteps
  <2>4. CASE GiveUp(r)
    BY <1>1, <2>4, GiveUpTypes DEF CopySteps, OnlyTask, Positions
  <2> QED
    BY <2>1, <2>3, <2>4
<1>3. CASE Record(r)
  BY <1>1, <1>3, RecordTask DEF CopySteps, OnlyTask, Positions
<1>4. CASE Copying(r)
  <2>1. PICK step \in CopySteps : Advance(r, step)
    BY <1>4 DEF Copying, ScanEndsEarly, ScanSpawns, StorePid, LoopCancelled, DropPid, LoopGoesOn,
                ReadData, ReadFails, ReadEnd, ClearPid, Wait, Verify, CopySteps
  <2>2. task[r].repo \in Repos
    BY <1>1, <1>4
       DEF Copying, ScanEndsEarly, ScanSpawns, StorePid, LoopCancelled, DropPid, LoopGoesOn,
           ReadData, ReadFails, ReadEnd, ClearPid, Wait, Verify, CopySteps, Positions
  <2>3. step \in TaskSteps /\ step # "unused"
    BY DEF TaskSteps, WorkSteps, CopySteps
  <2> QED
    BY <1>1, <2>1, <2>2, <2>3, Goes DEF OnlyTask, Positions
<1>5. CASE Ending(r)
  <2>1. PICK step \in {"end shown", "ended"} : Advance(r, step) \/ GiveUp(r)
    BY <1>5 DEF Ending, Timeout, EndStatus, EndShown
  <2>2. step \in TaskSteps
    BY DEF TaskSteps
  <2>3. CASE Advance(r, step)
    <3>1. TasksOK' /\ OnlyTask(r) /\ task'[r].step = step /\ task'[r].repo = task[r].repo
      BY <1>1, <2>2, <2>3, Goes
    <3>2. step # "unused" /\ step \notin CopySteps
      BY <1>1, <2>1 DEF CopySteps, Repos
    <3> QED
      BY <1>1, <2>1, <3>1, <3>2 DEF OnlyTask, Positions, CopySteps
  <2>4. CASE GiveUp(r)
    BY <1>1, <2>4, GiveUpTypes DEF CopySteps, OnlyTask, Positions
  <2> QED
    BY <2>1, <2>3, <2>4
<1> QED
  BY <1>2, <1>3, <1>4, <1>5

LEMMA BackupTypesNext == BackupTypes /\ [BackupNext]_vars => BackupTypes'
<1> SUFFICES ASSUME BackupTypes, [BackupNext]_vars PROVE BackupTypes'
  OBVIOUS
<1>1. ASSUME NEW c \in Callers, Callings(c) PROVE BackupTypes'
  <2>1. call' \in [Callers -> CallSteps] /\ (call' # call => c \in Callers)
    BY <1>1
       DEF Callings, TriggerCheck, CancelCheck, CallStep, TriggerMark, TriggerShow, TriggerSpawn,
           CancelFlag, CancelKill, CancelUnmark, CancelHide, BackupTypes, CallsOK, CallSteps
  <2>2. /\ StatusOK' /\ cancelled' \in BOOLEAN
        /\ \E b \in BOOLEAN : shown' = shown \/ shown' = [running |-> b, phase |-> "Idle"]
    BY <1>1
       DEF Callings, TriggerCheck, CancelCheck, CallStep, TriggerMark, TriggerShow, TriggerSpawn,
           CancelFlag, CancelKill, CancelUnmark, CancelHide, BackupTypes, StatusOK, CallsOK, Stages
  <2>6. ScreenOK'
    <3>1. "Idle" \in Phases /\ ScreenOK
      BY DEF Phases, BackupTypes
    <3> QED
      BY <2>2, <3>1, ScreenStep
  <2>3. JobsOK' /\ ChildrenOK'
    BY <1>1
       DEF Callings, TriggerCheck, CancelCheck, CallStep, TriggerMark, TriggerShow, TriggerSpawn,
           CancelFlag, CancelKill, CancelUnmark, CancelHide, BackupTypes, JobsOK, ChildrenOK
  <2>4. CASE TriggerSpawn(c)
    <3>1. PICK r \in Runs : task[r].step = "unused" /\ Advance(r, "connect")
      BY <2>4 DEF TriggerSpawn, Advance
    <3>2. "connect" \in TaskSteps /\ "connect" \notin CopySteps
      BY DEF CopySteps, TaskSteps, WorkSteps
    <3>3. TasksOK' /\ Positions'
      BY <3>1, <3>2, Goes DEF BackupTypes, Positions, OnlyTask
    <3> QED
      BY <2>1, <2>2, <2>6, <2>3, <3>3 DEF BackupTypes, CallsOK
  <2>5. CASE UNCHANGED task
    BY <2>1, <2>2, <2>6, <2>3, <2>5 DEF BackupTypes, TasksOK, Positions, CallsOK
  <2> QED
    BY <1>1, <2>4, <2>5
       DEF Callings, TriggerCheck, CancelCheck, CallStep, TriggerMark, TriggerShow,
           CancelFlag, CancelKill, CancelUnmark, CancelHide
<1>2. ASSUME NEW r \in Runs, Pipeline(r) \/ Record(r) \/ Copying(r) \/ Ending(r)
      PROVE  BackupTypes'
  <2>1. TasksOK' /\ Positions'
    BY <1>2, TasksStep
  <2>2. CASE Record(r)
    <3>1. StatusOK' /\ ScreenOK' /\ CallsOK' /\ ChildrenOK'
      BY <2>2 DEF Record, BackupTypes, StatusOK, ScreenOK, ChildrenOK, CallsOK
    <3> QED
      BY <2>1, <2>2, <3>1, RecordJobs DEF BackupTypes
  <2>3. CASE Pipeline(r)
    <3>1. StatusOK' /\ JobsOK' /\ CallsOK' /\ ChildrenOK'
      BY <2>3 DEF Pipeline, Connect, AllDone, NextCancelled, NextRepo, BackupTypes, StatusOK,
                  JobsOK, ChildrenOK, CallsOK
    <3>2. shown' = shown \/ shown' = [running |-> TRUE, phase |-> "Scanning"]
      BY <2>3 DEF Pipeline, Connect, AllDone, NextCancelled, NextRepo
    <3>3. "Scanning" \in Phases /\ ScreenOK
      BY DEF Phases, BackupTypes
    <3>4. ScreenOK'
      BY <3>2, <3>3, ScreenStep
    <3> QED
      BY <2>1, <3>1, <3>4 DEF BackupTypes
  <2>4. CASE Copying(r)
    <3>1. Pid(r) \in Pids \/ task[r].step \notin CopySteps
      BY DEF Pid, Pids, BackupTypes, Positions
    <3>2. ChildrenOK'
      BY <2>4, <3>1
         DEF Copying, ScanEndsEarly, ScanSpawns, StorePid, LoopCancelled, DropPid, LoopGoesOn,
             ReadData, ReadFails, ReadEnd, ClearPid, Wait, Verify, BackupTypes, ChildrenOK, CopySteps
    <3>3. StatusOK' /\ ScreenOK' /\ JobsOK' /\ CallsOK'
      BY <2>4
         DEF Copying, ScanEndsEarly, ScanSpawns, StorePid, LoopCancelled, DropPid, LoopGoesOn,
             ReadData, ReadFails, ReadEnd, ClearPid, Wait, Verify, BackupTypes, StatusOK, ScreenOK,
             JobsOK, CallsOK, Phases
    <3> QED
      BY <2>1, <3>2, <3>3 DEF BackupTypes
  <2>5. CASE Ending(r)
    <3>1. JobsOK' /\ CallsOK' /\ ChildrenOK'
      BY <2>5 DEF Ending, Timeout, EndStatus, EndShown, BackupTypes, JobsOK, ChildrenOK, CallsOK
    <3>2. /\ StatusOK'
          /\ \E p \in {"Done", "Failed"} : shown' = shown \/ shown' = [running |-> FALSE, phase |-> p]
      BY <2>5 DEF Ending, Timeout, EndStatus, EndShown, BackupTypes, StatusOK, Stages
    <3>3. {"Done", "Failed"} \subseteq Phases /\ ScreenOK
      BY DEF Phases, BackupTypes
    <3>4. ScreenOK'
      BY <3>2, <3>3, ScreenStep
    <3> QED
      BY <2>1, <3>1, <3>2, <3>4 DEF BackupTypes
  <2> QED
    BY <1>2, <2>2, <2>3, <2>4, <2>5
<1>3. ASSUME NEW p \in Pids, RsyncExits(p) PROVE BackupTypes'
  BY <1>3 DEF RsyncExits, BackupTypes, StatusOK, ScreenOK, JobsOK, CallsOK, ChildrenOK, TasksOK,
              Positions
<1>4. CASE UNCHANGED vars
  BY <1>4 DEF vars, BackupTypes, StatusOK, ScreenOK, JobsOK, CallsOK, ChildrenOK, TasksOK, Positions
<1> QED
  BY <1>1, <1>2, <1>3, <1>4, BackupSteps
-----------------------------------------------------------------------------
(* The children: whoever has one in hand is at a step that kills it, sees  *)
(* it end, or is recorded as having lost it.                               *)

Holding == {"pid", "loop", "read"}
Naming  == {"loop", "read", "drop", "eof"}

ChildrenWatched ==
    /\ \A p \in rsync : p[1] \in cut \/ (task[p[1]].step \in Holding /\ Pid(p[1]) = p)
    /\ rsyncPid # NoPid =>
         rsyncPid[1] \in cut \/ (task[rsyncPid[1]].step \in Naming /\ Pid(rsyncPid[1]) = rsyncPid)

LEMMA WatchedIsOwned == BackupTypes /\ ChildrenWatched => NoStrayChild
  BY DEF ChildrenWatched, NoStrayChild, Owned, Working, WorkSteps, Holding, Naming

\* What a step of a task does to the children, as far as they are watched.
LEMMA WatchStep ==
    ASSUME BackupTypes, ChildrenWatched, NEW r \in Runs,
           OnlyTask(r), cut \subseteq cut',
           \A p \in rsync' \ rsync : p = Pid(r) /\ Pid(r)' = p /\ task'[r].step \in Holding,
           rsyncPid' = rsyncPid \/ rsyncPid' = NoPid
              \/ (rsyncPid' = Pid(r) /\ Pid(r)' = Pid(r) /\ task'[r].step \in Naming),
           \/ r \in cut'
           \/ task[r].step \notin Holding
           \/ task'[r].step \in Holding /\ Pid(r)' = Pid(r)
           \/ Pid(r) \notin rsync',
           \/ r \in cut'
           \/ task[r].step \notin Naming
           \/ task'[r].step \in Naming /\ Pid(r)' = Pid(r)
           \/ rsyncPid' # rsyncPid
    PROVE  ChildrenWatched'
<1>1. ASSUME NEW p \in rsync'
      PROVE  p[1] \in cut' \/ (task'[p[1]].step \in Holding /\ Pid(p[1])' = p)
  <2>1. CASE p \notin rsync
    BY <1>1, <2>1 DEF Pid
  <2>2. CASE p \in rsync /\ p[1] # r
    <3>1. p[1] \in Runs
      BY <2>2 DEF BackupTypes, ChildrenOK, Pids
    <3> QED
      BY <2>2, <3>1 DEF ChildrenWatched, OnlyTask, Pid
  <2>3. CASE p \in rsync /\ p[1] = r
    BY <1>1, <2>3 DEF ChildrenWatched
  <2> QED
    BY <2>1, <2>2, <2>3
<1>2. ASSUME rsyncPid' # NoPid
      PROVE  (\/ rsyncPid[1] \in cut
              \/ task[rsyncPid[1]].step \in Naming /\ Pid(rsyncPid[1]) = rsyncPid)'
  <2>1. CASE rsyncPid' = Pid(r) /\ Pid(r)' = Pid(r) /\ task'[r].step \in Naming
    BY <2>1 DEF Pid
  <2>2. CASE rsyncPid' = rsyncPid /\ rsyncPid[1] # r
    <3>1. rsyncPid[1] \in Runs
      BY <1>2, <2>2 DEF BackupTypes, ChildrenOK, Pids
    <3> QED
      BY <1>2, <2>2, <3>1 DEF ChildrenWatched, OnlyTask, Pid
  <2>3. CASE rsyncPid' = rsyncPid /\ rsyncPid[1] = r
    BY <1>2, <2>3 DEF ChildrenWatched
  <2> QED
    BY <1>2, <2>1, <2>2, <2>3
<1> QED
  BY <1>1, <1>2 DEF ChildrenWatched

LEMMA WatchedByTask ==
    ASSUME BackupTypes, ChildrenWatched, NEW r \in Runs,
           Pipeline(r) \/ Record(r) \/ Copying(r) \/ Ending(r)
    PROVE  ChildrenWatched'
<1>1. OnlyTask(r) /\ TasksOK
  BY TasksStep DEF BackupTypes
<1>2. Holding \cup Naming \subseteq TaskSteps /\ {"bad", "wait"} \subseteq TaskSteps
  BY DEF Holding, Naming, TaskSteps, WorkSteps
<1>3. ASSUME task[r].step \notin Holding \cup Naming, UNCHANGED <<rsync, rsyncPid>>, cut \subseteq cut'
      PROVE  ChildrenWatched'
  BY <1>1, <1>3, WatchStep
<1>4. CASE Pipeline(r) \/ Record(r) \/ ScanEndsEarly(r) \/ Wait(r) \/ Verify(r)
           \/ EndStatus(r) \/ EndShown(r)
  BY <1>3, <1>4 DEF Pipeline, Connect, AllDone, NextCancelled, NextRepo, Record, ScanEndsEarly, Wait,
                    Verify, EndStatus, EndShown, Holding, Naming
<1>5. CASE ScanSpawns(r)
  <2>1. task'[r].step = "pid" /\ task'[r].repo = task[r].repo
    BY <1>1, <1>2, <1>5, Goes DEF ScanSpawns, Holding
  <2> QED
    BY <1>1, <1>5, <2>1, WatchStep DEF ScanSpawns, Holding, Naming, Pid
<1>6. CASE StorePid(r)
  <2>1. task'[r].step = "loop" /\ task'[r].repo = task[r].repo
    BY <1>1, <1>2, <1>6, Goes DEF StorePid, Holding
  <2> QED
    BY <1>1, <1>6, <2>1, WatchStep DEF StorePid, Holding, Naming, Pid
<1>7. CASE LoopCancelled(r)
  <2>1. task'[r].step = "drop" /\ task'[r].repo = task[r].repo
    BY <1>1, <1>2, <1>7, Goes DEF LoopCancelled, Naming
  <2> QED
    BY <1>1, <1>7, <2>1, WatchStep DEF LoopCancelled, Holding, Naming, Pid
<1>8. CASE LoopGoesOn(r) \/ ReadData(r)
  <2>1. task'[r].step \in {"loop", "read"} /\ task'[r].repo = task[r].repo
    BY <1>1, <1>2, <1>8, Goes DEF LoopGoesOn, ReadData, Holding
  <2> QED
    BY <1>1, <1>8, <2>1, WatchStep DEF LoopGoesOn, ReadData, Holding, Naming, Pid
<1>9. CASE DropPid(r) \/ ClearPid(r)
  <2>1. task[r].step \notin Holding /\ rsyncPid' = NoPid /\ UNCHANGED <<rsync, cut>>
    BY <1>9 DEF DropPid, ClearPid, Holding
  <2>2. CASE rsyncPid = NoPid
    BY <1>1, <2>1, <2>2 DEF ChildrenWatched, OnlyTask, BackupTypes, ChildrenOK, Pids, Pid
  <2>3. CASE rsyncPid # NoPid
    BY <1>1, <2>1, <2>3, WatchStep
  <2> QED
    BY <2>2, <2>3
<1>10. CASE ReadFails(r) \/ Timeout(r)
  <2>1. /\ UNCHANGED <<rsync, rsyncPid>> /\ cut \subseteq cut'
        /\ r \in cut' \/ task[r].step \notin Holding \cup Naming
    BY <1>10 DEF ReadFails, Timeout, Holding, Naming
  <2> QED
    BY <1>1, <2>1, WatchStep
<1>11. CASE ReadEnd(r)
  <2>1. task'[r].step = "eof" /\ task'[r].repo = task[r].repo
    BY <1>1, <1>2, <1>11, Goes DEF ReadEnd, Naming
  <2> QED
    BY <1>1, <1>11, <2>1, WatchStep DEF ReadEnd, Holding, Naming, Pid
<1> QED
  BY <1>4, <1>5, <1>6, <1>7, <1>8, <1>9, <1>10, <1>11 DEF Copying, Ending

LEMMA WatchedNext == BackupTypes /\ ChildrenWatched /\ [BackupNext]_vars => ChildrenWatched'
<1> SUFFICES ASSUME BackupTypes, ChildrenWatched, [BackupNext]_vars PROVE ChildrenWatched'
  OBVIOUS
<1>1. ASSUME NEW c \in Callers, Callings(c) PROVE ChildrenWatched'
  <2>1. UNCHANGED <<rsyncPid, cut>> /\ rsync' \subseteq rsync
    BY <1>1 DEF Callings, TriggerCheck, CancelCheck, CallStep, TriggerMark, TriggerShow, TriggerSpawn,
                CancelFlag, CancelKill, CancelUnmark, CancelHide
  <2>2. CASE TriggerSpawn(c)
    <3>1. PICK r \in Runs : task[r].step = "unused" /\ Advance(r, "connect")
      BY <2>2 DEF TriggerSpawn, Advance
    <3>2. OnlyTask(r)
      BY <3>1, Goes DEF BackupTypes, TaskSteps, WorkSteps
    <3> QED
      BY <2>1, <3>1, <3>2, WatchStep DEF Holding, Naming
  <2>3. CASE UNCHANGED task
    BY <2>1, <2>3 DEF ChildrenWatched, Pid
  <2> QED
    BY <1>1, <2>2, <2>3
       DEF Callings, TriggerCheck, CancelCheck, CallStep, TriggerMark, TriggerShow,
           CancelFlag, CancelKill, CancelUnmark, CancelHide
<1>2. ASSUME NEW r \in Runs, Pipeline(r) \/ Record(r) \/ Copying(r) \/ Ending(r)
      PROVE  ChildrenWatched'
  BY <1>2, WatchedByTask
<1>3. ASSUME NEW p \in Pids, RsyncExits(p) PROVE ChildrenWatched'
  BY <1>3 DEF RsyncExits, ChildrenWatched, Pid
<1>4. CASE UNCHANGED vars
  BY <1>4 DEF vars, ChildrenWatched, Pid
<1> QED
  BY <1>1, <1>2, <1>3, <1>4, BackupSteps

-----------------------------------------------------------------------------
(* What is shown: as long as something is shown as going on, somebody is   *)
(* left who will take it back, whoever else has written in between.        *)

Writing(r) == Working(r) \/ task[r].step = "end status"

StartHeld == (running \/ stage = "RunningBackup") =>
                (\E c \in Callers : call[c] \in {"show", "spawn"}) \/ (\E r \in Runs : Writing(r))
ScreenHeld ==
    /\ shown.running => (\E c \in Callers : call[c] = "spawn") \/ (\E r \in Runs : Active(r))
    /\ shown.phase \notin {"Idle", "Done", "Failed"} => \E r \in Runs : Active(r)

Held == StartHeld /\ ScreenHeld

LEMMA HeldMeansShown == BackupTypes /\ Held => RestIsShown
  BY DEF Held, StartHeld, ScreenHeld, RestIsShown, AtRest, Writing, Active, Working, WorkSteps

LEMMA HeldByCaller ==
    ASSUME BackupTypes, Held, NEW c \in Callers, Callings(c)
    PROVE  Held'
<1> USE DEF BackupTypes, CallsOK
<1>1. CASE TriggerCheck(c) \/ CancelCheck(c) \/ CancelFlag(c) \/ CancelKill(c) \/ CancelUnmark(c)
           \/ CancelHide(c)
  <2>1. /\ \A d \in Callers : call[d] \in {"show", "spawn"} => call'[d] = call[d]
        /\ UNCHANGED task
    BY <1>1 DEF TriggerCheck, CancelCheck, CancelFlag, CancelKill, CancelUnmark, CancelHide
  <2>2. /\ UNCHANGED <<running, stage>> \/ (~running' /\ stage' = "Idle")
        /\ UNCHANGED shown \/ (~shown'.running /\ shown'.phase = "Idle")
    BY <1>1 DEF TriggerCheck, CancelCheck, CancelFlag, CancelKill, CancelUnmark, CancelHide
  <2>3. StartHeld'
    BY <2>1, <2>2 DEF Held, StartHeld, Writing, Working
  <2>4. ScreenHeld'
    BY <2>1, <2>2 DEF Held, ScreenHeld, Active
  <2> QED
    BY <2>3, <2>4 DEF Held
<1>2. CASE TriggerMark(c)
  BY <1>2 DEF TriggerMark, Held, StartHeld, ScreenHeld, Writing, Working, Active
<1>3. CASE TriggerShow(c)
  BY <1>3 DEF TriggerShow, Held, StartHeld, ScreenHeld, Writing, Working, Active
<1>4. CASE TriggerSpawn(c)
  <2>1. PICK r \in Runs : task[r].step = "unused" /\ Advance(r, "connect")
    BY <1>4 DEF TriggerSpawn, Advance
  <2>2. task'[r].step = "connect" /\ OnlyTask(r)
    BY <2>1, Goes DEF TaskSteps, WorkSteps
  <2>3. Writing(r)' /\ Active(r)'
    BY <2>2 DEF Writing, Working, WorkSteps, Active
  <2> QED
    BY <1>4, <2>3 DEF TriggerSpawn, Held, StartHeld, ScreenHeld
<1> QED
  BY <1>1, <1>2, <1>3, <1>4 DEF Callings, CallStep

LEMMA HeldByTask ==
    ASSUME BackupTypes, Held, NEW r \in Runs, Pipeline(r) \/ Record(r) \/ Copying(r) \/ Ending(r)
    PROVE  Held'
<1>1. OnlyTask(r) /\ TasksOK /\ UNCHANGED call
  BY TasksStep
     DEF BackupTypes, Pipeline, Connect, AllDone, NextCancelled, NextRepo, Record, Copying,
         ScanEndsEarly, ScanSpawns, StorePid, LoopCancelled, DropPid, LoopGoesOn, ReadData, ReadFails,
         ReadEnd, ClearPid, Wait, Verify, Ending, Timeout, EndStatus, EndShown
<1>2. ASSUME Writing(r)', UNCHANGED <<running, stage>> PROVE Held'
  <2>1. Active(r)'
    BY <1>2 DEF Writing, Working, WorkSteps, Active
  <2> QED
    BY <1>2, <2>1 DEF Held, StartHeld, ScreenHeld
<1>3. CASE Pipeline(r) \/ Record(r) \/ Copying(r) \/ Timeout(r)
  <2>1. UNCHANGED <<running, stage>>
    BY <1>3
       DEF Pipeline, Connect, AllDone, NextCancelled, NextRepo, Record, Copying,
           ScanEndsEarly, ScanSpawns, StorePid, LoopCancelled, DropPid, LoopGoesOn, ReadData,
           ReadFails, ReadEnd, ClearPid, Wait, Verify, Timeout
  <2>2. \/ GiveUp(r) \/ Record(r)
        \/ \E step \in CopySteps \cup {"next", "end status"} : Advance(r, step)
    BY <1>3
       DEF Pipeline, Connect, AllDone, NextCancelled, NextRepo, Copying,
           ScanEndsEarly, ScanSpawns, StorePid, LoopCancelled, DropPid, LoopGoesOn, ReadData,
           ReadFails, ReadEnd, ClearPid, Wait, Verify, Timeout, CopySteps
  <2>3. CASE GiveUp(r) \/ Record(r)
    BY <1>1, <1>2, <2>1, <2>3, GiveUpTypes, RecordTask DEF Writing, Working, WorkSteps
  <2>4. ASSUME NEW step \in CopySteps \cup {"next", "end status"}, Advance(r, step)
        PROVE  Held'
    <3>1. step \in TaskSteps /\ (step \in WorkSteps \/ step = "end status")
      BY <2>4 DEF TaskSteps, WorkSteps, CopySteps
    <3>2. task'[r].step = step
      BY <1>1, <2>4, <3>1, Goes
    <3> QED
      BY <1>2, <2>1, <3>1, <3>2 DEF Writing, Working
  <2> QED
    BY <2>2, <2>3, <2>4
<1>4. CASE EndStatus(r)
  <2>1. task'[r].step = "end shown"
    BY <1>1, <1>4, Goes DEF EndStatus, TaskSteps
  <2> QED
    BY <1>4, <2>1 DEF EndStatus, Held, StartHeld, ScreenHeld, Active
<1>5. CASE EndShown(r)
  <2>1. ~shown'.running /\ shown'.phase \in {"Done", "Failed"} /\ UNCHANGED <<running, stage>>
    BY <1>5 DEF EndShown
  <2>2. \A q \in Runs : Writing(q) => Writing(q)'
    BY <1>1, <1>5 DEF EndShown, OnlyTask, Writing, Working, WorkSteps
  <2> QED
    BY <1>1, <2>1, <2>2 DEF Held, StartHeld, ScreenHeld
<1> QED
  BY <1>3, <1>4, <1>5 DEF Ending

LEMMA HeldNext == BackupTypes /\ Held /\ [BackupNext]_vars => Held'
<1> SUFFICES ASSUME BackupTypes, Held, [BackupNext]_vars PROVE Held'
  OBVIOUS
<1>1. ASSUME NEW p \in Pids, RsyncExits(p) PROVE Held'
  BY <1>1 DEF RsyncExits, Held, StartHeld, ScreenHeld, Writing, Working, Active
<1>2. CASE UNCHANGED vars
  BY <1>2 DEF vars, Held, StartHeld, ScreenHeld, Writing, Working, Active
<1> QED
  BY <1>1, <1>2, BackupSteps, HeldByCaller, HeldByTask

-----------------------------------------------------------------------------
(* "Done": with callers who wait for the last backup to end, one trigger   *)
(* or one task at a time, whose successes are the latest jobs.             *)

Triggering(c) == call[c] \in {"mark", "show", "spawn"}

OneRun ==
    /\ \A c, d \in Callers : Triggering(c) /\ Triggering(d) => c = d
    /\ \A r, q \in Runs : Active(r) /\ Active(q) => r = q
    /\ \A c \in Callers, r \in Runs : Triggering(c) => ~Active(r)

\* The latest jobs are the successes of the repositories before n.
CopiedBefore(n) ==
    /\ Len(jobs) >= n - 1
    /\ \A i \in 1..(n - 1) : jobs[i] = [repo |-> n - i, success |-> TRUE]

Progress ==
    \A r \in Runs :
        /\ Writing(r) /\ task[r].ok => CopiedBefore(task[r].repo)
        /\ task[r].step = "end status" /\ task[r].ok => task[r].repo = NumRepos + 1

DoneIsOver ==
    stage = "Done" =>
        /\ CopiedBefore(NumRepos + 1)
        /\ \A c \in Callers : call[c] \notin {"show", "spawn"}
        /\ \A r \in Runs : ~Writing(r)

LEMMA DoneIsOverMeansCopied == DoneIsOver => DoneMeansAllCopied
  BY BackupAssumption DEF DoneIsOver, DoneMeansAllCopied, CopiedBefore, Repos

\* A recorded success extends the copied repositories by one.
LEMMA RecordCopies ==
    ASSUME BackupTypes, NEW r \in Runs, Record(r), At(r, "good"),
           NEW n, n = task[r].repo, CopiedBefore(n)
    PROVE  CopiedBefore(n + 1)'
<1>1. n \in 1..NumRepos /\ NumRepos \in Nat /\ MaxJobs \in Nat /\ NumRepos <= MaxJobs
  BY RecordTask, BackupAssumption DEF Repos
<1>2. /\ Len(jobs) \in Nat /\ Len(jobs') \in Nat
      /\ jobs'[1] = [repo |-> n, success |-> TRUE]
      /\ Len(jobs') >= IF Len(jobs) + 1 <= MaxJobs THEN Len(jobs) + 1 ELSE MaxJobs
      /\ \A i \in 2..Len(jobs') : jobs'[i] = jobs[i - 1]
  <2>1. jobs' \in Seq(Job) /\ jobs \in Seq(Job)
    BY RecordJobs DEF BackupTypes, JobsOK
  <2>2. jobs'[1] = [repo |-> task[r].repo, success |-> At(r, "good")] /\ At(r, "good") = TRUE
    BY RecordJobs
  <2>3. jobs'[1] = [repo |-> n, success |-> TRUE]
    BY <2>2
  <2>4. /\ Len(jobs') >= IF Len(jobs) + 1 <= MaxJobs THEN Len(jobs) + 1 ELSE MaxJobs
        /\ \A i \in 2..Len(jobs') : jobs'[i] = jobs[i - 1]
    BY RecordJobs
  <2> QED
    BY <2>1, <2>3, <2>4
<1>3. Len(jobs) >= n - 1 /\ \A i \in 1..(n - 1) : jobs[i] = [repo |-> n - i, success |-> TRUE]
  BY DEF CopiedBefore
<1>4. Len(jobs') >= n
  BY <1>1, <1>2, <1>3
<1>5. (n + 1) - 1 = n /\ n \in Nat
  BY <1>1
<1>6. ASSUME NEW i \in 1..((n + 1) - 1) PROVE jobs'[i] = [repo |-> (n + 1) - i, success |-> TRUE]
  <2>1. CASE i = 1
    <3>1. (n + 1) - i = n
      BY <1>1, <2>1
    <3> QED
      BY <1>2, <2>1, <3>1
  <2>2. CASE i # 1
    <3>1. i \in 1..n
      BY <1>5
    <3>2. i \in 2..n /\ i - 1 \in 1..(n - 1)
      BY <1>1, <2>2, <3>1
    <3>3. n - (i - 1) = (n + 1) - i
      BY <1>1, <3>1
    <3>4. jobs'[i] = jobs[i - 1]
      BY <1>1, <1>2, <1>4, <3>2
    <3> QED
      BY <1>3, <3>2, <3>3, <3>4
  <2> QED
    BY <2>1, <2>2
<1>7. Len(jobs') >= (n + 1) - 1
  BY <1>4, <1>5
<1> QED
  BY <1>6, <1>7 DEF CopiedBefore

-----------------------------------------------------------------------------
LEMMA AloneByCaller ==
    ASSUME BackupTypes, Patient, OneRun, NEW c \in Callers, Callings(c)
    PROVE  OneRun'
<1>1. CASE TriggerSpawn(c)
  <2>1. PICK r \in Runs : task[r].step = "unused" /\ Advance(r, "connect")
    BY <1>1 DEF TriggerSpawn, Advance
  <2>2. OnlyTask(r)
    BY <2>1, Goes DEF BackupTypes, TaskSteps, WorkSteps
  <2>3. /\ Triggering(c) /\ ~Triggering(c)'
        /\ \A d \in Callers : Triggering(d)' => Triggering(d)
    BY <1>1 DEF TriggerSpawn, Triggering, BackupTypes, CallsOK
  <2>4. \A q \in Runs : Active(q)' => q = r
    BY <2>2, <2>3 DEF OneRun, OnlyTask, Active
  <2> QED
    BY <2>3, <2>4 DEF OneRun
<1>2. CASE UNCHANGED task
  <2>1. \A r \in Runs : Active(r)' <=> Active(r)
    BY <1>2 DEF Active
  <2>2. CASE TriggerCheck(c)
    <3>1. /\ \A r \in Runs : ~Active(r)
          /\ \A d \in Callers : ~Triggering(d)
      BY <2>2 DEF TriggerCheck, MayTrigger, Triggering
    <3>2. \A d \in Callers : Triggering(d)' => d = c
      BY <2>2, <3>1 DEF TriggerCheck, Triggering, BackupTypes, CallsOK
    <3> QED
      BY <2>1, <3>1, <3>2 DEF OneRun
  <2>3. CASE ~TriggerCheck(c)
    <3>1. \A d \in Callers : Triggering(d)' => Triggering(d)
      BY <1>1, <1>2, <2>3
         DEF Callings, CancelCheck, CallStep, TriggerMark, TriggerShow, TriggerSpawn, CancelFlag,
             CancelKill, CancelUnmark, CancelHide, Triggering, BackupTypes, CallsOK
    <3> QED
      BY <2>1, <3>1 DEF OneRun
  <2> QED
    BY <2>2, <2>3
<1> QED
  BY <1>1, <1>2
     DEF Callings, TriggerCheck, CancelCheck, CallStep, TriggerMark, TriggerShow,
         CancelFlag, CancelKill, CancelUnmark, CancelHide

\* Only an active task moves, and it stays at work until its status is written.
LEMMA TaskWorks ==
    ASSUME BackupTypes, NEW r \in Runs, Pipeline(r) \/ Record(r) \/ Copying(r) \/ Ending(r)
    PROVE  /\ Active(r) /\ UNCHANGED call /\ OnlyTask(r)
           /\ Pipeline(r) \/ Record(r) \/ Copying(r) \/ Timeout(r) =>
                  Working(r) /\ UNCHANGED <<running, stage>>
  BY TasksStep
     DEF Pipeline, Connect, AllDone, NextCancelled, NextRepo, Record, Copying,
         ScanEndsEarly, ScanSpawns, StorePid, LoopCancelled, DropPid, LoopGoesOn, ReadData, ReadFails,
         ReadEnd, ClearPid, Wait, Verify, Ending, Timeout, EndStatus, EndShown, Active, Working,
         WorkSteps

LEMMA AloneByTask ==
    ASSUME BackupTypes, OneRun, NEW r \in Runs, Pipeline(r) \/ Record(r) \/ Copying(r) \/ Ending(r)
    PROVE  OneRun'
<1>1. Active(r) /\ UNCHANGED call /\ OnlyTask(r)
  BY TaskWorks
<1>2. \A q \in Runs : Active(q)' => q = r
  BY <1>1 DEF OneRun, OnlyTask, Active
<1>3. \A d \in Callers : ~Triggering(d)'
  BY <1>1 DEF OneRun, Triggering
<1> QED
  BY <1>2, <1>3 DEF OneRun

-----------------------------------------------------------------------------
Done == OneRun /\ Progress /\ DoneIsOver

LEMMA DoneByCaller ==
    ASSUME BackupTypes, OneRun, Progress, DoneIsOver, NEW c \in Callers, Callings(c)
    PROVE  Progress' /\ DoneIsOver'
<1>1. CASE TriggerSpawn(c)
  <2>1. PICK r \in Runs : task[r].step = "unused" /\ Advance(r, "connect")
    BY <1>1 DEF TriggerSpawn, Advance
  <2>2. /\ OnlyTask(r)
        /\ task'[r].step = "connect" /\ task'[r].repo = 1
    BY <2>1, Goes DEF BackupTypes, Positions, TaskSteps, WorkSteps
  <2>3. UNCHANGED <<jobs, stage>> /\ stage # "Done"
    BY <1>1 DEF TriggerSpawn, DoneIsOver
  <2>4. CopiedBefore(1)'
    <3>1. Len(jobs') \in Nat
      BY <2>3 DEF BackupTypes, JobsOK
    <3> QED
      BY <3>1 DEF CopiedBefore
  <2>5. Progress'
    <3>1. ASSUME NEW q \in Runs, q # r
          PROVE  /\ Writing(q)' /\ task'[q].ok => CopiedBefore(task[q].repo)'
                 /\ task'[q].step = "end status" /\ task'[q].ok => task'[q].repo = NumRepos + 1
      BY <2>2, <2>3, <3>1 DEF Progress, OnlyTask, Writing, Working, CopiedBefore
    <3>2. CopiedBefore(task[r].repo)'
      BY <2>2, <2>4
    <3> QED
      BY <2>2, <3>1, <3>2 DEF Progress
  <2> QED
    BY <2>3, <2>5 DEF DoneIsOver
<1>2. CASE UNCHANGED task
  <2>1. /\ UNCHANGED <<jobs, task>>
        /\ stage' = "Done" => stage = "Done" /\ \A d \in Callers :
              call'[d] \in {"show", "spawn"} => call[d] \in {"show", "spawn"}
    BY <1>1, <1>2
       DEF Callings, TriggerCheck, CancelCheck, CallStep, TriggerMark, TriggerShow, TriggerSpawn,
           CancelFlag, CancelKill, CancelUnmark, CancelHide, BackupTypes, CallsOK
  <2> QED
    BY <2>1 DEF Progress, DoneIsOver, CopiedBefore, Writing, Working
<1> QED
  BY <1>1, <1>2
     DEF Callings, TriggerCheck, CancelCheck, CallStep, TriggerMark, TriggerShow,
         CancelFlag, CancelKill, CancelUnmark, CancelHide

LEMMA DoneByTask ==
    ASSUME BackupTypes, OneRun, Progress, DoneIsOver, NEW r \in Runs,
           Pipeline(r) \/ Record(r) \/ Copying(r) \/ Ending(r)
    PROVE  Progress' /\ DoneIsOver'
<1>1. Active(r) /\ UNCHANGED call /\ OnlyTask(r) /\ TasksOK
  BY TaskWorks DEF BackupTypes
<1>2. ASSUME NEW q \in Runs, q # r PROVE ~Writing(q) /\ ~Writing(q)'
  BY <1>1, <1>2 DEF OneRun, OnlyTask, Writing, Working, WorkSteps, Active
<1>3. ASSUME Writing(r)' /\ task'[r].ok => CopiedBefore(task[r].repo)',
             task'[r].step = "end status" /\ task'[r].ok => task'[r].repo = NumRepos + 1
      PROVE  Progress'
  <2>1. ASSUME NEW q \in Runs, q # r PROVE task'[q].step # "end status"
    BY <1>2, <2>1 DEF Writing
  <2> QED
    BY <1>2, <1>3, <2>1 DEF Progress
<1>4. ASSUME Pipeline(r) \/ Record(r) \/ Copying(r) \/ Timeout(r) PROVE DoneIsOver'
  BY <1>4, TaskWorks DEF DoneIsOver, Writing
<1>5. CASE Record(r)
  <2>1. /\ task'[r].step = "next" /\ task'[r].repo = task[r].repo + 1
        /\ task'[r].ok => task[r].ok /\ At(r, "good")
        /\ Writing(r)
    BY <1>5, RecordTask DEF Record, Writing, Working, WorkSteps
  <2>2. ASSUME task'[r].ok PROVE CopiedBefore(task[r].repo)'
    <3>1. PICK n : n = task[r].repo
      OBVIOUS
    <3>2. CopiedBefore(n + 1)'
      BY <1>5, <2>1, <2>2, <3>1, RecordCopies DEF Progress
    <3> QED
      BY <2>1, <3>1, <3>2
  <2> QED
    BY <1>3, <1>4, <1>5, <2>1, <2>2
<1>6. ASSUME UNCHANGED jobs, Writing(r), GiveUp(r) PROVE Progress'
  BY <1>1, <1>3, <1>6, GiveUpTypes
<1>7. ASSUME UNCHANGED jobs, Writing(r), NEW step \in TaskSteps, Advance(r, step),
             step = "end status" => task[r].repo = NumRepos + 1
      PROVE  Progress'
  <2>1. task'[r].step = step /\ task'[r].repo = task[r].repo /\ task'[r].ok = task[r].ok
    BY <1>1, <1>7, Goes
  <2>2. task'[r].ok => CopiedBefore(task[r].repo)'
    BY <1>7, <2>1 DEF Progress, CopiedBefore
  <2> QED
    BY <1>3, <1>7, <2>1, <2>2
<1>8. CASE Pipeline(r)
  <2>1. /\ UNCHANGED jobs /\ Writing(r)
        /\ \/ GiveUp(r) \/ Advance(r, "next") \/ Advance(r, "scan")
           \/ Advance(r, "end status") /\ task[r].repo > NumRepos
    BY <1>8 DEF Pipeline, Connect, AllDone, NextCancelled, NextRepo, Writing, Working, WorkSteps
  <2>2. task[r].repo > NumRepos => task[r].repo = NumRepos + 1
    BY <1>1, TaskFields, BackupAssumption
  <2>3. {"next", "scan", "end status"} \subseteq TaskSteps
    BY DEF TaskSteps, WorkSteps
  <2> QED
    BY <1>4, <1>6, <1>7, <1>8, <2>1, <2>2, <2>3
<1>9. CASE Copying(r)
  <2>1. UNCHANGED jobs /\ Writing(r) /\ \E step \in CopySteps : Advance(r, step)
    BY <1>9 DEF Copying, ScanEndsEarly, ScanSpawns, StorePid, LoopCancelled, DropPid, LoopGoesOn,
                ReadData, ReadFails, ReadEnd, ClearPid, Wait, Verify, CopySteps, Writing, Working,
                WorkSteps
  <2>2. CopySteps \subseteq TaskSteps /\ "end status" \notin CopySteps
    BY DEF TaskSteps, WorkSteps, CopySteps
  <2> QED
    BY <1>4, <1>7, <1>9, <2>1, <2>2
<1>10. CASE Timeout(r)
  BY <1>4, <1>6, <1>10 DEF Timeout, Writing
<1>11. CASE EndStatus(r)
  <2>1. /\ UNCHANGED jobs /\ Writing(r) /\ task[r].step = "end status"
        /\ stage' = IF task[r].ok THEN "Done" ELSE "Failed"
    BY <1>11 DEF EndStatus, Writing
  <2>2. ~Writing(r)' /\ task'[r].step = "end shown"
    <3>1. task'[r].step = "end shown"
      BY <1>1, <1>11, Goes DEF EndStatus, TaskSteps
    <3> QED
      BY <3>1 DEF Writing, Working, WorkSteps
  <2>3. Progress'
    BY <1>3, <2>2
  <2>4. stage' = "Done" => CopiedBefore(NumRepos + 1)'
    BY <2>1 DEF Progress, CopiedBefore
  <2>5. \A d \in Callers : call'[d] \notin {"show", "spawn"}
    BY <1>1 DEF OneRun, Triggering
  <2> QED
    BY <1>2, <2>2, <2>3, <2>4, <2>5 DEF DoneIsOver
<1>12. CASE EndShown(r)
  <2>1. UNCHANGED <<jobs, stage>>
    BY <1>12 DEF EndShown
  <2>2. ~Writing(r)' /\ task'[r].step = "ended"
    <3>1. task'[r].step = "ended"
      BY <1>1, <1>12, Goes DEF EndShown, TaskSteps
    <3> QED
      BY <3>1 DEF Writing, Working, WorkSteps
  <2>3. Progress'
    BY <1>3, <2>2
  <2> QED
    BY <1>1, <1>2, <2>1, <2>2, <2>3 DEF DoneIsOver, CopiedBefore
<1> QED
  BY <1>5, <1>8, <1>9, <1>10, <1>11, <1>12 DEF Ending

-----------------------------------------------------------------------------
LEMMA BackupStarts == BackupInit => ChildrenWatched /\ Held /\ Done
<1> SUFFICES ASSUME BackupInit PROVE ChildrenWatched /\ Held /\ Done
  OBVIOUS
<1>1. \A r \in Runs : ~Active(r) /\ ~Writing(r)
  BY DEF BackupInit, Active, Writing, Working, WorkSteps
<1>2. \A c \in Callers : ~Triggering(c)
  BY DEF BackupInit, Triggering
<1>3. Done
  BY <1>1, <1>2 DEF BackupInit, Done, OneRun, Progress, DoneIsOver, Writing
<1> QED
  BY <1>3 DEF BackupInit, ChildrenWatched, Held, StartHeld, ScreenHeld

LEMMA DoneNext ==
    ASSUME Patient, BackupTypes, Done, [BackupNext]_vars
    PROVE  Done'
<1>1. ASSUME NEW p \in Pids, RsyncExits(p) PROVE Done'
  BY <1>1 DEF RsyncExits, Done, OneRun, Progress, DoneIsOver, CopiedBefore, Writing, Working, Active,
              Triggering
<1>2. CASE UNCHANGED vars
  BY <1>2 DEF vars, Done, OneRun, Progress, DoneIsOver, CopiedBefore, Writing, Working, Active,
              Triggering
<1> QED
  BY <1>1, <1>2, BackupSteps, AloneByCaller, AloneByTask, DoneByCaller, DoneByTask DEF Done

\* Every step keeps the types: the job history its limit, a task its place among the repositories.
THEOREM BackupsKeepTypes == BackupSpec => []BackupTypeOK
<1>1. BackupTypes => BackupTypeOK
  BY BackupTypesAre
<1> QED
  BY BackupTypesInit, BackupTypesNext, <1>1, PTL DEF BackupSpec

\* Without any assumption about the callers, even with overlapping runs: nothing stays shown as
\* running at rest, and no rsync outlives the run that started it unless the run was cut short.
THEOREM NothingRunsUnseen == BackupSpec => [](RestIsShown /\ NoStrayChild)
<1> DEFINE Inv == BackupTypes /\ ChildrenWatched /\ Held
<1>1. BackupInit => Inv
  BY BackupTypesInit, BackupStarts
<1>2. Inv /\ [BackupNext]_vars => Inv'
  BY BackupTypesNext, WatchedNext, HeldNext
<1>3. Inv => RestIsShown /\ NoStrayChild
  BY WatchedIsOwned, HeldMeansShown
<1> QED
  BY <1>1, <1>2, <1>3, PTL DEF BackupSpec

\* With callers who wait for the last backup to end, "Done" also means that every repository has
\* been copied, and ShownIsTrue holds.
THEOREM BackupsAreShown == ASSUME Patient PROVE BackupSpec => []ShownIsTrue
<1> DEFINE Inv == BackupTypes /\ ChildrenWatched /\ Held /\ Done
<1>1. BackupInit => Inv
  BY BackupTypesInit, BackupStarts
<1>2. Inv /\ [BackupNext]_vars => Inv'
  BY BackupTypesNext, WatchedNext, HeldNext, DoneNext
<1>3. Inv => ShownIsTrue
  BY WatchedIsOwned, HeldMeansShown, DoneIsOverMeansCopied DEF ShownIsTrue, Done
<1> QED
  BY <1>1, <1>2, <1>3, PTL DEF BackupSpec
===============================================================================
