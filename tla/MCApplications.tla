---------------------------- MODULE MCApplications ----------------------------
(* One run for what an application is: the sagas that create, update and delete it, the supervisor of
   its process and the pipelines that build and ship it.  They share no state here; the initial state
   picks the part that moves, so that the numbers of states add up instead of multiplying.  All
   properties are safety properties.  The pipelines are two calls that may build after the build that
   is served, with one artefact that is optional. *)
EXTENDS AppLifecycle, AppSupervisor, ShipPipeline, TLC

CONSTANTS a1, a2, a3, b1, b2, c1, c2, w1, w2, w3
VARIABLES part
VARIABLES anyAssigned, anyFile, anyApps, anyAppsFile, anyRoutes, anyCall, anyUnreached, anyCut

\* The sagas again, with calls that overlap on one application and writes that fail.
Anything == INSTANCE AppLifecycle
    WITH Slugs <- {b1, b2}, MaxPort <- BasePort, DiskFails <- TRUE, Serial <- FALSE, EdgeFails <- FALSE,
         assignments <- anyAssigned, portFile <- anyFile, apps <- anyApps, appsFile <- anyAppsFile,
         routes <- anyRoutes, call <- anyCall, unreached <- anyUnreached, cutShort <- anyCut

anyVars == <<anyAssigned, anyFile, anyApps, anyAppsFile, anyRoutes, anyCall, anyUnreached, anyCut>>
sumVars == <<part, vars, anyVars, supervisorVars, shipVars>>

SumInit ==
    /\ part \in {"sagas", "anything", "supervisor", "restarts", "ship"}
    /\ Init /\ Anything!Init /\ ShipInit
    /\ SupervisorInit

SagasPart      == part = "sagas"      /\ UNCHANGED <<part, anyVars, supervisorVars, shipVars>>
AnythingPart   == part = "anything"   /\ UNCHANGED <<part, vars, supervisorVars, shipVars>>
SupervisorPart == part = "supervisor" /\ UNCHANGED <<part, vars, anyVars, shipVars>>
RestartsPart   == part = "restarts"   /\ UNCHANGED <<part, vars, anyVars, shipVars>>
ShipPart       == part = "ship"       /\ UNCHANGED <<part, vars, anyVars, supervisorVars>>

\* The supervisor with every operation and the death and return of the orchestrator, one call at a
\* time; and with two restarts that overlap.
OnlyRestarts == pc[Boot] = "idle" /\ \A c \in Users : op[c] \in {"none", "restart"}

SumNext ==
    \/ SagasPart /\ Next
    \/ AnythingPart /\ Anything!Next
    \/ SupervisorPart /\ SupervisorNext /\ alone'
    \/ RestartsPart /\ SupervisorNext /\ OnlyRestarts'
    \/ ShipPart /\ ShipNext

SumSpec == SumInit /\ [][SumNext]_sumVars

\* Callers and watcher tasks are interchangeable (and so are slugs, but the other two save more).
Symmetry == Permutations(Clients) \cup Permutations({w1, w2, w3})

(* The types of the parts; the restarts of a process are counted up to their limit. *)
PartsTypeOK ==
    CASE part \in {"supervisor", "restarts"} -> SupervisorTypeOK
      [] part = "ship" -> ShipTypeOK [] part = "anything" -> Anything!TypeOK [] OTHER -> TypeOK
(* Sagas (create, update, delete): whatever overlaps, fails or crashes, the port registry behaves as
   its specification says. *)
OverlapKeepsPorts == Anything!PortRegistrySpec
=============================================================================
