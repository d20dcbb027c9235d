----------------------------- MODULE AppLifecycle -----------------------------
(***************************************************************************)
(* The life of applications in hr-orchestrator (apps_handler.rs): create,  *)
(* update and delete are sagas over three stores that share no transaction *)
(* - the application registry (hr-apps/src/registry.rs), the port registry *)
(* (module PortRegistry) and the route table of hr-edge, which is another  *)
(* process - each of which undoes what it can when a later step fails.     *)
(*                                                                         *)
(* An operation of a store is atomic: it holds the store's write lock      *)
(* across the change in memory and the write of the file.  The calls       *)
(* interleave between their operations, and the orchestrator may die there.*)
(* A row of the registry is represented by its port field and its domain   *)
(* by the slug; the process of the application is in AppSupervisor.        *)
(***************************************************************************)
EXTENDS Integers, FiniteSets

CONSTANTS Slugs, BasePort, MaxPort, DiskFails,   \* as in PortRegistry
          Clients,    \* the concurrent callers
          NoSlug,     \* not a slug: what a caller at rest works on
          Serial,     \* whether the callers never overlap two calls on one slug
          EdgeFails   \* whether a request to hr-edge may fail

ASSUME LifecycleAssumption ==
    /\ BasePort \in Nat /\ MaxPort \in Nat /\ BasePort <= MaxPort
    /\ NoSlug \notin Slugs
    /\ DiskFails \in BOOLEAN /\ Serial \in BOOLEAN /\ EdgeFails \in BOOLEAN

VARIABLES
    assignments, portFile,   \* the port registry, in memory and in its file
    apps, appsFile,          \* the application registry: slug -> port field of its row
    routes,                  \* the routes of hr-edge: slug (its domain) -> target port
    call,                    \* of each caller: the next step, the slug and the port in hand
    unreached,               \* history: the slugs whose last request to hr-edge failed
    cutShort                 \* history: the slugs whose last call ended with the orchestrator

Ports == INSTANCE PortRegistry

portVars == <<assignments, portFile>>
appVars  == <<apps, appsFile>>
history  == <<unreached, cutShort>>
vars     == <<portVars, appVars, routes, call, history>>

Idle == "idle"

CreateSteps == {"assign", "scaffold", "upsert", "undo", "route"}
UpdateSteps == {"rewrite", "reroute"}
DeleteSteps == {"unroute", "remove", "release"}
Steps == {Idle} \cup CreateSteps \cup UpdateSteps \cup DeleteSteps

NoPort == 0
AtRest == [step |-> Idle, slug |-> NoSlug, port |-> NoPort]

Init ==
    /\ Ports!Init
    /\ apps = Ports!EmptyMap /\ appsFile = Ports!EmptyMap
    /\ routes = Ports!EmptyMap
    /\ call = [c \in Clients |-> AtRest]
    /\ unreached = {} /\ cutShort = {}

-----------------------------------------------------------------------------
At(c, step) == call[c].step = step
Slug(c) == call[c].slug

Goto(c, step) == call' = [call EXCEPT ![c].step = step]
GotoWith(c, step, p) == call' = [call EXCEPT ![c].step = step, ![c].port = p]
Return(c) == call' = [call EXCEPT ![c] = AtRest]

Put(m, s, p) == [t \in DOMAIN m \cup {s} |-> IF t = s THEN p ELSE m[t]]
Drop(m, s) == [t \in DOMAIN m \ {s} |-> m[t]]

DiskOutcome == {TRUE} \cup (IF DiskFails THEN {FALSE} ELSE {})
EdgeOutcome == {TRUE} \cup (IF EdgeFails THEN {FALSE} ELSE {})

\* The history variables: a request for s to hr-edge, and the end of every call in progress.
Reached(s, ok) == unreached' = IF ok THEN unreached \ {s} ELSE unreached \cup {s}
CutAll ==
    /\ call' = [c \in Clients |-> AtRest]
    /\ cutShort' = cutShort \cup ({Slug(c) : c \in Clients} \ {NoSlug})

\* AppRegistry::upsert and remove: the rows change in memory, and in the file if it can be
\* written.
Persist(ok) ==
    /\ ok \in DiskOutcome
    /\ appsFile' = IF ok THEN apps' ELSE appsFile

Upsert(s, p, ok) == apps' = Put(apps, s, p) /\ Persist(ok)

Remove(s, ok) ==
    /\ apps' = Drop(apps, s)
    /\ IF s \in DOMAIN apps THEN Persist(ok) ELSE ok /\ UNCHANGED appsFile

\* PortRegistry::assign and release.
Assign(s, ok) == (ok /\ Ports!AssignKnown(s)) \/ Ports!AssignNew(s, ok)
Release(s) ==
    \/ Ports!ReleaseUnknown(s)
    \/ \E ok \in BOOLEAN : Ports!ReleaseKnown(s, ok)

-----------------------------------------------------------------------------
\* A call on s begins with the look-up of its row; create fails when there is one, the others
\* when there is none.
Begin(c, s, step) ==
    /\ At(c, Idle)
    /\ Serial => \A d \in Clients : Slug(d) # s
    /\ call' = [call EXCEPT ![c] = [step |-> step, slug |-> s,
                                    port |-> IF s \in DOMAIN apps THEN apps[s] ELSE NoPort]]
    /\ cutShort' = cutShort \ {s}
    /\ UNCHANGED <<portVars, appVars, routes, unreached>>

\* Mutant of CreateBegin: no look-up.
CreateBegin_Unchecked(c, s) == Begin(c, s, "assign")

CreateBegin(c, s) == s \notin DOMAIN apps /\ Begin(c, s, "assign")
UpdateBegin(c, s) == s \in DOMAIN apps /\ Begin(c, s, "rewrite")
DeleteBegin(c, s) == s \in DOMAIN apps /\ Begin(c, s, "unroute")

\* Mutant of CreateAssign: with no port left the call goes on with port 0.
CreateAssign_PortZero(c, ok) ==
    /\ At(c, "assign")
    /\ \/ Assign(Slug(c), ok) /\ GotoWith(c, "scaffold", assignments'[Slug(c)])
       \/ Ports!AssignExhausted(Slug(c)) /\ Goto(c, "scaffold")
    /\ UNCHANGED <<appVars, routes, history>>

\* create: the port.  An error is returned as it is: an entry whose write failed stays.
CreateAssign(c, ok) ==
    /\ At(c, "assign")
    /\ \/ /\ Assign(Slug(c), ok)
          /\ IF ok THEN GotoWith(c, "scaffold", assignments'[Slug(c)]) ELSE Return(c)
       \/ ~ok /\ Ports!AssignExhausted(Slug(c)) /\ Return(c)
    /\ UNCHANGED <<appVars, routes, history>>

\* Mutant of CreateScaffold: the error path does not release the port.
CreateScaffold_NoUndo(c) ==
    /\ At(c, "scaffold")
    /\ Goto(c, "upsert") \/ Return(c)
    /\ UNCHANGED <<portVars, appVars, routes, history>>

\* create: the application's directory and the scaffold on the build host.
CreateScaffold(c) ==
    /\ At(c, "scaffold")
    /\ Goto(c, "upsert") \/ Goto(c, "undo")
    /\ UNCHANGED <<portVars, appVars, routes, history>>

CreateUpsert(c, ok) ==
    /\ At(c, "upsert")
    /\ Upsert(Slug(c), call[c].port, ok)
    /\ Goto(c, IF ok THEN "route" ELSE "undo")
    /\ UNCHANGED <<portVars, routes, history>>

\* create: the error paths after the assignment release the port.
CreateUndo(c) ==
    /\ At(c, "undo")
    /\ Release(Slug(c))
    /\ Return(c)
    /\ UNCHANGED <<appVars, routes, history>>

\* set_app_route of create and of update: a failure is logged.
SetRoute(c, ok) ==
    /\ At(c, "route") \/ At(c, "reroute")
    /\ ok \in EdgeOutcome
    /\ routes' = IF ok THEN Put(routes, Slug(c), call[c].port) ELSE routes
    /\ Reached(Slug(c), ok)
    /\ Return(c)
    /\ UNCHANGED <<portVars, appVars, cutShort>>

\* update writes back the row it read; so does each change of an application's state by the
\* supervisor (update_app_state), which sets no route.
Rewrite(c, ok) ==
    /\ At(c, "rewrite")
    /\ Upsert(Slug(c), call[c].port, ok)
    /\ (ok /\ Goto(c, "reroute")) \/ Return(c)
    /\ UNCHANGED <<portVars, routes, history>>

\* Mutant of DeleteRoute: the route is forgotten.
DeleteRoute_Forgets(c, ok) ==
    /\ ok /\ At(c, "unroute")
    /\ Goto(c, "remove")
    /\ UNCHANGED <<portVars, appVars, routes, history>>

\* delete: the route goes first; a failure is logged.
DeleteRoute(c, ok) ==
    /\ At(c, "unroute")
    /\ ok \in EdgeOutcome
    /\ routes' = IF ok THEN Drop(routes, Slug(c)) ELSE routes
    /\ Reached(Slug(c), ok)
    /\ Goto(c, "remove")
    /\ UNCHANGED <<portVars, appVars, cutShort>>

\* delete: the row; a failure ends the call, and the port stays assigned.
DeleteRemove(c, ok) ==
    /\ At(c, "remove")
    /\ Remove(Slug(c), ok)
    /\ IF ok THEN Goto(c, "release") ELSE Return(c)
    /\ UNCHANGED <<portVars, routes, history>>

\* Mutant of DeleteRelease: the port is taken from the file and stays in memory.
DeleteRelease_FileOnly(c) ==
    /\ At(c, "release")
    /\ portFile' = Drop(portFile, Slug(c)) /\ UNCHANGED assignments
    /\ Return(c)
    /\ UNCHANGED <<appVars, routes, history>>

DeleteRelease(c) ==
    /\ At(c, "release")
    /\ Release(Slug(c))
    /\ Return(c)
    /\ UNCHANGED <<appVars, routes, history>>

\* The orchestrator dies between two operations and loads both files when it starts again;
\* hr-edge keeps its routes.
Crash ==
    /\ Ports!Reload
    /\ apps' = appsFile
    /\ CutAll
    /\ UNCHANGED <<appsFile, routes, unreached>>

CallStep(c) ==
    \/ \E s \in Slugs : CreateBegin(c, s) \/ UpdateBegin(c, s) \/ DeleteBegin(c, s)
    \/ CreateScaffold(c) \/ CreateUndo(c) \/ DeleteRelease(c)
    \/ \E ok \in BOOLEAN :
          \/ CreateAssign(c, ok) \/ CreateUpsert(c, ok) \/ SetRoute(c, ok)
          \/ Rewrite(c, ok) \/ DeleteRoute(c, ok) \/ DeleteRemove(c, ok)

Next == Crash \/ \E c \in Clients : CallStep(c)

Spec == Init /\ [][Next]_vars
-----------------------------------------------------------------------------
Call == [step : Steps, slug : Slugs \cup {NoSlug}, port : Ports!Port \cup {NoPort}]

TypeOK ==
    /\ Ports!TypeOK
    /\ apps \in Ports!PortMap /\ appsFile \in Ports!PortMap /\ routes \in Ports!PortMap
    /\ call \in [Clients -> Call]
    /\ unreached \subseteq Slugs /\ cutShort \subseteq Slugs

\* The port of every registered application is the one the port registry holds for it
\* ("Assign port BEFORE creating the Application so it is persisted", apps_handler.rs:213):
\* nobody else can be given it.  No saga may leave a row without its port, wherever it fails
\* or is cut short.
RowOwnsPort ==
    \A s \in DOMAIN apps : s \in DOMAIN assignments /\ assignments[s] = apps[s]

\* The domain of one application never leads to the port of another, whatever fails or dies,
\* once hr-edge has carried out the last request for that domain: a delete removes the route
\* before the port can have a new owner.
RoutesLeadHome ==
    \A s \in DOMAIN routes \ unreached :
        \A t \in DOMAIN apps : routes[s] = apps[t] => s = t

\* A port is held for an application or by a call in progress: every error path of create, and
\* delete, gives it back.  Only the death of the orchestrator leaves one behind, until the next
\* call for that slug.
NoLeakedPort ==
    \A s \in DOMAIN assignments :
        s \in DOMAIN apps \cup cutShort \/ \E c \in Clients : Slug(c) = s

\* What a saga leaves outside the two registries when it ends: no route to another's port, no port.
NothingLeftBehind == RoutesLeadHome /\ NoLeakedPort

\* Whatever the sagas do, the port registry behaves as its own specification says.
PortRegistrySpec == Ports!Spec
=============================================================================
