-------------------------- MODULE ApplicationsProofs --------------------------
(***************************************************************************)
(* Proofs about AppLifecycle and AppSupervisor, for any number of callers. *)
(*                                                                         *)
(* AppLifecycle, for any slugs and ports, with crashes and with failing    *)
(* requests to hr-edge: the types, and, when the callers do not overlap    *)
(* two calls on one slug and the registry files can be written, that every *)
(* registered application owns its port.                                   *)
(*                                                                         *)
(* AppSupervisor, for any watcher tasks, with deaths of the unit and of    *)
(* the orchestrator and with pipelines that time out: the types, and what  *)
(* start, stop, ship and update leave behind.                              *)
(***************************************************************************)
EXTENDS AppLifecycle, AppSupervisor, FiniteSetTheorems, TLAPS

\* The empty map is a map from slugs to ports.
LEMMA EmptyInMap == Ports!EmptyMap \in Ports!PortMap
<1>1. Ports!EmptyMap \in [{} -> Ports!Port]
  BY DEF Ports!EmptyMap
<1> QED
  BY <1>1 DEF Ports!PortMap

\* Put keeps a map a map from slugs to ports.
LEMMA PutInMap ==
    ASSUME NEW m \in Ports!PortMap, NEW s \in Slugs, NEW p \in Ports!Port
    PROVE  Put(m, s, p) \in Ports!PortMap
<1>1. PICK S \in SUBSET Slugs : m \in [S -> Ports!Port]
  BY DEF Ports!PortMap
<1>2. Put(m, s, p) \in [S \cup {s} -> Ports!Port] /\ S \cup {s} \in SUBSET Slugs
  BY <1>1 DEF Put
<1> QED
  BY <1>2 DEF Ports!PortMap

\* Drop keeps a map a map from slugs to ports.
LEMMA DropInMap ==
    ASSUME NEW m \in Ports!PortMap, NEW s
    PROVE  Drop(m, s) \in Ports!PortMap
<1>1. PICK S \in SUBSET Slugs : m \in [S -> Ports!Port]
  BY DEF Ports!PortMap
<1>2. Drop(m, s) \in [S \ {s} -> Ports!Port] /\ S \ {s} \in SUBSET Slugs
  BY <1>1 DEF Drop
<1> QED
  BY <1>2 DEF Ports!PortMap

\* A map from slugs to ports gives ports to slugs.
LEMMA MapValues ==
    ASSUME NEW m \in Ports!PortMap, NEW s \in DOMAIN m
    PROVE  s \in Slugs /\ m[s] \in Ports!Port
  BY DEF Ports!PortMap

-----------------------------------------------------------------------------
(* What an operation of the port registry does, whichever of its cases applies. *)

\* PortRegistry::assign gives the slug a port and leaves every other slug the port it had; without
\* disk failures the file follows.
LEMMA AssignEffect ==
    ASSUME NEW s \in Slugs, NEW ok \in BOOLEAN, Ports!TypeOK, Assign(s, ok)
    PROVE  /\ Ports!TypeOK'
           /\ s \in DOMAIN assignments' /\ assignments'[s] \in Ports!Port
           /\ \A t \in DOMAIN assignments :
                 t \in DOMAIN assignments' /\ assignments'[t] = assignments[t]
           /\ ~DiskFails /\ portFile = assignments => portFile' = assignments'
<1>1. CASE Ports!AssignKnown(s)
  BY <1>1, MapValues DEF Ports!AssignKnown, Ports!Assigned, Ports!TypeOK, Ports!portVars
<1>2. CASE Ports!AssignNew(s, ok)
  <2>1. PICK p \in Ports!Port :
          s \notin DOMAIN assignments /\ assignments' = Put(assignments, s, p)
    BY <1>2 DEF Ports!AssignNew, Ports!FreePorts, Ports!Assigned, Put
  <2>2. assignments' \in Ports!PortMap
    BY <2>1, PutInMap DEF Ports!TypeOK
  <2>3. portFile' \in Ports!PortMap
    BY <1>2, <2>2 DEF Ports!AssignNew, Ports!Persist, Ports!TypeOK
  <2>4. ~DiskFails => portFile' = assignments'
    BY <1>2 DEF Ports!AssignNew, Ports!Persist
  <2> QED
    BY <2>1, <2>2, <2>3, <2>4 DEF Ports!TypeOK, Put
<1> QED
  BY <1>1, <1>2 DEF Assign

\* PortRegistry::release takes a port from the slug only; without disk failures the file follows.
LEMMA ReleaseEffect ==
    ASSUME NEW s \in Slugs, Ports!TypeOK, Release(s)
    PROVE  /\ Ports!TypeOK'
           /\ \A t \in DOMAIN assignments \ {s} :
                 t \in DOMAIN assignments' /\ assignments'[t] = assignments[t]
           /\ ~DiskFails /\ portFile = assignments => portFile' = assignments'
<1>1. CASE Ports!ReleaseUnknown(s)
  BY <1>1 DEF Ports!ReleaseUnknown, Ports!TypeOK, Ports!portVars
<1>2. ASSUME NEW ok \in BOOLEAN, Ports!ReleaseKnown(s, ok)
      PROVE  /\ Ports!TypeOK'
             /\ \A t \in DOMAIN assignments \ {s} :
                   t \in DOMAIN assignments' /\ assignments'[t] = assignments[t]
             /\ ~DiskFails /\ portFile = assignments => portFile' = assignments'
  <2>1. assignments' = Drop(assignments, s)
    BY <1>2 DEF Ports!ReleaseKnown, Ports!Assigned, Drop
  <2>2. assignments' \in Ports!PortMap
    BY <2>1, DropInMap DEF Ports!TypeOK
  <2>3. portFile' \in Ports!PortMap
    BY <1>2, <2>2 DEF Ports!ReleaseKnown, Ports!Persist, Ports!TypeOK
  <2>4. ~DiskFails => portFile' = assignments'
    BY <1>2 DEF Ports!ReleaseKnown, Ports!Persist
  <2> QED
    BY <2>1, <2>2, <2>3, <2>4 DEF Ports!TypeOK, Drop
<1> QED
  BY <1>1, <1>2 DEF Release

-----------------------------------------------------------------------------
\* A caller that is not at rest works on a slug, and at the steps that write a port into a row
\* or a route it holds one.
Holds(c) ==
    /\ ~At(c, Idle) => Slug(c) \in Slugs
    /\ call[c].step \in {"scaffold", "upsert", "route", "rewrite", "reroute"}
            => call[c].port \in Ports!Port

\* The types of what the code keeps, that is TypeOK without the history variables.
StoreTypes ==
    /\ Ports!TypeOK
    /\ apps \in Ports!PortMap /\ appsFile \in Ports!PortMap /\ routes \in Ports!PortMap
    /\ call \in [Clients -> Call]

TypeInv == StoreTypes /\ \A c \in Clients : Holds(c)

\* The steps of one caller, told apart by what they do to the callers' table.
LEMMA CallType ==
    ASSUME NEW c \in Clients, TypeInv, NEW r \in Call, call' = [call EXCEPT ![c] = r],
           r.step # Idle => r.slug \in Slugs,
           r.step \in {"scaffold", "upsert", "route", "rewrite", "reroute"}
               => r.port \in Ports!Port,
           Ports!TypeOK', apps' \in Ports!PortMap, appsFile' \in Ports!PortMap,
           routes' \in Ports!PortMap
    PROVE  TypeInv'
<1>1. call' \in [Clients -> Call]
  BY DEF TypeInv, StoreTypes
<1>2. ASSUME NEW d \in Clients PROVE Holds(d)'
  BY <1>2 DEF TypeInv, StoreTypes, Holds, At, Slug
<1>3. (Ports!TypeOK)' /\ (apps \in Ports!PortMap)' /\ (appsFile \in Ports!PortMap)'
      /\ (routes \in Ports!PortMap)'
  OBVIOUS
<1> QED
  BY <1>1, <1>2, <1>3 DEF TypeInv, StoreTypes

\* The type invariant holds when the orchestrator first starts.
LEMMA TypeInvInit == Init => TypeInv
<1> SUFFICES ASSUME Init PROVE TypeInv
  OBVIOUS
<1>1. AtRest \in Call
  BY DEF AtRest, Call, Steps
<1>2. call \in [Clients -> Call]
  BY <1>1 DEF Init
<1>3. Ports!TypeOK
  BY EmptyInMap DEF Init, Ports!Init, Ports!TypeOK
<1>4. apps \in Ports!PortMap /\ appsFile \in Ports!PortMap /\ routes \in Ports!PortMap
  BY EmptyInMap DEF Init
<1>5. ASSUME NEW c \in Clients PROVE Holds(c)
  BY <1>5 DEF Init, Holds, At, Slug, AtRest, Idle
<1> QED
  BY <1>2, <1>3, <1>4, <1>5 DEF TypeInv, StoreTypes

\* Every step of create, update and delete preserves the type invariant.
LEMMA TypeInvCall ==
    ASSUME TypeInv, NEW c \in Clients, CallStep(c)
    PROVE  TypeInv'
<1> USE DEF Idle
<1>0. /\ call[c] \in Call /\ call \in [Clients -> Call] /\ Holds(c)
      /\ Ports!TypeOK /\ apps \in Ports!PortMap /\ appsFile \in Ports!PortMap
      /\ routes \in Ports!PortMap
  BY DEF TypeInv, StoreTypes
<1>r. AtRest \in Call /\ AtRest.step = Idle
  BY DEF AtRest, Call, Steps
<1>p. UNCHANGED portVars => Ports!TypeOK'
  BY <1>0 DEF portVars, Ports!TypeOK
<1>1. ASSUME NEW s \in Slugs, CreateBegin(c, s) \/ UpdateBegin(c, s) \/ DeleteBegin(c, s)
      PROVE  TypeInv'
  <2>1. PICK step \in {"assign", "rewrite", "unroute"} :
          Begin(c, s, step) /\ (step = "rewrite" => s \in DOMAIN apps)
    BY <1>1 DEF CreateBegin, UpdateBegin, DeleteBegin
  <2> DEFINE r == [step |-> step, slug |-> s,
                   port |-> IF s \in DOMAIN apps THEN apps[s] ELSE NoPort]
  <2>2. r \in Call /\ (step = "rewrite" => r.port \in Ports!Port)
    BY <2>1, <1>0, MapValues
       DEF Call, Steps, CreateSteps, UpdateSteps, DeleteSteps
  <2>3. call' = [call EXCEPT ![c] = r] /\ UNCHANGED <<portVars, appVars, routes>>
    BY <2>1 DEF Begin
  <2> QED
    BY <2>1, <2>2, <2>3, <1>0, <1>p, CallType DEF appVars
<1>2. ASSUME NEW ok \in BOOLEAN, CreateAssign(c, ok) PROVE TypeInv'
  <2>1. CASE Assign(Slug(c), ok) /\ ok /\ GotoWith(c, "scaffold", assignments'[Slug(c)])
    <3> DEFINE r == [call[c] EXCEPT !.step = "scaffold", !.port = assignments'[Slug(c)]]
    <3>1. Slug(c) \in Slugs
      BY <1>0, <1>2 DEF Holds, CreateAssign, At
    <3>2. Ports!TypeOK' /\ assignments'[Slug(c)] \in Ports!Port
      BY <1>0, <2>1, <3>1, AssignEffect
    <3>3. r \in Call /\ r.slug = Slug(c) /\ r.port \in Ports!Port
      BY <1>0, <3>2 DEF Call, Steps, CreateSteps, Slug
    <3>4. call' = [call EXCEPT ![c] = r]
      BY <2>1, <1>0 DEF GotoWith, Call
    <3> QED
      BY <3>1, <3>2, <3>3, <3>4, <1>0, <1>2, CallType DEF CreateAssign, appVars
  <2>2. CASE Assign(Slug(c), ok) /\ Return(c)
    <3>1. Slug(c) \in Slugs
      BY <1>0, <1>2 DEF Holds, CreateAssign, At
    <3>2. Ports!TypeOK'
      BY <1>0, <2>2, <3>1, AssignEffect
    <3> QED
      BY <2>2, <3>2, <1>0, <1>r, <1>2, CallType DEF CreateAssign, appVars, Return
  <2>3. CASE Ports!AssignExhausted(Slug(c)) /\ Return(c)
    <3>1. Ports!TypeOK'
      BY <2>3, <1>0 DEF Ports!AssignExhausted, Ports!portVars, Ports!TypeOK
    <3> QED
      BY <2>3, <3>1, <1>0, <1>r, <1>2, CallType DEF CreateAssign, appVars, Return
  <2> QED
    BY <2>1, <2>2, <2>3, <1>2 DEF CreateAssign
<1>3. ASSUME CreateScaffold(c) PROVE TypeInv'
  <2>1. PICK step \in {"upsert", "undo"} : Goto(c, step)
    BY <1>3 DEF CreateScaffold
  <2> DEFINE r == [call[c] EXCEPT !.step = step]
  <2>2. r \in Call /\ r.slug = Slug(c) /\ r.port = call[c].port /\ r.step = step
    BY <1>0 DEF Call, Steps, CreateSteps, Slug
  <2>3. Slug(c) \in Slugs /\ call[c].port \in Ports!Port
    BY <1>0, <1>3 DEF Holds, CreateScaffold, At
  <2>4. call' = [call EXCEPT ![c] = r]
    BY <2>1, <1>0 DEF Goto, Call
  <2> QED
    BY <2>2, <2>3, <2>4, <1>0, <1>3, <1>p, CallType DEF CreateScaffold, appVars
<1>4. ASSUME CreateUndo(c) \/ DeleteRelease(c) PROVE TypeInv'
  <2>1. Slug(c) \in Slugs
    BY <1>0, <1>4 DEF Holds, CreateUndo, DeleteRelease, At
  <2>2. Ports!TypeOK'
    BY <2>1, <1>0, <1>4, ReleaseEffect DEF CreateUndo, DeleteRelease
  <2> QED
    BY <2>2, <1>0, <1>r, <1>4, CallType DEF CreateUndo, DeleteRelease, Return, appVars
<1>5. ASSUME NEW ok \in BOOLEAN, CreateUpsert(c, ok) \/ Rewrite(c, ok) PROVE TypeInv'
  <2>1. Slug(c) \in Slugs /\ call[c].port \in Ports!Port
    BY <1>0, <1>5 DEF Holds, CreateUpsert, Rewrite, At
  <2>2. Upsert(Slug(c), call[c].port, ok) /\ UNCHANGED <<portVars, routes>>
    BY <1>5 DEF CreateUpsert, Rewrite
  <2>3. apps' \in Ports!PortMap
    BY <2>1, <2>2, <1>0, PutInMap DEF Upsert
  <2>4. appsFile' \in Ports!PortMap
    BY <2>2, <2>3, <1>0 DEF Upsert, Persist
  <2>5. PICK r \in Call :
          /\ call' = [call EXCEPT ![c] = r]
          /\ r.step # Idle => r.slug = Slug(c) /\ r.port = call[c].port
    <3>1. CASE Return(c)
      BY <3>1, <1>r DEF Return
    <3>2. ASSUME NEW step \in {"route", "undo", "reroute"}, Goto(c, step)
          PROVE  /\ [call[c] EXCEPT !.step = step] \in Call
                 /\ call' = [call EXCEPT ![c] = [call[c] EXCEPT !.step = step]]
                 /\ [call[c] EXCEPT !.step = step].slug = Slug(c)
                 /\ [call[c] EXCEPT !.step = step].port = call[c].port
      BY <3>2, <1>0 DEF Call, Steps, CreateSteps, UpdateSteps, Goto, Slug
    <3> QED
      BY <3>1, <3>2, <1>5 DEF CreateUpsert, Rewrite
  <2> QED
    BY <2>1, <2>2, <2>3, <2>4, <2>5, <1>0, <1>p, CallType
<1>6. ASSUME NEW ok \in BOOLEAN, SetRoute(c, ok) PROVE TypeInv'
  <2>1. Slug(c) \in Slugs /\ call[c].port \in Ports!Port
    BY <1>0, <1>6 DEF Holds, SetRoute, At
  <2>2. routes' \in Ports!PortMap
    BY <2>1, <1>0, <1>6, PutInMap DEF SetRoute
  <2> QED
    BY <2>2, <1>0, <1>r, <1>p, <1>6, CallType DEF SetRoute, Return, appVars
<1>7. ASSUME NEW ok \in BOOLEAN, DeleteRoute(c, ok) \/ DeleteRemove(c, ok) PROVE TypeInv'
  <2>1. Slug(c) \in Slugs
    BY <1>0, <1>7 DEF Holds, DeleteRoute, DeleteRemove, At
  <2>2. UNCHANGED portVars /\ apps' \in Ports!PortMap /\ routes' \in Ports!PortMap
    BY <1>0, <1>7, DropInMap DEF DeleteRoute, DeleteRemove, Remove, appVars
  <2>3. appsFile' \in Ports!PortMap
    BY <2>2, <1>0, <1>7 DEF DeleteRoute, DeleteRemove, Remove, Persist, appVars
  <2>4. PICK r \in Call :
          /\ call' = [call EXCEPT ![c] = r]
          /\ r.step \in {Idle, "remove", "release"}
          /\ r.step # Idle => r.slug = Slug(c)
    <3>1. CASE Return(c)
      BY <3>1, <1>r DEF Return
    <3>2. ASSUME NEW step \in {"remove", "release"}, Goto(c, step)
          PROVE  /\ [call[c] EXCEPT !.step = step] \in Call
                 /\ call' = [call EXCEPT ![c] = [call[c] EXCEPT !.step = step]]
                 /\ [call[c] EXCEPT !.step = step].slug = Slug(c)
                 /\ [call[c] EXCEPT !.step = step].step = step
      BY <3>2, <1>0 DEF Call, Steps, DeleteSteps, Goto, Slug
    <3> QED
      BY <3>1, <3>2, <1>7 DEF DeleteRoute, DeleteRemove
  <2> QED
    BY <2>1, <2>2, <2>3, <2>4, <1>p, CallType
<1> QED
  BY <1>1, <1>2, <1>3, <1>4, <1>5, <1>6, <1>7 DEF CallStep

\* So does every step, a crash included.
LEMMA TypeInvNext == TypeInv /\ [Next]_vars => TypeInv'
<1> SUFFICES ASSUME TypeInv, [Next]_vars PROVE TypeInv'
  OBVIOUS
<1>1. CASE Crash
  <2>1. Ports!TypeOK' /\ apps' \in Ports!PortMap /\ appsFile' \in Ports!PortMap
        /\ routes' \in Ports!PortMap
    BY <1>1 DEF Crash, Ports!Reload, TypeInv, StoreTypes, Ports!TypeOK
  <2>2. AtRest \in Call /\ AtRest.step = Idle
    BY DEF AtRest, Call, Steps, Idle
  <2>3. call' \in [Clients -> Call]
    BY <1>1, <2>2 DEF Crash, CutAll
  <2>4. ASSUME NEW c \in Clients PROVE Holds(c)'
    BY <1>1, <2>2, <2>4 DEF Crash, CutAll, Holds, At, Slug, Idle
  <2> QED
    BY <2>1, <2>3, <2>4 DEF TypeInv, StoreTypes
<1>2. CASE UNCHANGED vars
  BY <1>2 DEF vars, portVars, appVars, TypeInv, StoreTypes, Ports!TypeOK, Holds, At, Slug
<1> QED
  BY <1>1, <1>2, TypeInvCall DEF Next

HistoryTypes == unreached \subseteq Slugs /\ cutShort \subseteq Slugs

\* The history variables only ever collect slugs some caller works on.
LEMMA HistoryTypesNext ==
    ASSUME TypeInv, HistoryTypes, [Next]_vars
    PROVE  HistoryTypes'
<1>1. ASSUME NEW c \in Clients PROVE Slug(c) \in Slugs \cup {NoSlug}
  BY DEF TypeInv, StoreTypes, Call, Slug
<1>2. ASSUME NEW c \in Clients, ~At(c, Idle) PROVE Slug(c) \in Slugs
  BY <1>2 DEF TypeInv, Holds
<1>3. CASE Crash
  BY <1>1, <1>3 DEF Crash, CutAll, HistoryTypes
<1>4. CASE UNCHANGED vars
  BY <1>4 DEF vars, history, HistoryTypes
<1>5. ASSUME NEW c \in Clients, CallStep(c) PROVE HistoryTypes'
  <2>1. ASSUME NEW ok \in BOOLEAN, SetRoute(c, ok) \/ DeleteRoute(c, ok) PROVE HistoryTypes'
    BY <1>2, <2>1 DEF SetRoute, DeleteRoute, Reached, At, Idle, HistoryTypes
  <2>2. ASSUME NEW s \in Slugs, CreateBegin(c, s) \/ UpdateBegin(c, s) \/ DeleteBegin(c, s)
        PROVE  HistoryTypes'
    BY <2>2 DEF CreateBegin, UpdateBegin, DeleteBegin, Begin, HistoryTypes
  <2>3. ASSUME UNCHANGED history PROVE HistoryTypes'
    BY <2>3 DEF history, HistoryTypes
  <2> QED
    BY <1>5, <2>1, <2>2, <2>3
       DEF CallStep, CreateScaffold, CreateUndo, DeleteRelease, CreateAssign, CreateUpsert,
           Rewrite, DeleteRemove
<1> QED
  BY <1>3, <1>4, <1>5 DEF Next

\* Every store stays a map from slugs to ports and every caller in a state of the handlers,
\* whatever fails, overlaps or crashes.
THEOREM LifecycleTypes == Spec => []TypeOK
<1>1. TypeInv /\ HistoryTypes => TypeOK
  BY DEF TypeInv, StoreTypes, HistoryTypes, TypeOK
<1>2. Init => HistoryTypes
  BY DEF Init, HistoryTypes
<1> QED
  BY TypeInvInit, TypeInvNext, HistoryTypesNext, <1>1, <1>2, PTL DEF Spec
-----------------------------------------------------------------------------
\* The conditions under which the sagas are right.  The run LifecycleOverlap shows that Serial is
\* needed; a working disk is, as upsert keeps in memory a row it could not write (registry.rs:68-76).
Sane == Serial /\ ~DiskFails

\* Between two operations each store and its file agree.
FilesCurrent == portFile = assignments /\ appsFile = apps

\* No two callers work on the same slug, and a caller at rest works on none.
OneCallPerSlug ==
    /\ \A c \in Clients : At(c, Idle) => Slug(c) = NoSlug
    /\ \A c, d \in Clients : Slug(c) = Slug(d) /\ Slug(c) \in Slugs => c = d

\* What a caller knows of its slug: create works on a slug without a row, and holds the slug's
\* port from the assignment on; a row about to be written back is still the row that was read; a
\* slug about to lose its port has no row.
Knows(c) ==
    /\ call[c].step \in {"assign", "scaffold", "upsert", "undo", "release"}
            => Slug(c) \notin DOMAIN apps
    /\ call[c].step \in {"scaffold", "upsert", "rewrite"}
            => /\ Slug(c) \in DOMAIN assignments
               /\ assignments[Slug(c)] = call[c].port

\* The inductive invariant: RowOwnsPort alone is not inductive, because a step of create or of
\* update writes a port read several steps earlier.
LifeInv ==
    TypeInv /\ FilesCurrent /\ OneCallPerSlug /\ RowOwnsPort /\ \A c \in Clients : Knows(c)

\* The inductive invariant holds when the orchestrator first starts.
LEMMA LifeInvInit == Init => LifeInv
  BY TypeInvInit, LifecycleAssumption
     DEF Init, Ports!Init, LifeInv, FilesCurrent, OneCallPerSlug, RowOwnsPort, Knows, At, Slug,
         AtRest, Idle, Ports!EmptyMap

\* One step of one caller on its own slug preserves the invariant when it preserves the part of
\* the invariant that speaks of that caller and that slug.
LEMMA LifeInvStep ==
    ASSUME LifeInv, TypeInv', NEW c \in Clients, NEW s,
           NEW r, call' = [call EXCEPT ![c] = r],
           r.step = Idle => r.slug = NoSlug,
           r.slug \in {s, NoSlug},
           Slug(c) \in {s, NoSlug},
           \A d \in Clients \ {c} : Slug(d) # s,
           FilesCurrent', Knows(c)',
           \A t \in Slugs \ {s} : t \in DOMAIN apps <=> t \in DOMAIN apps',
           \A t \in DOMAIN apps' \ {s} : apps'[t] = apps[t],
           \A t \in DOMAIN assignments \ {s} :
               t \in DOMAIN assignments' /\ assignments'[t] = assignments[t],
           s \in DOMAIN apps' => s \in DOMAIN assignments' /\ assignments'[s] = apps'[s]
    PROVE  LifeInv'
<1>0. call \in [Clients -> Call] /\ call'[c] = r /\ \A d \in Clients \ {c} : call'[d] = call[d]
  BY DEF LifeInv, TypeInv, StoreTypes
<1>1. OneCallPerSlug'
  BY <1>0, LifecycleAssumption DEF LifeInv, OneCallPerSlug, At, Slug
<1>2. RowOwnsPort'
  <2> SUFFICES ASSUME NEW t \in DOMAIN apps'
               PROVE  t \in DOMAIN assignments' /\ assignments'[t] = apps'[t]
    BY DEF RowOwnsPort
  <2>1. t \in Slugs
    BY MapValues DEF TypeInv, StoreTypes, Ports!PortMap
  <2>2. CASE t # s
    BY <2>1, <2>2 DEF LifeInv, RowOwnsPort
  <2>3. CASE t = s
    BY <2>3
  <2> QED
    BY <2>2, <2>3
<1>3. ASSUME NEW d \in Clients \ {c} PROVE Knows(d)'
  <2>1. Knows(d) /\ Holds(d) /\ call'[d] = call[d]
    BY <1>0 DEF LifeInv, TypeInv
  <2>2. CASE At(d, Idle)
    BY <2>1, <2>2 DEF Knows, At, Idle
  <2>3. CASE ~At(d, Idle)
    BY <2>1, <2>3 DEF Knows, Slug, Holds
  <2> QED
    BY <2>2, <2>3
<1> QED
  BY <1>1, <1>2, <1>3 DEF LifeInv

\* Every step of create, update and delete preserves the inductive invariant.
LEMMA LifeInvCall ==
    ASSUME Sane, LifeInv, TypeInv', NEW c \in Clients, CallStep(c)
    PROVE  LifeInv'
<1> USE DEF Idle
<1>0. /\ call[c] \in Call /\ call \in [Clients -> Call] /\ Holds(c) /\ Knows(c)
      /\ Ports!TypeOK /\ FilesCurrent /\ RowOwnsPort /\ ~DiskFails
      /\ NoSlug \notin Slugs
  BY LifecycleAssumption DEF LifeInv, TypeInv, StoreTypes, Sane
<1>r. AtRest.step = Idle /\ AtRest.slug = NoSlug
  BY DEF AtRest
\* The frame of every step after the first: its slug is the caller's own.
<1>s. ~At(c, Idle) => Slug(c) \in Slugs /\ \A d \in Clients \ {c} : Slug(d) # Slug(c)
  BY <1>0 DEF Holds, LifeInv, OneCallPerSlug
<1>1. ASSUME NEW s \in Slugs, CreateBegin(c, s) \/ UpdateBegin(c, s) \/ DeleteBegin(c, s)
      PROVE  LifeInv'
  <2>1. PICK step \in {"assign", "rewrite", "unroute"} :
          /\ Begin(c, s, step)
          /\ step = "assign" => s \notin DOMAIN apps
          /\ step = "rewrite" => s \in DOMAIN apps
    BY <1>1 DEF CreateBegin, UpdateBegin, DeleteBegin
  <2> DEFINE r == [step |-> step, slug |-> s,
                   port |-> IF s \in DOMAIN apps THEN apps[s] ELSE NoPort]
  <2>2. /\ call' = [call EXCEPT ![c] = r] /\ r.step = step /\ r.slug = s
        /\ UNCHANGED <<portVars, appVars, routes>>
        /\ Slug(c) = NoSlug /\ \A d \in Clients \ {c} : Slug(d) # s
    BY <2>1 DEF Begin, Sane, LifeInv, OneCallPerSlug
  <2>3. UNCHANGED <<assignments, portFile, apps, appsFile>>
    BY <2>2 DEF portVars, appVars
  <2>4. Knows(c)'
    BY <2>1, <2>2, <2>3, <1>0 DEF Knows, Slug, RowOwnsPort
  <2>5. FilesCurrent'
    BY <2>3, <1>0 DEF FilesCurrent
  <2>6. s \in DOMAIN apps => s \in DOMAIN assignments /\ assignments[s] = apps[s]
    BY <1>0 DEF RowOwnsPort
  <2> HIDE DEF r
  <2> QED
    BY <2>2, <2>3, <2>4, <2>5, <2>6, LifeInvStep
<1>2. ASSUME NEW ok \in BOOLEAN, CreateAssign(c, ok) PROVE LifeInv'
  <2>1. /\ Slug(c) \in Slugs /\ \A d \in Clients \ {c} : Slug(d) # Slug(c)
        /\ UNCHANGED <<apps, appsFile>> /\ Slug(c) \notin DOMAIN apps
    BY <1>2, <1>0, <1>s DEF CreateAssign, appVars, At, Knows
  <2>2. CASE Assign(Slug(c), ok)
    <3>1. /\ Slug(c) \in DOMAIN assignments' /\ portFile' = assignments'
          /\ \A t \in DOMAIN assignments :
                t \in DOMAIN assignments' /\ assignments'[t] = assignments[t]
      BY <2>1, <2>2, <1>0, AssignEffect DEF FilesCurrent
    <3>2. FilesCurrent'
      BY <3>1, <2>1, <1>0 DEF FilesCurrent
    <3>3. CASE Return(c)
      <4>1. Knows(c)'
        BY <3>3, <1>0, <1>r DEF Return, Knows
      <4> QED
        BY <3>1, <3>2, <3>3, <4>1, <2>1, <1>0, <1>r, LifeInvStep DEF Return
    <3>4. CASE GotoWith(c, "scaffold", assignments'[Slug(c)])
      <4> DEFINE r == [call[c] EXCEPT !.step = "scaffold", !.port = assignments'[Slug(c)]]
      <4>1. /\ call' = [call EXCEPT ![c] = r] /\ r.step = "scaffold"
            /\ r.slug = Slug(c) /\ r.port = assignments'[Slug(c)]
        BY <3>4, <1>0 DEF GotoWith, Call, Slug
      <4>2. Knows(c)'
        BY <4>1, <3>1, <2>1, <1>0 DEF Knows, Slug
      <4> HIDE DEF r
      <4> QED
        BY <3>1, <3>2, <4>1, <4>2, <2>1, LifeInvStep
    <3> QED
      BY <2>2, <3>3, <3>4, <1>2 DEF CreateAssign, Ports!AssignExhausted
  <2>3. CASE Ports!AssignExhausted(Slug(c)) /\ Return(c)
    <3>1. UNCHANGED <<assignments, portFile>>
      BY <2>3 DEF Ports!AssignExhausted, Ports!portVars
    <3>2. FilesCurrent' /\ Knows(c)'
      BY <2>1, <2>3, <3>1, <1>0, <1>r DEF FilesCurrent, Return, Knows
    <3> QED
      BY <2>1, <2>3, <3>1, <3>2, <1>r, LifeInvStep DEF Return
  <2> QED
    BY <2>2, <2>3, <1>2 DEF CreateAssign
<1>3. ASSUME NEW ok \in BOOLEAN,
             CreateScaffold(c) \/ SetRoute(c, ok) \/ DeleteRoute(c, ok)
      PROVE  LifeInv'
  <2>1. /\ Slug(c) \in Slugs /\ \A d \in Clients \ {c} : Slug(d) # Slug(c)
        /\ UNCHANGED <<apps, appsFile, assignments, portFile>>
    BY <1>3, <1>s DEF CreateScaffold, SetRoute, DeleteRoute, appVars, portVars, At
  <2>2. FilesCurrent'
    BY <2>1, <1>0 DEF FilesCurrent
  <2>3. Slug(c) \in DOMAIN apps =>
          Slug(c) \in DOMAIN assignments /\ assignments[Slug(c)] = apps[Slug(c)]
    BY <1>0 DEF RowOwnsPort
  <2>4. CASE Return(c)
    <3>1. Knows(c)'
      BY <2>4, <1>0, <1>r DEF Return, Knows
    <3> QED
      BY <2>1, <2>2, <2>3, <2>4, <3>1, <1>r, LifeInvStep DEF Return
  <2>5. ASSUME NEW step \in {"upsert", "undo", "remove"}, Goto(c, step),
               step \in {"upsert", "undo"} => CreateScaffold(c)
        PROVE  LifeInv'
    <3> DEFINE r == [call[c] EXCEPT !.step = step]
    <3>1. /\ call' = [call EXCEPT ![c] = r] /\ r.step = step
          /\ r.slug = Slug(c) /\ r.port = call[c].port
      BY <2>5, <1>0 DEF Goto, Call, Slug
    <3>2. Knows(c)'
      BY <3>1, <2>1, <2>5, <1>0 DEF Knows, Slug, CreateScaffold, At
    <3> HIDE DEF r
    <3> QED
      BY <2>1, <2>2, <2>3, <3>1, <3>2, LifeInvStep
  <2> QED
    BY <2>4, <2>5, <1>3 DEF CreateScaffold, SetRoute, DeleteRoute
<1>4. ASSUME CreateUndo(c) \/ DeleteRelease(c) PROVE LifeInv'
  <2>1. /\ Slug(c) \in Slugs /\ \A d \in Clients \ {c} : Slug(d) # Slug(c)
        /\ UNCHANGED <<apps, appsFile>> /\ Slug(c) \notin DOMAIN apps
        /\ Release(Slug(c)) /\ Return(c)
    BY <1>4, <1>0, <1>s DEF CreateUndo, DeleteRelease, appVars, At, Knows
  <2>2. /\ portFile' = assignments'
        /\ \A t \in DOMAIN assignments \ {Slug(c)} :
              t \in DOMAIN assignments' /\ assignments'[t] = assignments[t]
    BY <2>1, <1>0, ReleaseEffect DEF FilesCurrent
  <2>3. FilesCurrent' /\ Knows(c)'
    BY <2>1, <2>2, <1>0, <1>r DEF FilesCurrent, Return, Knows
  <2> QED
    BY <2>1, <2>2, <2>3, <1>r, LifeInvStep DEF Return
<1>5. ASSUME NEW ok \in BOOLEAN, CreateUpsert(c, ok) \/ Rewrite(c, ok) PROVE LifeInv'
  <2>1. /\ Slug(c) \in Slugs /\ \A d \in Clients \ {c} : Slug(d) # Slug(c)
        /\ Slug(c) \in DOMAIN assignments /\ assignments[Slug(c)] = call[c].port
        /\ UNCHANGED <<assignments, portFile>>
        /\ Upsert(Slug(c), call[c].port, ok)
    BY <1>5, <1>0, <1>s DEF CreateUpsert, Rewrite, portVars, At, Knows
  <2>2. ok /\ apps' = Put(apps, Slug(c), call[c].port) /\ appsFile' = apps'
    BY <2>1, <1>0 DEF Upsert, Persist, DiskOutcome
  <2>3. FilesCurrent'
    BY <2>1, <2>2, <1>0 DEF FilesCurrent
  <2>4. /\ \A t \in Slugs \ {Slug(c)} : t \in DOMAIN apps <=> t \in DOMAIN apps'
        /\ \A t \in DOMAIN apps' \ {Slug(c)} : apps'[t] = apps[t]
        /\ apps'[Slug(c)] = call[c].port
    BY <2>2 DEF Put
  <2>5. CASE Return(c)
    <3>1. Knows(c)'
      BY <2>5, <1>0, <1>r DEF Return, Knows
    <3> QED
      BY <2>1, <2>3, <2>4, <2>5, <3>1, <1>r, LifeInvStep DEF Return
  <2>6. ASSUME NEW step \in {"route", "reroute"}, Goto(c, step) PROVE LifeInv'
    <3> DEFINE r == [call[c] EXCEPT !.step = step]
    <3>1. /\ call' = [call EXCEPT ![c] = r] /\ r.step = step /\ r.slug = Slug(c)
      BY <2>6, <1>0 DEF Goto, Call, Slug
    <3>2. Knows(c)'
      BY <3>1, <1>0 DEF Knows
    <3> HIDE DEF r
    <3> QED
      BY <2>1, <2>3, <2>4, <3>1, <3>2, LifeInvStep
  <2> QED
    BY <2>2, <2>5, <2>6, <1>5 DEF CreateUpsert, Rewrite
<1>6. ASSUME NEW ok \in BOOLEAN, DeleteRemove(c, ok) PROVE LifeInv'
  <2>1. /\ Slug(c) \in Slugs /\ \A d \in Clients \ {c} : Slug(d) # Slug(c)
        /\ UNCHANGED <<assignments, portFile>> /\ Remove(Slug(c), ok)
    BY <1>6, <1>s DEF DeleteRemove, portVars, At
  <2>2. apps' = Drop(apps, Slug(c))
    BY <2>1 DEF Remove
  <2>3. ok /\ appsFile' = apps'
    <3>1. CASE Slug(c) \in DOMAIN apps
      BY <3>1, <2>1, <1>0 DEF Remove, Persist, DiskOutcome
    <3>2. CASE Slug(c) \notin DOMAIN apps
      <4>1. apps \in Ports!PortMap
        BY DEF LifeInv, TypeInv, StoreTypes
      <4>2. apps' = apps
        BY <2>2, <3>2, <4>1 DEF Drop, Ports!PortMap
      <4> QED
        BY <3>2, <4>2, <2>1, <1>0 DEF Remove, FilesCurrent
    <3> QED
      BY <3>1, <3>2
  <2>4. FilesCurrent'
    BY <2>1, <2>3, <1>0 DEF FilesCurrent
  <2>5. /\ \A t \in Slugs \ {Slug(c)} : t \in DOMAIN apps <=> t \in DOMAIN apps'
        /\ \A t \in DOMAIN apps' \ {Slug(c)} : apps'[t] = apps[t]
        /\ Slug(c) \notin DOMAIN apps'
    BY <2>2 DEF Drop
  <2> DEFINE r == [call[c] EXCEPT !.step = "release"]
  <2>6. /\ call' = [call EXCEPT ![c] = r] /\ r.step = "release" /\ r.slug = Slug(c)
    BY <2>3, <1>6, <1>0 DEF DeleteRemove, Goto, Call, Slug
  <2>7. Knows(c)'
    BY <2>5, <2>6, <1>0 DEF Knows, Slug
  <2> HIDE DEF r
  <2> QED
    BY <2>1, <2>4, <2>5, <2>6, <2>7, LifeInvStep
<1> QED
  BY <1>1, <1>2, <1>3, <1>4, <1>5, <1>6 DEF CallStep

\* So does every step, a crash included.
LEMMA LifeInvNext == Sane /\ LifeInv /\ [Next]_vars => LifeInv'
<1> SUFFICES ASSUME Sane, LifeInv, [Next]_vars PROVE LifeInv'
  OBVIOUS
<1>0. TypeInv'
  BY TypeInvNext DEF LifeInv
<1>1. CASE Crash
  <2>1. UNCHANGED <<assignments, portFile, apps, appsFile>>
    BY <1>1 DEF Crash, Ports!Reload, LifeInv, FilesCurrent
  <2>2. FilesCurrent' /\ RowOwnsPort'
    BY <2>1 DEF LifeInv, FilesCurrent, RowOwnsPort
  <2>3. \A c \in Clients : call'[c] = AtRest
    BY <1>1 DEF Crash, CutAll
  <2>4. OneCallPerSlug' /\ \A c \in Clients : Knows(c)'
    BY <2>3, LifecycleAssumption DEF OneCallPerSlug, Knows, At, Slug, AtRest, Idle
  <2> QED
    BY <1>0, <2>2, <2>4 DEF LifeInv
<1>2. CASE UNCHANGED vars
  BY <1>0, <1>2
     DEF vars, portVars, appVars, LifeInv, FilesCurrent, OneCallPerSlug, RowOwnsPort, Knows,
         At, Slug
<1> QED
  BY <1>0, <1>1, <1>2, LifeInvCall DEF Next

\* Without overlap on a slug and with a working disk, every registered application owns its
\* port, whatever create, update and delete are cut short by a crash or an error.
THEOREM RowsOwnTheirPorts == Sane => (Spec => []RowOwnsPort)
<1> SUFFICES ASSUME Sane PROVE Spec => []RowOwnsPort
  OBVIOUS
<1>1. LifeInv => RowOwnsPort
  BY DEF LifeInv
<1>2. LifeInv /\ [Next]_vars => LifeInv'
  BY LifeInvNext
<1> QED
  BY LifeInvInit, <1>1, <1>2, PTL DEF Spec
-----------------------------------------------------------------------------
\* Every step of the composed system is a step of the port registry or leaves it alone.
LEMMA PortStep == TypeInv /\ [Next]_vars => [Ports!Next]_(Ports!portVars)
<1> SUFFICES ASSUME TypeInv, [Next]_vars PROVE [Ports!Next]_(Ports!portVars)
  OBVIOUS
<1>1. CASE UNCHANGED portVars
  BY <1>1 DEF portVars, Ports!portVars
<1>2. CASE Crash
  BY <1>2 DEF Crash, Ports!Next
<1>3. ASSUME NEW c \in Clients, ~At(c, Idle) PROVE Slug(c) \in Slugs
  BY <1>3 DEF TypeInv, Holds
<1>4. ASSUME NEW c \in Clients, NEW ok \in BOOLEAN, CreateAssign(c, ok)
      PROVE  Ports!Next
  BY <1>3, <1>4 DEF CreateAssign, Assign, Ports!Next, At, Idle
<1>5. ASSUME NEW c \in Clients, CreateUndo(c) \/ DeleteRelease(c)
      PROVE  Ports!Next
  BY <1>3, <1>5 DEF CreateUndo, DeleteRelease, Release, Ports!Next, At, Idle
<1>6. ASSUME NEW c \in Clients, CallStep(c)
      PROVE  Ports!Next \/ UNCHANGED portVars
  BY <1>4, <1>5, <1>6
     DEF CallStep, CreateBegin, UpdateBegin, DeleteBegin, Begin, CreateScaffold, CreateUpsert,
         SetRoute, Rewrite, DeleteRoute, DeleteRemove
<1> QED
  BY <1>1, <1>2, <1>6 DEF Next, vars

\* The port registry inside the composed system behaves as PortRegistry specifies.
THEOREM LifecycleKeepsPorts == Spec => PortRegistrySpec
<1>1. Init => Ports!Init
  BY DEF Init
<1> QED
  BY <1>1, TypeInvInit, TypeInvNext, PortStep, PTL DEF Spec, PortRegistrySpec, Ports!Spec

PortProofs == INSTANCE PortRegistryProofs

\* No two registered applications have the same port: the rows own their ports, and the port
\* registry never gives one port to two slugs.
THEOREM AppsNeverSharePort == Sane => (Spec => []Ports!OneToOne(apps))
<1> SUFFICES ASSUME Sane PROVE Spec => []Ports!OneToOne(apps)
  OBVIOUS
<1>0. PortProofs!PortAssumption
  BY LifecycleAssumption DEF PortProofs!PortAssumption
<1>1. Ports!Init => PortProofs!PortInv
  BY <1>0, PortProofs!PortInvInit
     DEF Ports!Init, PortProofs!Init, Ports!EmptyMap, PortProofs!EmptyMap
<1>4. PortProofs!PortInv /\ [Ports!Next]_(Ports!portVars) => PortProofs!PortInv'
  <2>1. [Ports!Next]_(Ports!portVars) => [PortProofs!Next]_(PortProofs!portVars)
    BY DEF Ports!Next, PortProofs!Next, Ports!portVars, PortProofs!portVars,
           Ports!Reload, PortProofs!Reload, Ports!AssignKnown, PortProofs!AssignKnown,
           Ports!AssignExhausted, PortProofs!AssignExhausted,
           Ports!ReleaseUnknown, PortProofs!ReleaseUnknown,
           Ports!AssignNew, PortProofs!AssignNew, Ports!ReleaseKnown, PortProofs!ReleaseKnown,
           Ports!Persist, PortProofs!Persist, Ports!IsLowestFree, PortProofs!IsLowestFree,
           Ports!FreePorts, PortProofs!FreePorts, Ports!UsedPorts, PortProofs!UsedPorts,
           Ports!Assigned, PortProofs!Assigned, Ports!Port, PortProofs!Port
  <2> QED
    BY <1>0, <2>1, PortProofs!PortInvNext
<1>5. PortProofs!PortInv => Ports!NoSharedPort
  BY DEF PortProofs!PortInv, Ports!NoSharedPort, PortProofs!NoSharedPort,
         Ports!OneToOne, PortProofs!OneToOne
<1>6. Ports!Spec => []Ports!NoSharedPort
  BY <1>1, <1>4, <1>5, PTL DEF Ports!Spec
<1>2. RowOwnsPort /\ Ports!NoSharedPort => Ports!OneToOne(apps)
  BY DEF RowOwnsPort, Ports!NoSharedPort, Ports!OneToOne
<1>3. Spec => []RowOwnsPort
  BY RowsOwnTheirPorts
<1> QED
  BY LifecycleKeepsPorts, <1>2, <1>3, <1>6, PTL DEF PortRegistrySpec
-----------------------------------------------------------------------------
(* What a saga leaves behind. *)

\* Every route that hr-edge was told of last leads to the port in the row of its application.
RoutesMatch == \A s \in DOMAIN routes \ unreached : s \in DOMAIN apps /\ routes[s] = apps[s]

\* A caller about to set a route has written the row with that port; one about to remove a row has
\* removed the route, if hr-edge answered.
Prepared(c) ==
    /\ call[c].step \in {"route", "reroute"}
            => Slug(c) \in DOMAIN apps /\ apps[Slug(c)] = call[c].port
    /\ call[c].step = "remove" => Slug(c) \notin DOMAIN routes \ unreached

\* RoutesLeadHome is not inductive: it does not say that a route belongs to a row at all, so that
\* it may stay behind and meet the next owner of the port.
EndInv == RoutesMatch /\ NoLeakedPort /\ \A c \in Clients : Prepared(c)

LEMMA EndInvInit == Init => EndInv
  BY DEF Init, Ports!Init, EndInv, RoutesMatch, NoLeakedPort, Prepared, Slug, AtRest, Idle,
         Ports!EmptyMap

\* PortRegistry::assign and release change what one slug has.
LEMMA AssignTakes ==
    ASSUME NEW s, NEW ok, Assign(s, ok) PROVE DOMAIN assignments' = DOMAIN assignments \cup {s}
  BY DEF Assign, Ports!AssignKnown, Ports!AssignNew, Ports!Assigned, Ports!portVars

LEMMA ReleaseTakes ==
    ASSUME NEW s, Release(s) PROVE DOMAIN assignments' = DOMAIN assignments \ {s}
  BY DEF Release, Ports!ReleaseUnknown, Ports!ReleaseKnown, Ports!Assigned, Ports!portVars

\* One step of one caller on its own slug preserves EndInv when it preserves the part of it that
\* speaks of that caller and that slug.
LEMMA EndInvStep ==
    ASSUME LifeInv, EndInv, NEW c \in Clients, NEW s \in Slugs, TypeInv',
           NEW r, call' = [call EXCEPT ![c] = r], r.step # Idle => r.slug = s,
           Slug(c) \in {s, NoSlug}, \A d \in Clients \ {c} : Slug(d) # s,
           \A t \in DOMAIN apps \ {s} : t \in DOMAIN apps' /\ apps'[t] = apps[t],
           \A t \in (DOMAIN routes' \ unreached') \ {s} :
               t \in DOMAIN routes \ unreached /\ routes'[t] = routes[t],
           DOMAIN assignments' \subseteq DOMAIN assignments \cup {s},
           cutShort \subseteq cutShort' \cup {s},
           s \in DOMAIN routes' \ unreached' => s \in DOMAIN apps' /\ routes'[s] = apps'[s],
           s \in DOMAIN assignments' => s \in DOMAIN apps' \cup cutShort' \/ r.slug = s,
           Prepared(c)'
    PROVE  EndInv'
<1>0. call \in [Clients -> Call] /\ call'[c] = r /\ \A d \in Clients \ {c} : call'[d] = call[d]
  BY DEF LifeInv, TypeInv, StoreTypes
<1>1. RoutesMatch'
  BY DEF EndInv, RoutesMatch
<1>2. NoLeakedPort'
  <2> SUFFICES ASSUME NEW t \in DOMAIN assignments'
               PROVE  t \in DOMAIN apps' \cup cutShort' \/ \E d \in Clients : Slug(d)' = t
    BY DEF NoLeakedPort
  <2>1. CASE t = s
    BY <2>1, <1>0 DEF Slug
  <2>2. CASE t # s
    <3>1. t \in DOMAIN assignments /\ t \in Slugs
      BY <2>2, MapValues DEF LifeInv, TypeInv, StoreTypes, Ports!TypeOK
    <3>2. t \in DOMAIN apps \cup cutShort \/ \E d \in Clients \ {c} : Slug(d) = t
      BY <2>2, <3>1, LifecycleAssumption DEF EndInv, NoLeakedPort
    <3> QED
      BY <2>2, <3>2, <1>0 DEF Slug
  <2> QED
    BY <2>1, <2>2
<1>3. ASSUME NEW d \in Clients \ {c} PROVE Prepared(d)'
  <2>1. Prepared(d) /\ Holds(d) /\ call'[d] = call[d] /\ Slug(d) # s
    BY <1>0 DEF LifeInv, TypeInv, EndInv
  <2>2. CASE At(d, Idle)
    BY <2>1, <2>2 DEF Prepared, At, Idle
  <2>3. CASE ~At(d, Idle)
    BY <2>1, <2>3 DEF Prepared, Slug, Holds
  <2> QED
    BY <2>2, <2>3
<1> QED
  BY <1>1, <1>2, <1>3 DEF EndInv

\* Every step of create, update and delete preserves EndInv.
LEMMA EndInvCall ==
    ASSUME Sane, LifeInv, EndInv, TypeInv', NEW c \in Clients, CallStep(c)
    PROVE  EndInv'
<1> USE DEF Idle
<1>0. /\ call[c] \in Call /\ call \in [Clients -> Call] /\ Holds(c) /\ Knows(c) /\ Prepared(c)
      /\ RowOwnsPort /\ RoutesMatch /\ ~DiskFails /\ NoSlug \notin Slugs
  BY LifecycleAssumption DEF LifeInv, TypeInv, StoreTypes, Sane, EndInv
<1>r. AtRest.step = Idle /\ AtRest.slug = NoSlug
  BY DEF AtRest
<1>s. ~At(c, Idle) => Slug(c) \in Slugs /\ \A d \in Clients \ {c} : Slug(d) # Slug(c)
  BY <1>0 DEF Holds, LifeInv, OneCallPerSlug
<1>1. ASSUME NEW s \in Slugs, CreateBegin(c, s) \/ UpdateBegin(c, s) \/ DeleteBegin(c, s)
      PROVE  EndInv'
  <2>1. PICK step \in {"assign", "rewrite", "unroute"} : Begin(c, s, step)
    BY <1>1 DEF CreateBegin, UpdateBegin, DeleteBegin
  <2> DEFINE r == [step |-> step, slug |-> s,
                   port |-> IF s \in DOMAIN apps THEN apps[s] ELSE NoPort]
  <2>2. /\ call' = [call EXCEPT ![c] = r] /\ r.step = step /\ r.slug = s
        /\ UNCHANGED <<assignments, apps, routes, unreached>> /\ cutShort' = cutShort \ {s}
        /\ Slug(c) = NoSlug /\ \A d \in Clients \ {c} : Slug(d) # s
    BY <2>1 DEF Begin, Sane, LifeInv, OneCallPerSlug, portVars, appVars
  <2>3. Prepared(c)'
    BY <2>1, <2>2, <1>0 DEF Prepared
  <2>4. s \in DOMAIN routes \ unreached => s \in DOMAIN apps /\ routes[s] = apps[s]
    BY <1>0 DEF RoutesMatch
  <2> HIDE DEF r
  <2> QED
    BY <2>2, <2>3, <2>4, EndInvStep
<1>2. ASSUME NEW ok \in BOOLEAN, CreateAssign(c, ok) PROVE EndInv'
  <2>1. /\ Slug(c) \in Slugs /\ \A d \in Clients \ {c} : Slug(d) # Slug(c)
        /\ UNCHANGED <<apps, routes, unreached, cutShort>>
    BY <1>2, <1>s DEF CreateAssign, appVars, history, At
  <2>2. Slug(c) \in DOMAIN routes \ unreached =>
            Slug(c) \in DOMAIN apps /\ routes[Slug(c)] = apps[Slug(c)]
    BY <1>0 DEF RoutesMatch
  <2>3. CASE ok
    <3>1. Assign(Slug(c), ok) /\ GotoWith(c, "scaffold", assignments'[Slug(c)])
      BY <1>2, <2>3 DEF CreateAssign
    <3> DEFINE r == [call[c] EXCEPT !.step = "scaffold", !.port = assignments'[Slug(c)]]
    <3>2. call' = [call EXCEPT ![c] = r] /\ r.step = "scaffold" /\ r.slug = Slug(c)
      BY <3>1, <1>0 DEF GotoWith, Call, Slug
    <3>3. Prepared(c)'
      BY <3>2, <1>0 DEF Prepared
    <3>4. DOMAIN assignments' = DOMAIN assignments \cup {Slug(c)}
      BY <3>1, AssignTakes
    <3> HIDE DEF r
    <3> QED
      BY <2>1, <2>2, <3>2, <3>3, <3>4, EndInvStep
  <2>4. CASE ~ok
    <3>1. ~Assign(Slug(c), ok)
      BY <2>4, <1>0 DEF Assign, Ports!AssignNew, Ports!Persist
    <3>2. Ports!AssignExhausted(Slug(c)) /\ Return(c)
      BY <1>2, <2>4, <3>1 DEF CreateAssign
    <3>3. assignments' = assignments /\ Slug(c) \notin DOMAIN assignments
      BY <3>2 DEF Ports!AssignExhausted, Ports!Assigned, Ports!portVars
    <3>4. Prepared(c)'
      BY <3>2, <1>0, <1>r DEF Return, Prepared
    <3> QED
      BY <2>1, <2>2, <3>2, <3>3, <3>4, <1>r, EndInvStep DEF Return
  <2> QED
    BY <2>3, <2>4
<1>3. ASSUME CreateScaffold(c) PROVE EndInv'
  <2>1. /\ Slug(c) \in Slugs /\ \A d \in Clients \ {c} : Slug(d) # Slug(c)
        /\ UNCHANGED <<assignments, apps, routes, unreached, cutShort>>
    BY <1>3, <1>s DEF CreateScaffold, appVars, portVars, history, At
  <2>2. Slug(c) \in DOMAIN routes \ unreached =>
            Slug(c) \in DOMAIN apps /\ routes[Slug(c)] = apps[Slug(c)]
    BY <1>0 DEF RoutesMatch
  <2>3. PICK step \in {"upsert", "undo"} : Goto(c, step)
    BY <1>3 DEF CreateScaffold
  <2> DEFINE r == [call[c] EXCEPT !.step = step]
  <2>4. call' = [call EXCEPT ![c] = r] /\ r.step = step /\ r.slug = Slug(c)
    BY <2>3, <1>0 DEF Goto, Call, Slug
  <2>5. Prepared(c)'
    BY <2>4, <1>0 DEF Prepared
  <2> HIDE DEF r
  <2> QED
    BY <2>1, <2>2, <2>4, <2>5, EndInvStep
<1>4. ASSUME CreateUndo(c) \/ DeleteRelease(c) PROVE EndInv'
  <2>1. /\ Slug(c) \in Slugs /\ \A d \in Clients \ {c} : Slug(d) # Slug(c)
        /\ UNCHANGED <<apps, routes, unreached, cutShort>>
        /\ Release(Slug(c)) /\ Return(c)
    BY <1>4, <1>s DEF CreateUndo, DeleteRelease, appVars, history, At
  <2>2. DOMAIN assignments' = DOMAIN assignments \ {Slug(c)}
    BY <2>1, ReleaseTakes
  <2>3. Slug(c) \in DOMAIN routes \ unreached =>
            Slug(c) \in DOMAIN apps /\ routes[Slug(c)] = apps[Slug(c)]
    BY <1>0 DEF RoutesMatch
  <2>4. Prepared(c)'
    BY <2>1, <1>0, <1>r DEF Return, Prepared
  <2> QED
    BY <2>1, <2>2, <2>3, <2>4, <1>r, EndInvStep DEF Return
<1>5. ASSUME NEW ok \in BOOLEAN, CreateUpsert(c, ok) \/ Rewrite(c, ok) PROVE EndInv'
  <2>1. /\ Slug(c) \in Slugs /\ \A d \in Clients \ {c} : Slug(d) # Slug(c)
        /\ assignments[Slug(c)] = call[c].port
        /\ UNCHANGED <<assignments, routes, unreached, cutShort>>
        /\ Upsert(Slug(c), call[c].port, ok)
    BY <1>5, <1>0, <1>s DEF CreateUpsert, Rewrite, portVars, history, At, Knows
  <2>2. ok
    BY <2>1, <1>0 DEF Upsert, Persist, DiskOutcome
  <2>3. /\ \A t \in DOMAIN apps \ {Slug(c)} : t \in DOMAIN apps' /\ apps'[t] = apps[t]
        /\ Slug(c) \in DOMAIN apps' /\ apps'[Slug(c)] = call[c].port
    BY <2>1 DEF Upsert, Put
  <2>4. Slug(c) \in DOMAIN routes \ unreached => routes[Slug(c)] = apps'[Slug(c)]
    BY <2>1, <2>3, <1>0 DEF RoutesMatch, RowOwnsPort
  <2>5. CASE Return(c)
    <3>1. Prepared(c)'
      BY <2>5, <1>0, <1>r DEF Return, Prepared
    <3> QED
      BY <2>1, <2>3, <2>4, <2>5, <3>1, <1>r, EndInvStep DEF Return
  <2>6. ASSUME NEW step \in {"route", "reroute"}, Goto(c, step) PROVE EndInv'
    <3> DEFINE r == [call[c] EXCEPT !.step = step]
    <3>1. /\ call' = [call EXCEPT ![c] = r] /\ r.step = step /\ r.slug = Slug(c)
          /\ r.port = call[c].port
      BY <2>6, <1>0 DEF Goto, Call, Slug
    <3>2. Prepared(c)'
      BY <3>1, <2>3, <1>0 DEF Prepared, Slug
    <3> HIDE DEF r
    <3> QED
      BY <2>1, <2>3, <2>4, <3>1, <3>2, EndInvStep
  <2> QED
    BY <2>2, <2>5, <2>6, <1>5 DEF CreateUpsert, Rewrite
<1>6. ASSUME NEW ok \in BOOLEAN, SetRoute(c, ok) PROVE EndInv'
  <2>1. /\ Slug(c) \in Slugs /\ \A d \in Clients \ {c} : Slug(d) # Slug(c)
        /\ UNCHANGED <<assignments, apps, cutShort>> /\ Return(c)
        /\ Slug(c) \in DOMAIN apps /\ apps[Slug(c)] = call[c].port
    BY <1>6, <1>0, <1>s DEF SetRoute, appVars, portVars, At, Prepared
  <2>2. /\ \A t \in (DOMAIN routes' \ unreached') \ {Slug(c)} :
              t \in DOMAIN routes \ unreached /\ routes'[t] = routes[t]
        /\ Slug(c) \in DOMAIN routes' \ unreached' => routes'[Slug(c)] = apps[Slug(c)]
    BY <1>6, <2>1 DEF SetRoute, Reached, Put
  <2>3. Prepared(c)'
    BY <2>1, <1>0, <1>r DEF Return, Prepared
  <2> QED
    BY <2>1, <2>2, <2>3, <1>r, EndInvStep DEF Return
<1>7. ASSUME NEW ok \in BOOLEAN, DeleteRoute(c, ok) PROVE EndInv'
  <2>1. /\ Slug(c) \in Slugs /\ \A d \in Clients \ {c} : Slug(d) # Slug(c)
        /\ UNCHANGED <<assignments, apps, cutShort>>
    BY <1>7, <1>s DEF DeleteRoute, appVars, portVars, At
  <2>2. /\ \A t \in (DOMAIN routes' \ unreached') \ {Slug(c)} :
              t \in DOMAIN routes \ unreached /\ routes'[t] = routes[t]
        /\ Slug(c) \notin DOMAIN routes' \ unreached'
    BY <1>7 DEF DeleteRoute, Reached, Drop
  <2> DEFINE r == [call[c] EXCEPT !.step = "remove"]
  <2>3. call' = [call EXCEPT ![c] = r] /\ r.step = "remove" /\ r.slug = Slug(c)
    BY <1>7, <1>0 DEF DeleteRoute, Goto, Call, Slug
  <2>4. Prepared(c)'
    BY <2>2, <2>3, <1>0 DEF Prepared, Slug
  <2> HIDE DEF r
  <2> QED
    BY <2>1, <2>2, <2>3, <2>4, EndInvStep
<1>8. ASSUME NEW ok \in BOOLEAN, DeleteRemove(c, ok) PROVE EndInv'
  <2>1. /\ Slug(c) \in Slugs /\ \A d \in Clients \ {c} : Slug(d) # Slug(c)
        /\ UNCHANGED <<assignments, routes, unreached, cutShort>> /\ Remove(Slug(c), ok)
        /\ Slug(c) \notin DOMAIN routes \ unreached
    BY <1>8, <1>0, <1>s DEF DeleteRemove, portVars, history, At, Prepared
  <2>2. \A t \in DOMAIN apps \ {Slug(c)} : t \in DOMAIN apps' /\ apps'[t] = apps[t]
    BY <2>1 DEF Remove, Drop
  <2>3. ok
    BY <2>1, <1>0 DEF Remove, Persist, DiskOutcome
  <2> DEFINE r == [call[c] EXCEPT !.step = "release"]
  <2>4. call' = [call EXCEPT ![c] = r] /\ r.step = "release" /\ r.slug = Slug(c)
    BY <2>3, <1>8, <1>0 DEF DeleteRemove, Goto, Call, Slug
  <2>5. Prepared(c)'
    BY <2>4, <1>0 DEF Prepared
  <2> HIDE DEF r
  <2> QED
    BY <2>1, <2>2, <2>4, <2>5, EndInvStep
<1> QED
  BY <1>1, <1>2, <1>3, <1>4, <1>5, <1>6, <1>7, <1>8 DEF CallStep

\* So does every step: a crash leaves the ports of the calls it ends to the history.
LEMMA EndInvNext == Sane /\ LifeInv /\ EndInv /\ [Next]_vars => EndInv'
<1> SUFFICES ASSUME Sane, LifeInv, EndInv, [Next]_vars PROVE EndInv'
  OBVIOUS
<1>0. TypeInv'
  BY TypeInvNext DEF LifeInv
<1>1. CASE Crash
  <2>1. UNCHANGED <<assignments, apps, routes, unreached>>
    BY <1>1 DEF Crash, Ports!Reload, LifeInv, FilesCurrent
  <2>2. \A c \in Clients : call'[c] = AtRest
    BY <1>1 DEF Crash, CutAll
  <2>3. RoutesMatch' /\ \A c \in Clients : Prepared(c)'
    BY <2>1, <2>2 DEF EndInv, RoutesMatch, Prepared, AtRest, Idle
  <2>4. NoLeakedPort'
    <3> SUFFICES ASSUME NEW s \in DOMAIN assignments PROVE s \in DOMAIN apps \cup cutShort'
      BY <2>1 DEF NoLeakedPort
    <3>1. s \in Slugs /\ s # NoSlug
      BY MapValues, LifecycleAssumption DEF LifeInv, TypeInv, StoreTypes, Ports!TypeOK
    <3> QED
      BY <1>1, <3>1 DEF Crash, CutAll, EndInv, NoLeakedPort
  <2> QED
    BY <2>3, <2>4 DEF EndInv
<1>2. CASE UNCHANGED vars
  BY <1>2 DEF vars, portVars, appVars, history, EndInv, RoutesMatch, NoLeakedPort, Prepared, Slug
<1> QED
  BY <1>0, <1>1, <1>2, EndInvCall DEF Next

\* Under the same conditions create, update and delete leave nothing behind outside the two
\* registries, wherever they fail or are cut short: no route of a domain to the port of another
\* application, once hr-edge has answered the last request for it, and no port without an owner but
\* for a call that died with the orchestrator.
THEOREM SagasLeaveNothingBehind == Sane => (Spec => []NothingLeftBehind)
<1> SUFFICES ASSUME Sane PROVE Spec => []NothingLeftBehind
  OBVIOUS
<1>1. LifeInv /\ [Next]_vars => LifeInv'
  BY LifeInvNext
<1>2. LifeInv /\ EndInv /\ [Next]_vars => EndInv'
  BY EndInvNext
<1>3. EndInv /\ Ports!OneToOne(apps) => NothingLeftBehind
  BY DEF EndInv, RoutesMatch, Ports!OneToOne, RoutesLeadHome, NothingLeftBehind
<1>4. Spec => []Ports!OneToOne(apps)
  BY AppsNeverSharePort
<1> QED
  BY LifeInvInit, EndInvInit, <1>1, <1>2, <1>3, <1>4, PTL DEF Spec
-----------------------------------------------------------------------------
(* The supervisor of one application (module AppSupervisor), for any number of callers and watcher
   tasks: its types. *)

\* Aborting one task or dropping one future leaves at most one orphaned command.
LEMMA OneOrphan ==
    ASSUME SupervisorTypeOK, NEW t, DropCommands({t})
    PROVE  /\ cmd' \in [Actors -> {"none", "sent", "ok", "err"}]
           /\ orphans' \in 0 .. MaxOrphans
           /\ Orphaned({t}) = {} => orphans' = orphans
<1>1. Orphaned({t}) \subseteq {t} /\ IsFiniteSet({t})
  BY FS_Singleton DEF Orphaned
<1>2. IsFiniteSet(Orphaned({t})) 
  BY <1>1, FS_Subset
<1>3. Cardinality(Orphaned({t})) \in Nat
  BY <1>2, FS_CardinalityType
<1>4. Orphaned({t}) = {} => Cardinality(Orphaned({t})) = 0
  BY FS_EmptySet
<1>5. orphans \in 0 .. MaxOrphans /\ MaxOrphans \in Nat
  BY SupervisorAssumption DEF SupervisorTypeOK
<1>6. orphans' \in 0 .. MaxOrphans /\ (Orphaned({t}) = {} => orphans' = orphans)
  BY <1>3, <1>4, <1>5 DEF DropCommands
<1>7. cmd' \in [Actors -> {"none", "sent", "ok", "err"}]
  BY DEF DropCommands, SupervisorTypeOK
<1> QED
  BY <1>6, <1>7

\* A step of start keeps the types.
LEMMA SupervisorTypesStart ==
    ASSUME SupervisorTypeOK, NEW c \in Callers, StartStep(c)
    PROVE  SupervisorTypeOK'
<1> USE DEF SupervisorTypeOK, Step, Returns, SetState, SetReg, SendRun, TakeResult, Abort,
            CallSteps, WatchSteps, AppState, UnitState, AllOperations, Process, Actors, 
            supVars, callVars, runVars, marks, NewProcess
<1>1. CASE StartCall(c)
  <2>1. tracked' \in BOOLEAN /\ calm' \in BOOLEAN
    BY <1>1 DEF StartCall
  <2>2. pc' \in [Callers -> CallSteps]
    BY <1>1 DEF StartCall
  <2> QED
    BY <1>1, <2>1, <2>2 DEF StartCall
<1>2. CASE StartLock(c)
  <2>1. gaveUp' \in BOOLEAN
    BY <1>2 DEF StartLock
  <2>2. proc' \in Process
    BY <1>2 DEF StartLock
  <2>3. pc' \in [Callers -> CallSteps] /\ op' \in [Callers -> AllOperations \cup {"none"}]
    BY <1>2 DEF StartLock
  <2> QED
    BY <1>2, <2>1, <2>2, <2>3 DEF StartLock
<1>3. CASE StartReg(c)
  BY <1>3 DEF StartReg
<1>4. CASE AttachSpawn(c)
  BY <1>4 DEF AttachSpawn
<1>5. CASE AttachSlot(c)
  <2>1. DropCommands({proc.watcher})
    BY <1>5 DEF AttachSlot
  <2>2. cmd' \in [Actors -> {"none", "sent", "ok", "err"}] /\ orphans' \in 0 .. MaxOrphans
    BY <2>1, OneOrphan
  <2> QED
    BY <1>5, <2>2 DEF AttachSlot
<1>6. CASE StartProbe(c) \/ StartRun(c) \/ StartWait(c) \/ StartCrash(c) \/ StartCrashReg(c)
  BY <1>6 DEF StartProbe, StartRun, StartWait, StartCrash, StartCrashReg
<1> QED
  BY <1>1, <1>2, <1>3, <1>4, <1>5, <1>6 DEF StartStep

\* A step of stop keeps the types.
LEMMA SupervisorTypesStop ==
    ASSUME SupervisorTypeOK, NEW c \in Callers, StopStep(c)
    PROVE  SupervisorTypeOK'
<1> USE DEF SupervisorTypeOK, Step, Returns, SetState, SetReg, Abort,
            CallSteps, AppState, UnitState, AllOperations, Process, 
            supVars, callVars, runVars, marks
<1>1. CASE StopUntracked(c) \/ StopDoneReg(c) \/ StopKillWait(c)
  <2> USE DEF AfterStop
  <2>1. CASE StopUntracked(c)
    BY <2>1 DEF StopUntracked
  <2>2. CASE StopDoneReg(c)
    BY <2>2 DEF StopDoneReg
  <2>3. CASE StopKillWait(c)
    BY <2>3 DEF StopKillWait
  <2> QED
    BY <1>1, <2>1, <2>2, <2>3
<1>2. CASE StopLock(c)
  <2>1. calm' \in BOOLEAN
    BY <1>2 DEF StopLock
  <2> QED
    BY <1>2, <2>1 DEF StopLock
<1>3. CASE StopReg(c) \/ StopCmd(c) \/ StopWait(c) \/ StopKill(c) \/ StopDone(c)
  <2>1. CASE StopReg(c) \/ StopWait(c) \/ StopDone(c)
    BY <1>3, <2>1 DEF StopReg, StopWait, StopDone
  <2>2. CASE StopCmd(c)
    <3>1. unit' \in UnitState /\ calm' \in BOOLEAN
      BY <2>2 DEF StopCmd
    <3> QED
      BY <2>2, <3>1 DEF StopCmd
  <2>3. CASE StopKill(c)
    <3>1. unit' \in UnitState
      BY <2>3 DEF StopKill
    <3> QED
      BY <2>3, <3>1 DEF StopKill
  <2> QED
    BY <1>3, <2>1, <2>2, <2>3
<1>4. CASE StopAbort(c)
  <2>1. DropCommands({handle[c]})
    BY <1>4 DEF StopAbort
  <2>2. cmd' \in [Actors -> {"none", "sent", "ok", "err"}] /\ orphans' \in 0 .. MaxOrphans
    BY <2>1, OneOrphan
  <2>3. calm' \in BOOLEAN
    BY <1>4 DEF StopAbort
  <2>4. wpc' \in [Watchers -> WatchSteps]
    BY <1>4 DEF StopAbort, WatchSteps
  <2> QED
    BY <1>4, <2>2, <2>3, <2>4 DEF StopAbort
<1> QED
  BY <1>1, <1>2, <1>3, <1>4 DEF StopStep

\* A step of a watcher task keeps the types.
LEMMA SupervisorTypesWatch ==
    ASSUME SupervisorTypeOK, NEW w \in Watchers, WatchStep(w)
    PROVE  SupervisorTypeOK'
<1> USE DEF SupervisorTypeOK, WStep, SetState, SetReg, SendRun, TakeResult, Actors, 
            WatchSteps, AppState, Process, supVars, callVars, runVars, marks
<1>1. CASE WBump(w)
  <2>1. gaveUp' \in BOOLEAN
    BY <1>1 DEF WBump
  <2>2. proc' \in Process
    <3>1. MaxRestarts \in Nat /\ proc \in Process
      BY SupervisorAssumption
    <3>2. CASE proc.restarts < MaxRestarts /\ proc' = [proc EXCEPT !.restarts = @ + 1]
      <4>1. proc.restarts + 1 \in 0 .. MaxRestarts + 1
        BY <3>1, <3>2
      <4> QED
        BY <3>2, <4>1
    <3>3. CASE proc' = [proc EXCEPT !.restarts = MaxRestarts + 1, !.state = "Crashed"]
      <4>1. MaxRestarts + 1 \in 0 .. MaxRestarts + 1
        BY <3>1
      <4> QED
        BY <3>3, <4>1
    <3> QED
      BY <1>1, <3>2, <3>3 DEF WBump
  <2> QED
    BY <1>1, <2>1, <2>2 DEF WBump
<1>2. CASE WRespawn(w) \/ WRespawnWait(w)
  BY <1>2 DEF WRespawn, WRespawnWait
<1>3. CASE WAwait(w) \/ WMark(w) \/ WMarkReg(w) \/ WLoop(w) \/ WPoll(w) \/ WRecheck(w)
  BY <1>3 DEF WAwait, WMark, WMarkReg, WLoop, WPoll, WRecheck
<1>4. CASE \/ WCrash(w) \/ WCrashReg(w) \/ WBackoff(w) \/ WRespawnReg(w)
           \/ WRespawnCrash(w) \/ WRespawnCrashReg(w)
  BY <1>4 DEF WCrash, WCrashReg, WBackoff, WRespawnReg, WRespawnCrash, WRespawnCrashReg
<1> QED
  BY <1>1, <1>2, <1>3, <1>4 DEF WatchStep

\* So do the other steps.
LEMMA SupervisorTypesRest ==
    ASSUME SupervisorTypeOK,
           \/ \E c \in Users : PipelineTimeout(c) \/ \E o \in Operations : BeginCall(c, o)
           \/ \E c \in Callers : Rsync(c) \/ UpdateRead(c) \/ UpdateWrite(c)
           \/ BootStep \/ Reboot \/ Systemd \/ RestartExpires
    PROVE  SupervisorTypeOK'
<1> USE SupervisorAssumption
    DEF SupervisorTypeOK, Step, Returns, SetState, SetReg, Callers, Actors, CallSteps, WatchSteps,
        AppState, UnitState, AllOperations, Process, NewProcess, supVars, callVars, runVars, marks
<1>1. ASSUME NEW c \in Users, PipelineTimeout(c) PROVE SupervisorTypeOK'
  <2>1. cmd' \in [Actors -> {"none", "sent", "ok", "err"}] /\ orphans' \in 0 .. MaxOrphans
    BY <1>1, OneOrphan DEF PipelineTimeout
  <2>2. /\ pc' \in [Callers -> CallSteps] /\ op' \in [Callers -> AllOperations \cup {"none"}]
        /\ handle' \in [Callers -> Watchers \cup {NoTask}]
    BY <1>1 DEF PipelineTimeout
  <2>3. calm' \in BOOLEAN /\ alone' \in BOOLEAN
    BY <1>1 DEF PipelineTimeout
  <2> QED
    BY <1>1, <2>1, <2>2, <2>3 DEF PipelineTimeout
<1>2. ASSUME NEW c \in Users, NEW o \in Operations, BeginCall(c, o) PROVE SupervisorTypeOK'
  <2>1. calm' \in BOOLEAN /\ alone' \in BOOLEAN
    BY <1>2 DEF BeginCall
  <2>2. pc' \in [Callers -> CallSteps] /\ op' \in [Callers -> AllOperations \cup {"none"}]
    BY <1>2 DEF BeginCall
  <2> QED
    BY <1>2, <2>1, <2>2 DEF BeginCall
<1>3. ASSUME NEW c \in Callers, Rsync(c) \/ UpdateRead(c) \/ UpdateWrite(c) PROVE SupervisorTypeOK'
  BY <1>3 DEF Rsync, UpdateRead, UpdateWrite
<1>4. CASE BootStep
  <2>1. Boot \in Callers
    OBVIOUS
  <2>2. CASE BootLook
    <3>0. proc' = [proc EXCEPT !.state = "Running"] \/ UNCHANGED proc
      BY <2>2 DEF BootLook
    <3>1. proc' \in Process
      BY <3>0
    <3>3. tracked' \in BOOLEAN
      BY <2>2 DEF BootLook
    <3>2. pc' \in [Callers -> CallSteps]
      BY <2>1, <2>2 DEF BootLook
    <3> QED
      BY <2>2, <3>1, <3>2, <3>3 DEF BootLook
  <2>3. CASE BootReg
    BY <2>1, <2>3 DEF BootReg
  <2> QED
    BY <1>4, <2>2, <2>3 DEF BootStep
<1>5. CASE Reboot
  <2>1. proc' \in Process /\ orphans' \in 0 .. MaxOrphans
    <3>1. 0 \in 0 .. MaxRestarts + 1 /\ 0 \in 0 .. MaxOrphans
      OBVIOUS
    <3>2. proc' = NewProcess /\ orphans' = 0
      BY <1>5 DEF Reboot
    <3> QED
      BY <3>1, <3>2
  <2>2. /\ pc' \in [Callers -> CallSteps] /\ op' \in [Callers -> AllOperations \cup {"none"}]
        /\ handle' \in [Callers -> Watchers \cup {NoTask}] /\ saw' \in [Callers -> AppState]
        /\ wpc' \in [Watchers -> WatchSteps] /\ cmd' \in [Actors -> {"none", "sent", "ok", "err"}]
    BY <1>5 DEF Reboot
  <2> QED
    BY <1>5, <2>1, <2>2 DEF Reboot
<1>6. CASE RestartExpires
  BY <1>6 DEF RestartExpires
<1>7. CASE Systemd
  <2>1. ASSUME NEW i \in Actors, AnswerRun(i) PROVE SupervisorTypeOK'
    BY <2>1 DEF AnswerRun
  <2>2. CASE AnswerOrphan \/ UnitStarts \/ UnitEnds \/ UnitDies
    BY <2>2 DEF AnswerOrphan, UnitStarts, UnitEnds, UnitDies
  <2> QED
    BY <1>7, <2>1, <2>2 DEF Systemd
<1> QED
  BY <1>1, <1>2, <1>3, <1>4, <1>5, <1>6, <1>7

\* The initial state has its types.
LEMMA SupervisorTypesInit == SupervisorInit => SupervisorTypeOK
<1> SUFFICES ASSUME SupervisorInit PROVE SupervisorTypeOK
  OBVIOUS
<1>1. proc \in Process /\ orphans \in 0 .. MaxOrphans
  BY SupervisorAssumption DEF SupervisorInit, Process, NewProcess, AppState
<1>2. /\ pc \in [Callers -> CallSteps] /\ op \in [Callers -> AllOperations \cup {"none"}]
      /\ handle \in [Callers -> Watchers \cup {NoTask}] /\ saw \in [Callers -> AppState]
      /\ wpc \in [Watchers -> WatchSteps] /\ cmd \in [Actors -> {"none", "sent", "ok", "err"}]
  BY DEF SupervisorInit, CallSteps, WatchSteps, AppState
<1>3. tracked \in BOOLEAN /\ calm \in BOOLEAN /\ gaveUp \in BOOLEAN /\ alone \in BOOLEAN
      /\ reg \in AppState /\ unit \in UnitState
  BY DEF SupervisorInit, AppState, UnitState
<1> QED
  BY <1>1, <1>2, <1>3 DEF SupervisorTypeOK

\* The steps of neither start, stop nor a watcher task.
Elsewhere ==
    \/ \E c \in Users : PipelineTimeout(c) \/ \E o \in Operations : BeginCall(c, o)
    \/ \E c \in Callers : Rsync(c) \/ UpdateRead(c) \/ UpdateWrite(c)
    \/ BootStep \/ Reboot \/ Systemd \/ RestartExpires

\* Every step is one of these.
LEMMA SupervisorNextCases ==
    ASSUME SupervisorNext
    PROVE  \/ \E c \in Callers : StartStep(c) \/ StopStep(c)
           \/ \E w \in Watchers : WatchStep(w)
           \/ Elsewhere
  BY DEF SupervisorNext, UserStep, Elsewhere

\* Every step keeps the types.
LEMMA SupervisorTypesStep ==
    SupervisorTypeOK /\ [SupervisorNext]_supervisorVars => SupervisorTypeOK'
<1> SUFFICES ASSUME SupervisorTypeOK, [SupervisorNext]_supervisorVars
             PROVE  SupervisorTypeOK'
  OBVIOUS
<1>1. CASE SupervisorNext
  BY <1>1, SupervisorNextCases, SupervisorTypesStart, SupervisorTypesStop, SupervisorTypesWatch,
     SupervisorTypesRest DEF Elsewhere
<1>2. CASE UNCHANGED supervisorVars
  BY <1>2 DEF SupervisorTypeOK, supervisorVars, supVars, callVars, runVars, marks
<1> QED
  BY <1>1, <1>2

-----------------------------------------------------------------------------
(* The inductive invariant behind CallsHold, part by part. *)

\* The steps of start, and of the adoption at boot, between the move of the entry to Starting or
\* Running and the watcher that follows from it.
StartingSteps ==
    {"startReg", "startProbe", "startRun", "startWait", "startCrash", "bootReg", "attachSpawn"}

\* The steps of stop from its first critical section on.
StoppingSteps ==
    {"stopReg", "stopAbort", "stopCmd", "stopWait", "stopKill", "stopKillWait", "stopDone",
     "stopDoneReg"}

\* The steps of callers that have not looked at the process entry.
OutsideSteps == {"idle", "start", "stop", "rsync", "update", "updateWrite", "boot"}

\* An actor has a systemd-run process only while it awaits its answer.
CommandsAwaited ==
    /\ \A c \in Callers : cmd[c] # "none" => pc[c] = "startWait"
    /\ \A w \in Watchers : cmd[w] # "none" => wpc[w] = "respawnWait"

\* A caller has a JoinHandle only on its way into or out of the slot of the entry.
HandlesHeld ==
    \A c \in Callers : handle[c] # NoTask => pc[c] \in {"attachSlot", "stopReg", "stopAbort"}

\* Unless a pipeline can time out, no watcher task escapes.
Owned == ~Timeouts => WatcherOwned

\* Boot only looks, adopts and starts, and while it does no client is served.
BootAlone ==
    /\ pc[Boot] \notin {"stop", "rsync", "update", "updateWrite"} \cup StoppingSteps
    /\ op[Boot] = "none"
    /\ ~Quiet(Boot) => \A c \in Users : Quiet(c)

\* Before the first start or adoption since the orchestrator started, nothing has touched the entry,
\* and the registry says up only while boot has still to act on it; an update in progress, which
\* writes back the state it has read, has read nothing else.
Untracked ==
    ~tracked =>
        /\ proc = NewProcess
        /\ \A w \in Watchers : ~Live(w)
        /\ \A c \in Callers : pc[c] \in OutsideSteps
        /\ pc[Boot] \in {"boot", "start"} \/ reg \notin {"Running", "Starting"}
        /\ \A c \in Callers : pc[c] = "updateWrite" => saw[c] \notin {"Running", "Starting"}

\* An undisturbed stop, and calls that never overlapped, have the supervisor to themselves.
OneCall == calm \/ alone => \A c, d \in Callers : c = d \/ Quiet(c) \/ Quiet(d)

\* From the first critical section of an undisturbed stop to the next call: every watcher left is one
\* the stop is about to abort, and once systemctl stop has been obeyed nothing can load the unit.
CalmUnit ==
    calm =>
        /\ orphans = 0
        /\ \A c \in Callers : pc[c] \in {"idle", "rsync", "start"} \cup StoppingSteps
        /\ \A w \in Watchers :
              Live(w) => \E c \in Callers : handle[c] = w /\ pc[c] \in {"stopReg", "stopAbort"}
        /\ \/ \E c \in Callers : pc[c] \in {"stopReg", "stopAbort", "stopCmd"}
           \/ unit \in {"deactivating", "none"}
        /\ \A c \in Callers : pc[c] \in {"stopDone", "stopDoneReg"} => unit = "none"

\* In the same span the entry says Stopped from the moment the unit is known to be unloaded, and the
\* registry follows before the stop returns.
CalmState ==
    calm =>
        /\ \A c \in Callers :
              pc[c] \in StoppingSteps => (proc.state = "Stopped" <=> pc[c] = "stopDoneReg")
        /\ proc.state = "Stopped" =>
              (\E c \in Callers : pc[c] = "stopDoneReg") \/ (unit = "none" /\ reg = "Stopped")

\* While calls do not overlap, the request to stop stands for as long as the stop runs, and a start
\* that has withdrawn it sees it withdrawn until it has stored its watcher.
AloneFlag ==
    alone => \A c \in Callers :
        /\ pc[c] \in StartingSteps \cup {"boot", "attachSlot"} => ~proc.stopReq
        /\ pc[c] \in StoppingSteps => proc.stopReq

\* A watcher about to be stored is not the one it replaces, which is then aborted, and it runs unless
\* it has already reached the restart limit.
AloneSlot ==
    alone => \A c \in Callers : pc[c] = "attachSlot" =>
        /\ handle[c] # proc.watcher
        /\ gaveUp \/ (handle[c] \in Watchers /\ Live(handle[c]))

\* An entry that says up has a watcher, or a start that is about to spawn one or to record a crash.
AloneUp ==
    alone /\ tracked /\ proc.state \in {"Running", "Starting"} /\ ~proc.stopReq /\ ~gaveUp =>
        (\E w \in Watchers : Live(w)) \/ (\E c \in Callers : pc[c] \in StartingSteps)

\* Whoever stops waiting has no command left.
LEMMA CommandsStep ==
    ASSUME SupervisorTypeOK, CommandsAwaited, [SupervisorNext]_supervisorVars
    PROVE  CommandsAwaited'
<1> USE SupervisorAssumption DEF SupervisorTypeOK, CommandsAwaited, Callers, Actors, Step, WStep,
                                 Returns, AfterStop, SetState, SetReg, SendRun, TakeResult, Abort,
                                 DropCommands, Live, Quiet, supVars, callVars, runVars, marks
<1>1. ASSUME NEW c \in Callers, StartCall(c) \/ StartLock(c) \/ StartReg(c) \/ StartProbe(c) PROVE
          CommandsAwaited'
  BY <1>1 DEF StartCall, StartLock, StartReg, StartProbe
<1>2. ASSUME NEW c \in Callers, StartRun(c) \/ StartWait(c) \/ StartCrash(c) \/ StartCrashReg(c)
          PROVE CommandsAwaited'
  BY <1>2 DEF StartRun, StartWait, StartCrash, StartCrashReg
<1>3. ASSUME NEW c \in Callers, AttachSpawn(c) PROVE CommandsAwaited'
  BY <1>3 DEF AttachSpawn
<1>4. ASSUME NEW c \in Callers, AttachSlot(c) PROVE CommandsAwaited'
  BY <1>4 DEF AttachSlot
<1>5. ASSUME NEW c \in Callers, StopUntracked(c) \/ StopLock(c) \/ StopReg(c) \/ StopCmd(c) PROVE
          CommandsAwaited'
  BY <1>5 DEF StopUntracked, StopLock, StopReg, StopCmd
<1>6. ASSUME NEW c \in Callers, StopWait(c) \/ StopKill(c) \/ StopKillWait(c) \/ StopDone(c) PROVE
          CommandsAwaited'
  BY <1>6 DEF StopWait, StopKill, StopKillWait, StopDone
<1>7. ASSUME NEW c \in Callers, StopDoneReg(c) PROVE CommandsAwaited'
  BY <1>7 DEF StopDoneReg
<1>8. ASSUME NEW c \in Callers, StopAbort(c) PROVE CommandsAwaited'
  BY <1>8 DEF StopAbort
<1>9. ASSUME NEW c \in Callers, Rsync(c) \/ UpdateRead(c) \/ UpdateWrite(c) PROVE CommandsAwaited'
  BY <1>9 DEF Rsync, UpdateRead, UpdateWrite
<1>10. ASSUME NEW w \in Watchers, WAwait(w) \/ WMark(w) \/ WMarkReg(w) \/ WLoop(w) PROVE
          CommandsAwaited'
  BY <1>10 DEF WAwait, WMark, WMarkReg, WLoop
<1>11. ASSUME NEW w \in Watchers, WPoll(w) \/ WRecheck(w) \/ WCrash(w) \/ WCrashReg(w) PROVE
          CommandsAwaited'
  BY <1>11 DEF WPoll, WRecheck, WCrash, WCrashReg
<1>12. ASSUME NEW w \in Watchers, WBump(w) \/ WBackoff(w) \/ WRespawnReg(w) \/ WRespawn(w) PROVE
          CommandsAwaited'
  BY <1>12 DEF WBump, WBackoff, WRespawnReg, WRespawn
<1>13. ASSUME NEW w \in Watchers, WRespawnWait(w) \/ WRespawnCrash(w) \/ WRespawnCrashReg(w) PROVE
          CommandsAwaited'
  BY <1>13 DEF WRespawnWait, WRespawnCrash, WRespawnCrashReg
<1>14. ASSUME NEW c \in Users, PipelineTimeout(c) PROVE CommandsAwaited'
  BY <1>14 DEF PipelineTimeout
<1>15. ASSUME NEW c \in Users, NEW o \in Operations, BeginCall(c, o) PROVE CommandsAwaited'
  BY <1>15 DEF BeginCall
<1>16. ASSUME NEW i \in Actors, AnswerRun(i) PROVE CommandsAwaited'
  BY <1>16 DEF AnswerRun
<1>17. CASE AnswerOrphan \/ UnitStarts \/ UnitEnds \/ UnitDies \/ RestartExpires
  BY <1>17 DEF AnswerOrphan, UnitStarts, UnitEnds, UnitDies, RestartExpires
<1>18. CASE BootLook
  BY <1>18 DEF BootLook
<1>19. CASE BootReg
  BY <1>19 DEF BootReg
<1>20. CASE Reboot
  BY <1>20 DEF Reboot
<1>21. CASE UNCHANGED supervisorVars
  BY <1>21 DEF supervisorVars
<1>22. ASSUME NEW c \in Callers, UserStep(c) PROVE CommandsAwaited'
  BY <1>22, <1>1, <1>2, <1>3, <1>4, <1>5, <1>6, <1>7, <1>8, <1>9 DEF UserStep, StartStep, StopStep
<1>23. ASSUME NEW w \in Watchers, WatchStep(w) PROVE CommandsAwaited'
  BY <1>23, <1>10, <1>11, <1>12, <1>13 DEF WatchStep
<1> QED
  BY <1>22, <1>23, <1>14, <1>15, <1>16, <1>17, <1>18, <1>19, <1>20, <1>21 DEF SupervisorNext,
     BootStep, Systemd

\* A JoinHandle leaves with the step that uses it.
LEMMA HandlesStep ==
    ASSUME SupervisorTypeOK, HandlesHeld, [SupervisorNext]_supervisorVars
    PROVE  HandlesHeld'
<1> USE DEF SupervisorTypeOK, HandlesHeld, Step, WStep, Returns, AfterStop, SetState, SetReg,
            SendRun, TakeResult, Abort, DropCommands, Live, Quiet, supVars, callVars, runVars,
            marks
<1>1. ASSUME NEW c \in Callers, StartCall(c) \/ StartLock(c) \/ StartReg(c) \/ StartProbe(c) PROVE
          HandlesHeld'
  BY <1>1 DEF StartCall, StartLock, StartReg, StartProbe
<1>2. ASSUME NEW c \in Callers, StartRun(c) \/ StartWait(c) \/ StartCrash(c) \/ StartCrashReg(c)
          PROVE HandlesHeld'
  BY <1>2 DEF StartRun, StartWait, StartCrash, StartCrashReg
<1>3. ASSUME NEW c \in Callers, AttachSpawn(c) \/ AttachSlot(c) PROVE HandlesHeld'
  BY <1>3 DEF AttachSpawn, AttachSlot
<1>4. ASSUME NEW c \in Callers, StopUntracked(c) \/ StopLock(c) \/ StopReg(c) \/ StopAbort(c)
          PROVE HandlesHeld'
  BY <1>4 DEF StopUntracked, StopLock, StopReg, StopAbort
<1>5. ASSUME NEW c \in Callers, StopCmd(c) \/ StopWait(c) \/ StopKill(c) \/ StopKillWait(c) PROVE
          HandlesHeld'
  BY <1>5 DEF StopCmd, StopWait, StopKill, StopKillWait
<1>6. ASSUME NEW c \in Callers, StopDone(c) \/ StopDoneReg(c) PROVE HandlesHeld'
  BY <1>6 DEF StopDone, StopDoneReg
<1>7. ASSUME NEW c \in Callers, Rsync(c) \/ UpdateRead(c) \/ UpdateWrite(c) PROVE HandlesHeld'
  BY <1>7 DEF Rsync, UpdateRead, UpdateWrite
<1>8. ASSUME NEW w \in Watchers, WAwait(w) \/ WMark(w) \/ WMarkReg(w) \/ WLoop(w) PROVE
          HandlesHeld'
  BY <1>8 DEF WAwait, WMark, WMarkReg, WLoop
<1>9. ASSUME NEW w \in Watchers, WPoll(w) \/ WRecheck(w) \/ WCrash(w) \/ WCrashReg(w) PROVE
          HandlesHeld'
  BY <1>9 DEF WPoll, WRecheck, WCrash, WCrashReg
<1>10. ASSUME NEW w \in Watchers, WBump(w) \/ WBackoff(w) \/ WRespawnReg(w) \/ WRespawn(w) PROVE
          HandlesHeld'
  BY <1>10 DEF WBump, WBackoff, WRespawnReg, WRespawn
<1>11. ASSUME NEW w \in Watchers, WRespawnWait(w) \/ WRespawnCrash(w) \/ WRespawnCrashReg(w) PROVE
          HandlesHeld'
  BY <1>11 DEF WRespawnWait, WRespawnCrash, WRespawnCrashReg
<1>12. ASSUME NEW c \in Users, PipelineTimeout(c) PROVE HandlesHeld'
  BY <1>12 DEF PipelineTimeout
<1>13. ASSUME NEW c \in Users, NEW o \in Operations, BeginCall(c, o) PROVE HandlesHeld'
  BY <1>13 DEF BeginCall
<1>14. ASSUME NEW i \in Actors, AnswerRun(i) PROVE HandlesHeld'
  BY <1>14 DEF AnswerRun
<1>15. CASE AnswerOrphan \/ UnitStarts \/ UnitEnds \/ UnitDies \/ RestartExpires
  BY <1>15 DEF AnswerOrphan, UnitStarts, UnitEnds, UnitDies, RestartExpires
<1>16. CASE BootLook
  BY <1>16 DEF BootLook
<1>17. CASE BootReg
  BY <1>17 DEF BootReg
<1>18. CASE Reboot
  BY <1>18 DEF Reboot
<1>19. CASE UNCHANGED supervisorVars
  BY <1>19 DEF supervisorVars
<1>20. ASSUME NEW c \in Callers, UserStep(c) PROVE HandlesHeld'
  BY <1>20, <1>1, <1>2, <1>3, <1>4, <1>5, <1>6, <1>7 DEF UserStep, StartStep, StopStep
<1>21. ASSUME NEW w \in Watchers, WatchStep(w) PROVE HandlesHeld'
  BY <1>21, <1>8, <1>9, <1>10, <1>11 DEF WatchStep
<1> QED
  BY <1>20, <1>21, <1>12, <1>13, <1>14, <1>15, <1>16, <1>17, <1>18, <1>19 DEF SupervisorNext,
     BootStep, Systemd

\* The IPC server is up only once boot is over.
LEMMA BootAloneStep ==
    ASSUME SupervisorTypeOK, BootAlone, [SupervisorNext]_supervisorVars
    PROVE  BootAlone'
<1> USE SupervisorAssumption DEF SupervisorTypeOK, BootAlone, Callers, StoppingSteps, Step, WStep,
                                 Returns, AfterStop, SetState, SetReg, SendRun, TakeResult, Abort,
                                 DropCommands, Live, Quiet, supVars, callVars, runVars, marks
<1>1. ASSUME NEW c \in Callers, StartCall(c) \/ StartLock(c) \/ StartReg(c) \/ StartProbe(c) PROVE
          BootAlone'
  BY <1>1 DEF StartCall, StartLock, StartReg, StartProbe
<1>2. ASSUME NEW c \in Callers, StartRun(c) \/ StartWait(c) \/ StartCrash(c) \/ StartCrashReg(c)
          PROVE BootAlone'
  BY <1>2 DEF StartRun, StartWait, StartCrash, StartCrashReg
<1>3. ASSUME NEW c \in Callers, AttachSpawn(c) \/ AttachSlot(c) PROVE BootAlone'
  BY <1>3 DEF AttachSpawn, AttachSlot
<1>4. ASSUME NEW c \in Callers, StopUntracked(c) \/ StopLock(c) \/ StopReg(c) \/ StopAbort(c)
          PROVE BootAlone'
  BY <1>4 DEF StopUntracked, StopLock, StopReg, StopAbort
<1>5. ASSUME NEW c \in Callers, StopCmd(c) \/ StopWait(c) \/ StopKill(c) \/ StopKillWait(c) PROVE
          BootAlone'
  BY <1>5 DEF StopCmd, StopWait, StopKill, StopKillWait
<1>6. ASSUME NEW c \in Callers, StopDone(c) \/ StopDoneReg(c) PROVE BootAlone'
  BY <1>6 DEF StopDone, StopDoneReg
<1>7. ASSUME NEW c \in Callers, Rsync(c) \/ UpdateRead(c) \/ UpdateWrite(c) PROVE BootAlone'
  BY <1>7 DEF Rsync, UpdateRead, UpdateWrite
<1>8. ASSUME NEW w \in Watchers, WAwait(w) \/ WMark(w) \/ WMarkReg(w) \/ WLoop(w) PROVE BootAlone'
  BY <1>8 DEF WAwait, WMark, WMarkReg, WLoop
<1>9. ASSUME NEW w \in Watchers, WPoll(w) \/ WRecheck(w) \/ WCrash(w) \/ WCrashReg(w) PROVE
          BootAlone'
  BY <1>9 DEF WPoll, WRecheck, WCrash, WCrashReg
<1>10. ASSUME NEW w \in Watchers, WBump(w) \/ WBackoff(w) \/ WRespawnReg(w) \/ WRespawn(w) PROVE
          BootAlone'
  BY <1>10 DEF WBump, WBackoff, WRespawnReg, WRespawn
<1>11. ASSUME NEW w \in Watchers, WRespawnWait(w) \/ WRespawnCrash(w) \/ WRespawnCrashReg(w) PROVE
          BootAlone'
  BY <1>11 DEF WRespawnWait, WRespawnCrash, WRespawnCrashReg
<1>12. ASSUME NEW c \in Users, PipelineTimeout(c) PROVE BootAlone'
  BY <1>12 DEF PipelineTimeout
<1>13. ASSUME NEW c \in Users, NEW o \in Operations, BeginCall(c, o) PROVE BootAlone'
  BY <1>13 DEF BeginCall
<1>14. ASSUME NEW i \in Actors, AnswerRun(i) PROVE BootAlone'
  BY <1>14 DEF AnswerRun
<1>15. CASE AnswerOrphan \/ UnitStarts \/ UnitEnds \/ UnitDies \/ RestartExpires
  BY <1>15 DEF AnswerOrphan, UnitStarts, UnitEnds, UnitDies, RestartExpires
<1>16. CASE BootLook
  BY <1>16 DEF BootLook
<1>17. CASE BootReg
  BY <1>17 DEF BootReg
<1>18. CASE Reboot
  BY <1>18 DEF Reboot
<1>19. CASE UNCHANGED supervisorVars
  BY <1>19 DEF supervisorVars
<1>20. ASSUME NEW c \in Callers, UserStep(c) PROVE BootAlone'
  BY <1>20, <1>1, <1>2, <1>3, <1>4, <1>5, <1>6, <1>7 DEF UserStep, StartStep, StopStep
<1>21. ASSUME NEW w \in Watchers, WatchStep(w) PROVE BootAlone'
  BY <1>21, <1>8, <1>9, <1>10, <1>11 DEF WatchStep
<1> QED
  BY <1>20, <1>21, <1>12, <1>13, <1>14, <1>15, <1>16, <1>17, <1>18, <1>19 DEF SupervisorNext,
     BootStep, Systemd

\* A handle is stored, taken or aborted in the same critical section as the slot.
LEMMA OwnedStep ==
    ASSUME SupervisorTypeOK, HandlesHeld, Owned, [SupervisorNext]_supervisorVars
    PROVE  Owned'
<1> USE SupervisorAssumption DEF SupervisorTypeOK, HandlesHeld, Owned, WatcherOwned, Process,
                                 Step, WStep, Returns, AfterStop, SetState, SetReg, SendRun,
                                 TakeResult, Abort, DropCommands, Live, Quiet, supVars, callVars,
                                 runVars, marks
<1>1. ASSUME NEW c \in Callers, StartCall(c) \/ StartReg(c) \/ StartProbe(c) \/ StartRun(c) PROVE
          Owned'
  BY <1>1 DEF StartCall, StartReg, StartProbe, StartRun
<1>2. ASSUME NEW c \in Callers, StartWait(c) \/ StartCrash(c) \/ StartCrashReg(c) PROVE Owned'
  BY <1>2 DEF StartWait, StartCrash, StartCrashReg
<1>3. ASSUME NEW c \in Callers, StartLock(c) PROVE Owned'
  <2>1. UNCHANGED <<wpc, handle>> /\ proc'.watcher = proc.watcher
    BY <1>3 DEF StartLock
  <2> QED
    BY <2>1
<1>4. ASSUME NEW c \in Callers, AttachSpawn(c) PROVE Owned'
  BY <1>4 DEF AttachSpawn
<1>5. ASSUME NEW c \in Callers, AttachSlot(c) PROVE Owned'
  BY <1>5 DEF AttachSlot
<1>6. ASSUME NEW c \in Callers, StopUntracked(c) \/ StopReg(c) \/ StopCmd(c) \/ StopWait(c) PROVE
          Owned'
  BY <1>6 DEF StopUntracked, StopReg, StopCmd, StopWait
<1>7. ASSUME NEW c \in Callers, StopKill(c) \/ StopKillWait(c) \/ StopDone(c) \/ StopDoneReg(c)
          PROVE Owned'
  BY <1>7 DEF StopKill, StopKillWait, StopDone, StopDoneReg
<1>8. ASSUME NEW c \in Callers, StopLock(c) PROVE Owned'
  BY <1>8 DEF StopLock
<1>9. ASSUME NEW c \in Callers, StopAbort(c) PROVE Owned'
  BY <1>9 DEF StopAbort
<1>10. ASSUME NEW c \in Callers, Rsync(c) \/ UpdateRead(c) \/ UpdateWrite(c) PROVE Owned'
  BY <1>10 DEF Rsync, UpdateRead, UpdateWrite
<1>11. ASSUME NEW w \in Watchers, WAwait(w) \/ WMark(w) \/ WMarkReg(w) \/ WLoop(w) PROVE Owned'
  BY <1>11 DEF WAwait, WMark, WMarkReg, WLoop
<1>12. ASSUME NEW w \in Watchers, WPoll(w) \/ WRecheck(w) \/ WCrash(w) \/ WCrashReg(w) PROVE
          Owned'
  BY <1>12 DEF WPoll, WRecheck, WCrash, WCrashReg
<1>13. ASSUME NEW w \in Watchers, WBackoff(w) \/ WRespawnReg(w) \/ WRespawn(w) \/ WRespawnWait(w)
          PROVE Owned'
  BY <1>13 DEF WBackoff, WRespawnReg, WRespawn, WRespawnWait
<1>14. ASSUME NEW w \in Watchers, WRespawnCrash(w) \/ WRespawnCrashReg(w) PROVE Owned'
  BY <1>14 DEF WRespawnCrash, WRespawnCrashReg
<1>15. ASSUME NEW w \in Watchers, WBump(w) PROVE Owned'
  BY <1>15 DEF WBump
<1>16. ASSUME NEW c \in Users, PipelineTimeout(c) PROVE Owned'
  BY <1>16 DEF PipelineTimeout
<1>17. ASSUME NEW c \in Users, NEW o \in Operations, BeginCall(c, o) PROVE Owned'
  BY <1>17 DEF BeginCall
<1>18. ASSUME NEW i \in Actors, AnswerRun(i) PROVE Owned'
  BY <1>18 DEF AnswerRun
<1>19. CASE AnswerOrphan \/ UnitStarts \/ UnitEnds \/ UnitDies \/ RestartExpires
  BY <1>19 DEF AnswerOrphan, UnitStarts, UnitEnds, UnitDies, RestartExpires
<1>20. CASE BootLook
  BY <1>20 DEF BootLook
<1>21. CASE BootReg
  BY <1>21 DEF BootReg
<1>22. CASE Reboot
  BY <1>22 DEF Reboot
<1>23. CASE UNCHANGED supervisorVars
  BY <1>23 DEF supervisorVars
<1>24. ASSUME NEW c \in Callers, UserStep(c) PROVE Owned'
  BY <1>24, <1>1, <1>2, <1>3, <1>4, <1>5, <1>6, <1>7, <1>8, <1>9, <1>10 DEF UserStep, StartStep,
            StopStep
<1>25. ASSUME NEW w \in Watchers, WatchStep(w) PROVE Owned'
  BY <1>25, <1>11, <1>12, <1>13, <1>14, <1>15 DEF WatchStep
<1> QED
  BY <1>24, <1>25, <1>16, <1>17, <1>18, <1>19, <1>20, <1>21, <1>22, <1>23 DEF SupervisorNext,
     BootStep, Systemd

\* get_or_create_process comes before any look at the entry.
LEMMA UntrackedStep ==
    ASSUME SupervisorTypeOK, BootAlone, Untracked, [SupervisorNext]_supervisorVars
    PROVE  Untracked'
<1> USE SupervisorAssumption DEF SupervisorTypeOK, BootAlone, Untracked, NewProcess, OutsideSteps,
                                 StoppingSteps, Callers, Process, Step, WStep, Returns, AfterStop,
                                 SetState, SetReg, SendRun, TakeResult, Abort, DropCommands, Live,
                                 Quiet, supVars, callVars, runVars, marks
<1>1. ASSUME NEW c \in Callers, StartCall(c) \/ StartLock(c) \/ StartReg(c) \/ StartProbe(c) PROVE
          Untracked'
  BY <1>1 DEF StartCall, StartLock, StartReg, StartProbe
<1>2. ASSUME NEW c \in Callers, StartRun(c) \/ StartWait(c) \/ StartCrash(c) \/ StartCrashReg(c)
          PROVE Untracked'
  BY <1>2 DEF StartRun, StartWait, StartCrash, StartCrashReg
<1>3. ASSUME NEW c \in Callers, AttachSpawn(c) PROVE Untracked'
  BY <1>3 DEF AttachSpawn
<1>4. ASSUME NEW c \in Callers, AttachSlot(c) PROVE Untracked'
  BY <1>4 DEF AttachSlot
<1>5. ASSUME NEW c \in Callers, StopUntracked(c) \/ StopReg(c) \/ StopCmd(c) \/ StopWait(c) PROVE
          Untracked'
  BY <1>5 DEF StopUntracked, StopReg, StopCmd, StopWait
<1>6. ASSUME NEW c \in Callers, StopKill(c) \/ StopKillWait(c) \/ StopDone(c) \/ StopDoneReg(c)
          PROVE Untracked'
  BY <1>6 DEF StopKill, StopKillWait, StopDone, StopDoneReg
<1>7. ASSUME NEW c \in Callers, StopLock(c) PROVE Untracked'
  BY <1>7 DEF StopLock
<1>8. ASSUME NEW c \in Callers, StopAbort(c) PROVE Untracked'
  BY <1>8 DEF StopAbort
<1>9. ASSUME NEW c \in Callers, Rsync(c) \/ UpdateRead(c) \/ UpdateWrite(c) PROVE Untracked'
  BY <1>9 DEF Rsync, UpdateRead, UpdateWrite
<1>10. ASSUME NEW w \in Watchers, WAwait(w) \/ WMark(w) \/ WMarkReg(w) \/ WLoop(w) PROVE
          Untracked'
  BY <1>10 DEF WAwait, WMark, WMarkReg, WLoop
<1>11. ASSUME NEW w \in Watchers, WPoll(w) \/ WRecheck(w) \/ WCrash(w) \/ WCrashReg(w) PROVE
          Untracked'
  BY <1>11 DEF WPoll, WRecheck, WCrash, WCrashReg
<1>12. ASSUME NEW w \in Watchers, WBump(w) \/ WBackoff(w) \/ WRespawnReg(w) \/ WRespawn(w) PROVE
          Untracked'
  BY <1>12 DEF WBump, WBackoff, WRespawnReg, WRespawn
<1>13. ASSUME NEW w \in Watchers, WRespawnWait(w) \/ WRespawnCrash(w) \/ WRespawnCrashReg(w) PROVE
          Untracked'
  BY <1>13 DEF WRespawnWait, WRespawnCrash, WRespawnCrashReg
<1>14. ASSUME NEW c \in Users, PipelineTimeout(c) PROVE Untracked'
  BY <1>14 DEF PipelineTimeout
<1>15. ASSUME NEW c \in Users, NEW o \in Operations, BeginCall(c, o) PROVE Untracked'
  BY <1>15 DEF BeginCall
<1>16. ASSUME NEW i \in Actors, AnswerRun(i) PROVE Untracked'
  BY <1>16 DEF AnswerRun
<1>17. CASE AnswerOrphan \/ UnitStarts \/ UnitEnds \/ UnitDies \/ RestartExpires
  BY <1>17 DEF AnswerOrphan, UnitStarts, UnitEnds, UnitDies, RestartExpires
<1>18. CASE BootLook
  BY <1>18 DEF BootLook
<1>19. CASE BootReg
  BY <1>19 DEF BootReg
<1>20. CASE Reboot
  BY <1>20 DEF Reboot
<1>21. CASE UNCHANGED supervisorVars
  BY <1>21 DEF supervisorVars
<1>22. ASSUME NEW c \in Callers, UserStep(c) PROVE Untracked'
  BY <1>22, <1>1, <1>2, <1>3, <1>4, <1>5, <1>6, <1>7, <1>8, <1>9 DEF UserStep, StartStep, StopStep
<1>23. ASSUME NEW w \in Watchers, WatchStep(w) PROVE Untracked'
  BY <1>23, <1>10, <1>11, <1>12, <1>13 DEF WatchStep
<1> QED
  BY <1>22, <1>23, <1>14, <1>15, <1>16, <1>17, <1>18, <1>19, <1>20, <1>21 DEF SupervisorNext,
     BootStep, Systemd

\* A call that begins beside another ends both histories.
LEMMA OneCallStep ==
    ASSUME SupervisorTypeOK, BootAlone, OneCall, [SupervisorNext]_supervisorVars
    PROVE  OneCall'
<1> USE SupervisorAssumption DEF SupervisorTypeOK, OneCall, BootAlone, Callers, StoppingSteps,
                                 Step, WStep, Returns, AfterStop, SetState, SetReg, SendRun,
                                 TakeResult, Abort, DropCommands, Live, Quiet, supVars, callVars,
                                 runVars, marks
<1>1. ASSUME NEW c \in Callers, StartCall(c) \/ StartLock(c) \/ StartReg(c) \/ StartProbe(c) PROVE
          OneCall'
  BY <1>1 DEF StartCall, StartLock, StartReg, StartProbe
<1>2. ASSUME NEW c \in Callers, StartRun(c) \/ StartWait(c) \/ StartCrash(c) \/ StartCrashReg(c)
          PROVE OneCall'
  BY <1>2 DEF StartRun, StartWait, StartCrash, StartCrashReg
<1>3. ASSUME NEW c \in Callers, AttachSpawn(c) \/ AttachSlot(c) PROVE OneCall'
  BY <1>3 DEF AttachSpawn, AttachSlot
<1>4. ASSUME NEW c \in Callers, StopUntracked(c) \/ StopReg(c) \/ StopAbort(c) \/ StopCmd(c) PROVE
          OneCall'
  BY <1>4 DEF StopUntracked, StopReg, StopAbort, StopCmd
<1>5. ASSUME NEW c \in Callers, StopWait(c) \/ StopKill(c) \/ StopKillWait(c) \/ StopDone(c) PROVE
          OneCall'
  BY <1>5 DEF StopWait, StopKill, StopKillWait, StopDone
<1>6. ASSUME NEW c \in Callers, StopDoneReg(c) PROVE OneCall'
  BY <1>6 DEF StopDoneReg
<1>7. ASSUME NEW c \in Callers, StopLock(c) PROVE OneCall'
  BY <1>7 DEF StopLock
<1>8. ASSUME NEW c \in Callers, Rsync(c) \/ UpdateRead(c) \/ UpdateWrite(c) PROVE OneCall'
  BY <1>8 DEF Rsync, UpdateRead, UpdateWrite
<1>9. ASSUME NEW w \in Watchers, WAwait(w) \/ WMark(w) \/ WMarkReg(w) \/ WLoop(w) PROVE OneCall'
  BY <1>9 DEF WAwait, WMark, WMarkReg, WLoop
<1>10. ASSUME NEW w \in Watchers, WPoll(w) \/ WRecheck(w) \/ WCrash(w) \/ WCrashReg(w) PROVE
          OneCall'
  BY <1>10 DEF WPoll, WRecheck, WCrash, WCrashReg
<1>11. ASSUME NEW w \in Watchers, WBump(w) \/ WBackoff(w) \/ WRespawnReg(w) \/ WRespawn(w) PROVE
          OneCall'
  BY <1>11 DEF WBump, WBackoff, WRespawnReg, WRespawn
<1>12. ASSUME NEW w \in Watchers, WRespawnWait(w) \/ WRespawnCrash(w) \/ WRespawnCrashReg(w) PROVE
          OneCall'
  BY <1>12 DEF WRespawnWait, WRespawnCrash, WRespawnCrashReg
<1>13. ASSUME NEW c \in Users, PipelineTimeout(c) PROVE OneCall'
  BY <1>13 DEF PipelineTimeout
<1>14. ASSUME NEW c \in Users, NEW o \in Operations, BeginCall(c, o) PROVE OneCall'
  BY <1>14 DEF BeginCall
<1>15. ASSUME NEW i \in Actors, AnswerRun(i) PROVE OneCall'
  BY <1>15 DEF AnswerRun
<1>16. CASE AnswerOrphan \/ UnitStarts \/ UnitEnds \/ UnitDies \/ RestartExpires
  BY <1>16 DEF AnswerOrphan, UnitStarts, UnitEnds, UnitDies, RestartExpires
<1>17. CASE BootLook
  BY <1>17 DEF BootLook
<1>18. CASE BootReg
  BY <1>18 DEF BootReg
<1>19. CASE Reboot
  BY <1>19 DEF Reboot
<1>20. CASE UNCHANGED supervisorVars
  BY <1>20 DEF supervisorVars
<1>21. ASSUME NEW c \in Callers, UserStep(c) PROVE OneCall'
  BY <1>21, <1>1, <1>2, <1>3, <1>4, <1>5, <1>6, <1>7, <1>8 DEF UserStep, StartStep, StopStep
<1>22. ASSUME NEW w \in Watchers, WatchStep(w) PROVE OneCall'
  BY <1>22, <1>9, <1>10, <1>11, <1>12 DEF WatchStep
<1> QED
  BY <1>21, <1>22, <1>13, <1>14, <1>15, <1>16, <1>17, <1>18, <1>19, <1>20 DEF SupervisorNext,
     BootStep, Systemd

\* Nothing can load the unit behind an undisturbed stop.
LEMMA CalmUnitStep ==
    ASSUME SupervisorTypeOK, CommandsAwaited, OneCall, CalmUnit, [SupervisorNext]_supervisorVars
    PROVE  CalmUnit'
<1> USE SupervisorAssumption DEF SupervisorTypeOK, CalmUnit, OneCall, StoppingSteps, Process,
                                 Callers, Actors, UnitIsInactive, UnitState, CommandsAwaited,
                                 Step, WStep, Returns, AfterStop, SetState, SetReg, SendRun,
                                 TakeResult, Abort, DropCommands, Live, Quiet, supVars, callVars,
                                 runVars, marks
<1>1. ASSUME NEW c \in Callers, StartReg(c) \/ StartProbe(c) \/ StartRun(c) \/ StartWait(c) PROVE
          CalmUnit'
  BY <1>1 DEF StartReg, StartProbe, StartRun, StartWait
<1>2. ASSUME NEW c \in Callers, StartCrash(c) \/ StartCrashReg(c) PROVE CalmUnit'
  BY <1>2 DEF StartCrash, StartCrashReg
<1>3. ASSUME NEW c \in Callers, StartCall(c) PROVE CalmUnit'
  BY <1>3 DEF StartCall
<1>4. ASSUME NEW c \in Callers, StartLock(c) PROVE CalmUnit'
  BY <1>4 DEF StartLock
<1>5. ASSUME NEW c \in Callers, AttachSpawn(c) PROVE CalmUnit'
  BY <1>5 DEF AttachSpawn
<1>6. ASSUME NEW c \in Callers, AttachSlot(c) PROVE CalmUnit'
  BY <1>6 DEF AttachSlot
<1>7. ASSUME NEW c \in Callers, StopUntracked(c) PROVE CalmUnit'
  BY <1>7 DEF StopUntracked
<1>8. ASSUME NEW c \in Callers, StopLock(c) PROVE CalmUnit'
  BY <1>8 DEF StopLock
<1>9. ASSUME NEW c \in Callers, StopReg(c) PROVE CalmUnit'
  BY <1>9 DEF StopReg
<1>10. ASSUME NEW c \in Callers, StopAbort(c) PROVE CalmUnit'
  <2>1. calm' => calm /\ orphans' = orphans
    BY <1>10, OneOrphan DEF StopAbort
  <2>2. \A v \in Watchers : Live(v)' => Live(v) /\ v # handle[c]
    BY <1>10 DEF StopAbort
  <2>3. pc' = [pc EXCEPT ![c] = "stopCmd"] /\ pc[c] = "stopAbort"
    BY <1>10 DEF StopAbort
  <2>4. \A v \in Watchers : calm => ~Live(v)'
    BY <2>2, <2>3
  <2> QED
    BY <2>1, <2>3, <2>4
<1>11. ASSUME NEW c \in Callers, StopCmd(c) PROVE CalmUnit'
  BY <1>11 DEF StopCmd
<1>12. ASSUME NEW c \in Callers, StopWait(c) PROVE CalmUnit'
  BY <1>12 DEF StopWait
<1>13. ASSUME NEW c \in Callers, StopKill(c) PROVE CalmUnit'
  BY <1>13 DEF StopKill
<1>14. ASSUME NEW c \in Callers, StopKillWait(c) PROVE CalmUnit'
  BY <1>14 DEF StopKillWait
<1>15. ASSUME NEW c \in Callers, StopDone(c) PROVE CalmUnit'
  BY <1>15 DEF StopDone
<1>16. ASSUME NEW c \in Callers, StopDoneReg(c) PROVE CalmUnit'
  BY <1>16 DEF StopDoneReg
<1>17. ASSUME NEW c \in Callers, Rsync(c) PROVE CalmUnit'
  BY <1>17 DEF Rsync
<1>18. ASSUME NEW c \in Callers, UpdateRead(c) PROVE CalmUnit'
  BY <1>18 DEF UpdateRead
<1>19. ASSUME NEW c \in Callers, UpdateWrite(c) PROVE CalmUnit'
  BY <1>19 DEF UpdateWrite
<1>20. ASSUME NEW w \in Watchers, WAwait(w) PROVE CalmUnit'
  BY <1>20 DEF WAwait
<1>21. ASSUME NEW w \in Watchers, WMark(w) PROVE CalmUnit'
  BY <1>21 DEF WMark
<1>22. ASSUME NEW w \in Watchers, WMarkReg(w) PROVE CalmUnit'
  BY <1>22 DEF WMarkReg
<1>23. ASSUME NEW w \in Watchers, WLoop(w) PROVE CalmUnit'
  BY <1>23 DEF WLoop
<1>24. ASSUME NEW w \in Watchers, WPoll(w) PROVE CalmUnit'
  BY <1>24 DEF WPoll
<1>25. ASSUME NEW w \in Watchers, WRecheck(w) PROVE CalmUnit'
  BY <1>25 DEF WRecheck
<1>26. ASSUME NEW w \in Watchers, WCrash(w) PROVE CalmUnit'
  BY <1>26 DEF WCrash
<1>27. ASSUME NEW w \in Watchers, WCrashReg(w) PROVE CalmUnit'
  BY <1>27 DEF WCrashReg
<1>28. ASSUME NEW w \in Watchers, WBump(w) PROVE CalmUnit'
  BY <1>28 DEF WBump
<1>29. ASSUME NEW w \in Watchers, WBackoff(w) PROVE CalmUnit'
  BY <1>29 DEF WBackoff
<1>30. ASSUME NEW w \in Watchers, WRespawnReg(w) PROVE CalmUnit'
  BY <1>30 DEF WRespawnReg
<1>31. ASSUME NEW w \in Watchers, WRespawn(w) PROVE CalmUnit'
  BY <1>31 DEF WRespawn
<1>32. ASSUME NEW w \in Watchers, WRespawnWait(w) PROVE CalmUnit'
  BY <1>32 DEF WRespawnWait
<1>33. ASSUME NEW w \in Watchers, WRespawnCrash(w) PROVE CalmUnit'
  BY <1>33 DEF WRespawnCrash
<1>34. ASSUME NEW w \in Watchers, WRespawnCrashReg(w) PROVE CalmUnit'
  BY <1>34 DEF WRespawnCrashReg
<1>35. ASSUME NEW c \in Users, PipelineTimeout(c) PROVE CalmUnit'
  BY <1>35 DEF PipelineTimeout
<1>36. ASSUME NEW c \in Users, NEW o \in Operations, BeginCall(c, o) PROVE CalmUnit'
  BY <1>36 DEF BeginCall
<1>37. ASSUME NEW i \in Actors, AnswerRun(i) PROVE CalmUnit'
  BY <1>37 DEF AnswerRun
<1>38. CASE AnswerOrphan
  BY <1>38 DEF AnswerOrphan
<1>39. CASE UnitStarts
  BY <1>39 DEF UnitStarts
<1>40. CASE UnitEnds
  BY <1>40 DEF UnitEnds
<1>41. CASE UnitDies
  BY <1>41 DEF UnitDies
<1>42. CASE RestartExpires
  BY <1>42 DEF RestartExpires
<1>43. CASE BootLook
  BY <1>43 DEF BootLook
<1>44. CASE BootReg
  BY <1>44 DEF BootReg
<1>45. CASE Reboot
  BY <1>45 DEF Reboot
<1>46. CASE UNCHANGED supervisorVars
  BY <1>46 DEF supervisorVars
<1>47. ASSUME NEW c \in Callers, UserStep(c) PROVE CalmUnit'
  BY <1>47, <1>1, <1>2, <1>3, <1>4, <1>5, <1>6, <1>7, <1>8, <1>9, <1>10, <1>11, <1>12, <1>13,
            <1>14, <1>15, <1>16, <1>17, <1>18, <1>19 DEF UserStep, StartStep, StopStep
<1>48. ASSUME NEW w \in Watchers, WatchStep(w) PROVE CalmUnit'
  BY <1>48, <1>20, <1>21, <1>22, <1>23, <1>24, <1>25, <1>26, <1>27, <1>28, <1>29, <1>30, <1>31,
            <1>32, <1>33, <1>34 DEF WatchStep
<1> QED
  BY <1>47, <1>48, <1>35, <1>36, <1>37, <1>38, <1>39, <1>40, <1>41, <1>42, <1>43, <1>44, <1>45,
     <1>46 DEF SupervisorNext, BootStep, Systemd

\* Nobody overwrites what an undisturbed stop records.
LEMMA CalmStateStep ==
    ASSUME SupervisorTypeOK, OneCall, CalmUnit, CommandsAwaited, CalmState,
           [SupervisorNext]_supervisorVars
    PROVE  CalmState'
<1> USE SupervisorAssumption DEF SupervisorTypeOK, CalmUnit, CalmState, OneCall, StoppingSteps,
                                 Process, Callers, Actors, CommandsAwaited, Step, WStep, Returns,
                                 AfterStop, SetState, SetReg, SendRun, TakeResult, Abort,
                                 DropCommands, Live, Quiet, supVars, callVars, runVars, marks
<1>1. ASSUME NEW c \in Callers, StartReg(c) \/ StartProbe(c) \/ StartRun(c) \/ StartWait(c) PROVE
          CalmState'
  BY <1>1 DEF StartReg, StartProbe, StartRun, StartWait
<1>2. ASSUME NEW c \in Callers, StartCrash(c) \/ StartCrashReg(c) PROVE CalmState'
  BY <1>2 DEF StartCrash, StartCrashReg
<1>3. ASSUME NEW c \in Callers, StartCall(c) PROVE CalmState'
  BY <1>3 DEF StartCall
<1>4. ASSUME NEW c \in Callers, StartLock(c) PROVE CalmState'
  BY <1>4 DEF StartLock
<1>5. ASSUME NEW c \in Callers, AttachSpawn(c) PROVE CalmState'
  BY <1>5 DEF AttachSpawn
<1>6. ASSUME NEW c \in Callers, AttachSlot(c) PROVE CalmState'
  BY <1>6 DEF AttachSlot
<1>7. ASSUME NEW c \in Callers, StopUntracked(c) PROVE CalmState'
  BY <1>7 DEF StopUntracked
<1>8. ASSUME NEW c \in Callers, StopLock(c) PROVE CalmState'
  BY <1>8 DEF StopLock
<1>9. ASSUME NEW c \in Callers, StopReg(c) PROVE CalmState'
  BY <1>9 DEF StopReg
<1>10. ASSUME NEW c \in Callers, StopAbort(c) PROVE CalmState'
  BY <1>10 DEF StopAbort
<1>11. ASSUME NEW c \in Callers, StopCmd(c) PROVE CalmState'
  BY <1>11 DEF StopCmd
<1>12. ASSUME NEW c \in Callers, StopWait(c) PROVE CalmState'
  BY <1>12 DEF StopWait
<1>13. ASSUME NEW c \in Callers, StopKill(c) PROVE CalmState'
  BY <1>13 DEF StopKill
<1>14. ASSUME NEW c \in Callers, StopKillWait(c) PROVE CalmState'
  BY <1>14 DEF StopKillWait
<1>15. ASSUME NEW c \in Callers, StopDone(c) PROVE CalmState'
  BY <1>15 DEF StopDone
<1>16. ASSUME NEW c \in Callers, StopDoneReg(c) PROVE CalmState'
  BY <1>16 DEF StopDoneReg
<1>17. ASSUME NEW c \in Callers, Rsync(c) PROVE CalmState'
  BY <1>17 DEF Rsync
<1>18. ASSUME NEW c \in Callers, UpdateRead(c) PROVE CalmState'
  BY <1>18 DEF UpdateRead
<1>19. ASSUME NEW c \in Callers, UpdateWrite(c) PROVE CalmState'
  BY <1>19 DEF UpdateWrite
<1>20. ASSUME NEW w \in Watchers, WAwait(w) PROVE CalmState'
  BY <1>20 DEF WAwait
<1>21. ASSUME NEW w \in Watchers, WMark(w) PROVE CalmState'
  BY <1>21 DEF WMark
<1>22. ASSUME NEW w \in Watchers, WMarkReg(w) PROVE CalmState'
  BY <1>22 DEF WMarkReg
<1>23. ASSUME NEW w \in Watchers, WLoop(w) PROVE CalmState'
  BY <1>23 DEF WLoop
<1>24. ASSUME NEW w \in Watchers, WPoll(w) PROVE CalmState'
  BY <1>24 DEF WPoll
<1>25. ASSUME NEW w \in Watchers, WRecheck(w) PROVE CalmState'
  BY <1>25 DEF WRecheck
<1>26. ASSUME NEW w \in Watchers, WCrash(w) PROVE CalmState'
  BY <1>26 DEF WCrash
<1>27. ASSUME NEW w \in Watchers, WCrashReg(w) PROVE CalmState'
  BY <1>27 DEF WCrashReg
<1>28. ASSUME NEW w \in Watchers, WBump(w) PROVE CalmState'
  <2>1. Live(w) /\ calm' = calm /\ UNCHANGED <<pc, handle, unit, reg>>
    BY <1>28 DEF WBump
  <2>2. proc'.state = proc.state \/ proc'.state = "Crashed"
    BY <1>28 DEF WBump
  <2> QED
    BY <2>1, <2>2
<1>29. ASSUME NEW w \in Watchers, WBackoff(w) PROVE CalmState'
  BY <1>29 DEF WBackoff
<1>30. ASSUME NEW w \in Watchers, WRespawnReg(w) PROVE CalmState'
  BY <1>30 DEF WRespawnReg
<1>31. ASSUME NEW w \in Watchers, WRespawn(w) PROVE CalmState'
  BY <1>31 DEF WRespawn
<1>32. ASSUME NEW w \in Watchers, WRespawnWait(w) PROVE CalmState'
  BY <1>32 DEF WRespawnWait
<1>33. ASSUME NEW w \in Watchers, WRespawnCrash(w) PROVE CalmState'
  BY <1>33 DEF WRespawnCrash
<1>34. ASSUME NEW w \in Watchers, WRespawnCrashReg(w) PROVE CalmState'
  BY <1>34 DEF WRespawnCrashReg
<1>35. ASSUME NEW c \in Users, PipelineTimeout(c) PROVE CalmState'
  BY <1>35 DEF PipelineTimeout
<1>36. ASSUME NEW c \in Users, NEW o \in Operations, BeginCall(c, o) PROVE CalmState'
  BY <1>36 DEF BeginCall
<1>37. ASSUME NEW i \in Actors, AnswerRun(i) PROVE CalmState'
  BY <1>37 DEF AnswerRun
<1>38. CASE AnswerOrphan
  BY <1>38 DEF AnswerOrphan
<1>39. CASE UnitStarts
  BY <1>39 DEF UnitStarts
<1>40. CASE UnitEnds
  BY <1>40 DEF UnitEnds
<1>41. CASE UnitDies
  BY <1>41 DEF UnitDies
<1>42. CASE RestartExpires
  BY <1>42 DEF RestartExpires
<1>43. CASE BootLook
  BY <1>43 DEF BootLook
<1>44. CASE BootReg
  BY <1>44 DEF BootReg
<1>45. CASE Reboot
  BY <1>45 DEF Reboot
<1>46. CASE UNCHANGED supervisorVars
  BY <1>46 DEF supervisorVars
<1>47. ASSUME NEW c \in Callers, UserStep(c) PROVE CalmState'
  BY <1>47, <1>1, <1>2, <1>3, <1>4, <1>5, <1>6, <1>7, <1>8, <1>9, <1>10, <1>11, <1>12, <1>13,
            <1>14, <1>15, <1>16, <1>17, <1>18, <1>19 DEF UserStep, StartStep, StopStep
<1>48. ASSUME NEW w \in Watchers, WatchStep(w) PROVE CalmState'
  BY <1>48, <1>20, <1>21, <1>22, <1>23, <1>24, <1>25, <1>26, <1>27, <1>28, <1>29, <1>30, <1>31,
            <1>32, <1>33, <1>34 DEF WatchStep
<1> QED
  BY <1>47, <1>48, <1>35, <1>36, <1>37, <1>38, <1>39, <1>40, <1>41, <1>42, <1>43, <1>44, <1>45,
     <1>46 DEF SupervisorNext, BootStep, Systemd

\* Only start withdraws a request to stop, and only stop makes one.
LEMMA AloneFlagStep ==
    ASSUME SupervisorTypeOK, OneCall, BootAlone, Untracked, AloneFlag,
           [SupervisorNext]_supervisorVars
    PROVE  AloneFlag'
<1> USE SupervisorAssumption DEF SupervisorTypeOK, OneCall, BootAlone, Untracked, NewProcess,
                                 OutsideSteps, AloneFlag, StartingSteps, StoppingSteps, Process,
                                 Callers, Step, WStep, Returns, AfterStop, SetState, SetReg,
                                 SendRun, TakeResult, Abort, DropCommands, Live, Quiet, supVars,
                                 callVars, runVars, marks
<1>1. ASSUME NEW c \in Callers, StartCall(c) PROVE AloneFlag'
  BY <1>1 DEF StartCall
<1>2. ASSUME NEW c \in Callers, StartLock(c) PROVE AloneFlag'
  <2>1. CASE UNCHANGED proc /\ pc'[c] = "idle"
    <3>1. alone' = alone /\ \A d \in Callers \ {c} : pc'[d] = pc[d]
      BY <1>2 DEF StartLock
    <3> QED
      BY <2>1, <3>1
  <2>2. CASE proc' = [proc EXCEPT !.state = "Starting", !.stopReq = FALSE] /\ pc'[c] = "startReg"
    <3>1. ~proc'.stopReq
      BY <2>2
    <3>2. alone' => \A d \in Callers \ {c} : pc'[d] = "idle"
      BY <1>2 DEF StartLock
    <3> QED
      BY <2>2, <3>1, <3>2
  <2> QED
    BY <1>2, <2>1, <2>2 DEF StartLock
<1>3. ASSUME NEW c \in Callers, StartReg(c) PROVE AloneFlag'
  BY <1>3 DEF StartReg
<1>4. ASSUME NEW c \in Callers, StartProbe(c) PROVE AloneFlag'
  BY <1>4 DEF StartProbe
<1>5. ASSUME NEW c \in Callers, StartRun(c) PROVE AloneFlag'
  BY <1>5 DEF StartRun
<1>6. ASSUME NEW c \in Callers, StartWait(c) PROVE AloneFlag'
  BY <1>6 DEF StartWait
<1>7. ASSUME NEW c \in Callers, StartCrash(c) PROVE AloneFlag'
  BY <1>7 DEF StartCrash
<1>8. ASSUME NEW c \in Callers, StartCrashReg(c) PROVE AloneFlag'
  BY <1>8 DEF StartCrashReg
<1>9. ASSUME NEW c \in Callers, AttachSpawn(c) PROVE AloneFlag'
  BY <1>9 DEF AttachSpawn
<1>10. ASSUME NEW c \in Callers, AttachSlot(c) PROVE AloneFlag'
  BY <1>10 DEF AttachSlot
<1>11. ASSUME NEW c \in Callers, StopUntracked(c) PROVE AloneFlag'
  BY <1>11 DEF StopUntracked
<1>12. ASSUME NEW c \in Callers, StopLock(c) PROVE AloneFlag'
  BY <1>12 DEF StopLock
<1>13. ASSUME NEW c \in Callers, StopReg(c) PROVE AloneFlag'
  BY <1>13 DEF StopReg
<1>14. ASSUME NEW c \in Callers, StopAbort(c) PROVE AloneFlag'
  BY <1>14 DEF StopAbort
<1>15. ASSUME NEW c \in Callers, StopCmd(c) PROVE AloneFlag'
  BY <1>15 DEF StopCmd
<1>16. ASSUME NEW c \in Callers, StopWait(c) PROVE AloneFlag'
  BY <1>16 DEF StopWait
<1>17. ASSUME NEW c \in Callers, StopKill(c) PROVE AloneFlag'
  BY <1>17 DEF StopKill
<1>18. ASSUME NEW c \in Callers, StopKillWait(c) PROVE AloneFlag'
  BY <1>18 DEF StopKillWait
<1>19. ASSUME NEW c \in Callers, StopDone(c) PROVE AloneFlag'
  BY <1>19 DEF StopDone
<1>20. ASSUME NEW c \in Callers, StopDoneReg(c) PROVE AloneFlag'
  BY <1>20 DEF StopDoneReg
<1>21. ASSUME NEW c \in Callers, Rsync(c) PROVE AloneFlag'
  BY <1>21 DEF Rsync
<1>22. ASSUME NEW c \in Callers, UpdateRead(c) PROVE AloneFlag'
  BY <1>22 DEF UpdateRead
<1>23. ASSUME NEW c \in Callers, UpdateWrite(c) PROVE AloneFlag'
  BY <1>23 DEF UpdateWrite
<1>24. ASSUME NEW w \in Watchers, WAwait(w) PROVE AloneFlag'
  BY <1>24 DEF WAwait
<1>25. ASSUME NEW w \in Watchers, WMark(w) PROVE AloneFlag'
  BY <1>25 DEF WMark
<1>26. ASSUME NEW w \in Watchers, WMarkReg(w) PROVE AloneFlag'
  BY <1>26 DEF WMarkReg
<1>27. ASSUME NEW w \in Watchers, WLoop(w) PROVE AloneFlag'
  BY <1>27 DEF WLoop
<1>28. ASSUME NEW w \in Watchers, WPoll(w) PROVE AloneFlag'
  BY <1>28 DEF WPoll
<1>29. ASSUME NEW w \in Watchers, WRecheck(w) PROVE AloneFlag'
  BY <1>29 DEF WRecheck
<1>30. ASSUME NEW w \in Watchers, WCrash(w) PROVE AloneFlag'
  BY <1>30 DEF WCrash
<1>31. ASSUME NEW w \in Watchers, WCrashReg(w) PROVE AloneFlag'
  BY <1>31 DEF WCrashReg
<1>32. ASSUME NEW w \in Watchers, WBump(w) PROVE AloneFlag'
  BY <1>32 DEF WBump
<1>33. ASSUME NEW w \in Watchers, WBackoff(w) PROVE AloneFlag'
  BY <1>33 DEF WBackoff
<1>34. ASSUME NEW w \in Watchers, WRespawnReg(w) PROVE AloneFlag'
  BY <1>34 DEF WRespawnReg
<1>35. ASSUME NEW w \in Watchers, WRespawn(w) PROVE AloneFlag'
  BY <1>35 DEF WRespawn
<1>36. ASSUME NEW w \in Watchers, WRespawnWait(w) PROVE AloneFlag'
  BY <1>36 DEF WRespawnWait
<1>37. ASSUME NEW w \in Watchers, WRespawnCrash(w) PROVE AloneFlag'
  BY <1>37 DEF WRespawnCrash
<1>38. ASSUME NEW w \in Watchers, WRespawnCrashReg(w) PROVE AloneFlag'
  BY <1>38 DEF WRespawnCrashReg
<1>39. ASSUME NEW c \in Users, PipelineTimeout(c) PROVE AloneFlag'
  BY <1>39 DEF PipelineTimeout
<1>40. ASSUME NEW c \in Users, NEW o \in Operations, BeginCall(c, o) PROVE AloneFlag'
  BY <1>40 DEF BeginCall
<1>41. ASSUME NEW i \in Actors, AnswerRun(i) PROVE AloneFlag'
  BY <1>41 DEF AnswerRun
<1>42. CASE AnswerOrphan
  BY <1>42 DEF AnswerOrphan
<1>43. CASE UnitStarts
  BY <1>43 DEF UnitStarts
<1>44. CASE UnitEnds
  BY <1>44 DEF UnitEnds
<1>45. CASE UnitDies
  BY <1>45 DEF UnitDies
<1>46. CASE RestartExpires
  BY <1>46 DEF RestartExpires
<1>47. CASE BootLook
  BY <1>47 DEF BootLook
<1>48. CASE BootReg
  BY <1>48 DEF BootReg
<1>49. CASE Reboot
  BY <1>49 DEF Reboot
<1>50. CASE UNCHANGED supervisorVars
  BY <1>50 DEF supervisorVars
<1>51. ASSUME NEW c \in Callers, UserStep(c) PROVE AloneFlag'
  BY <1>51, <1>1, <1>2, <1>3, <1>4, <1>5, <1>6, <1>7, <1>8, <1>9, <1>10, <1>11, <1>12, <1>13,
            <1>14, <1>15, <1>16, <1>17, <1>18, <1>19, <1>20, <1>21, <1>22, <1>23 DEF UserStep,
            StartStep, StopStep
<1>52. ASSUME NEW w \in Watchers, WatchStep(w) PROVE AloneFlag'
  BY <1>52, <1>24, <1>25, <1>26, <1>27, <1>28, <1>29, <1>30, <1>31, <1>32, <1>33, <1>34, <1>35,
            <1>36, <1>37, <1>38 DEF WatchStep
<1> QED
  BY <1>51, <1>52, <1>39, <1>40, <1>41, <1>42, <1>43, <1>44, <1>45, <1>46, <1>47, <1>48, <1>49,
     <1>50 DEF SupervisorNext, BootStep, Systemd

\* A new watcher can end before it is stored only at the restart limit.
LEMMA AloneSlotStep ==
    ASSUME SupervisorTypeOK, OneCall, HandlesHeld, BootAlone, AloneFlag, AloneSlot,
           [SupervisorNext]_supervisorVars
    PROVE  AloneSlot'
<1> USE SupervisorAssumption DEF SupervisorTypeOK, OneCall, HandlesHeld, BootAlone, AloneFlag,
                                 AloneSlot, StartingSteps, StoppingSteps, Process, Callers, Step,
                                 WStep, Returns, AfterStop, SetState, SetReg, SendRun, TakeResult,
                                 Abort, DropCommands, Live, Quiet, supVars, callVars, runVars,
                                 marks
<1>1. ASSUME NEW c \in Callers, StartCall(c) PROVE AloneSlot'
  BY <1>1 DEF StartCall
<1>2. ASSUME NEW c \in Callers, StartLock(c) PROVE AloneSlot'
  BY <1>2 DEF StartLock
<1>3. ASSUME NEW c \in Callers, StartReg(c) PROVE AloneSlot'
  BY <1>3 DEF StartReg
<1>4. ASSUME NEW c \in Callers, StartProbe(c) PROVE AloneSlot'
  BY <1>4 DEF StartProbe
<1>5. ASSUME NEW c \in Callers, StartRun(c) PROVE AloneSlot'
  BY <1>5 DEF StartRun
<1>6. ASSUME NEW c \in Callers, StartWait(c) PROVE AloneSlot'
  BY <1>6 DEF StartWait
<1>7. ASSUME NEW c \in Callers, StartCrash(c) PROVE AloneSlot'
  BY <1>7 DEF StartCrash
<1>8. ASSUME NEW c \in Callers, StartCrashReg(c) PROVE AloneSlot'
  BY <1>8 DEF StartCrashReg
<1>9. ASSUME NEW c \in Callers, AttachSpawn(c) PROVE AloneSlot'
  BY <1>9 DEF AttachSpawn
<1>10. ASSUME NEW c \in Callers, AttachSlot(c) PROVE AloneSlot'
  BY <1>10 DEF AttachSlot
<1>11. ASSUME NEW c \in Callers, StopUntracked(c) PROVE AloneSlot'
  BY <1>11 DEF StopUntracked
<1>12. ASSUME NEW c \in Callers, StopLock(c) PROVE AloneSlot'
  BY <1>12 DEF StopLock
<1>13. ASSUME NEW c \in Callers, StopReg(c) PROVE AloneSlot'
  BY <1>13 DEF StopReg
<1>14. ASSUME NEW c \in Callers, StopAbort(c) PROVE AloneSlot'
  BY <1>14 DEF StopAbort
<1>15. ASSUME NEW c \in Callers, StopCmd(c) PROVE AloneSlot'
  BY <1>15 DEF StopCmd
<1>16. ASSUME NEW c \in Callers, StopWait(c) PROVE AloneSlot'
  BY <1>16 DEF StopWait
<1>17. ASSUME NEW c \in Callers, StopKill(c) PROVE AloneSlot'
  BY <1>17 DEF StopKill
<1>18. ASSUME NEW c \in Callers, StopKillWait(c) PROVE AloneSlot'
  BY <1>18 DEF StopKillWait
<1>19. ASSUME NEW c \in Callers, StopDone(c) PROVE AloneSlot'
  BY <1>19 DEF StopDone
<1>20. ASSUME NEW c \in Callers, StopDoneReg(c) PROVE AloneSlot'
  BY <1>20 DEF StopDoneReg
<1>21. ASSUME NEW c \in Callers, Rsync(c) PROVE AloneSlot'
  BY <1>21 DEF Rsync
<1>22. ASSUME NEW c \in Callers, UpdateRead(c) PROVE AloneSlot'
  BY <1>22 DEF UpdateRead
<1>23. ASSUME NEW c \in Callers, UpdateWrite(c) PROVE AloneSlot'
  BY <1>23 DEF UpdateWrite
<1>24. ASSUME NEW w \in Watchers, WAwait(w) PROVE AloneSlot'
  BY <1>24 DEF WAwait
<1>25. ASSUME NEW w \in Watchers, WMark(w) PROVE AloneSlot'
  BY <1>25 DEF WMark
<1>26. ASSUME NEW w \in Watchers, WMarkReg(w) PROVE AloneSlot'
  BY <1>26 DEF WMarkReg
<1>27. ASSUME NEW w \in Watchers, WLoop(w) PROVE AloneSlot'
  BY <1>27 DEF WLoop
<1>28. ASSUME NEW w \in Watchers, WPoll(w) PROVE AloneSlot'
  BY <1>28 DEF WPoll
<1>29. ASSUME NEW w \in Watchers, WRecheck(w) PROVE AloneSlot'
  BY <1>29 DEF WRecheck
<1>30. ASSUME NEW w \in Watchers, WCrash(w) PROVE AloneSlot'
  BY <1>30 DEF WCrash
<1>31. ASSUME NEW w \in Watchers, WCrashReg(w) PROVE AloneSlot'
  BY <1>31 DEF WCrashReg
<1>32. ASSUME NEW w \in Watchers, WBump(w) PROVE AloneSlot'
  <2>1. UNCHANGED <<alone, pc, handle>> /\ proc'.watcher = proc.watcher
    BY <1>32 DEF WBump
  <2>2. gaveUp => gaveUp'
    BY <1>32 DEF WBump
  <2>3. \A v \in Watchers : Live(v) => Live(v)' \/ gaveUp'
    BY <1>32 DEF WBump
  <2> QED
    BY <2>1, <2>2, <2>3
<1>33. ASSUME NEW w \in Watchers, WBackoff(w) PROVE AloneSlot'
  BY <1>33 DEF WBackoff
<1>34. ASSUME NEW w \in Watchers, WRespawnReg(w) PROVE AloneSlot'
  BY <1>34 DEF WRespawnReg
<1>35. ASSUME NEW w \in Watchers, WRespawn(w) PROVE AloneSlot'
  BY <1>35 DEF WRespawn
<1>36. ASSUME NEW w \in Watchers, WRespawnWait(w) PROVE AloneSlot'
  BY <1>36 DEF WRespawnWait
<1>37. ASSUME NEW w \in Watchers, WRespawnCrash(w) PROVE AloneSlot'
  BY <1>37 DEF WRespawnCrash
<1>38. ASSUME NEW w \in Watchers, WRespawnCrashReg(w) PROVE AloneSlot'
  BY <1>38 DEF WRespawnCrashReg
<1>39. ASSUME NEW c \in Users, PipelineTimeout(c) PROVE AloneSlot'
  BY <1>39 DEF PipelineTimeout
<1>40. ASSUME NEW c \in Users, NEW o \in Operations, BeginCall(c, o) PROVE AloneSlot'
  BY <1>40 DEF BeginCall
<1>41. ASSUME NEW i \in Actors, AnswerRun(i) PROVE AloneSlot'
  BY <1>41 DEF AnswerRun
<1>42. CASE AnswerOrphan
  BY <1>42 DEF AnswerOrphan
<1>43. CASE UnitStarts
  BY <1>43 DEF UnitStarts
<1>44. CASE UnitEnds
  BY <1>44 DEF UnitEnds
<1>45. CASE UnitDies
  BY <1>45 DEF UnitDies
<1>46. CASE RestartExpires
  BY <1>46 DEF RestartExpires
<1>47. CASE BootLook
  BY <1>47 DEF BootLook
<1>48. CASE BootReg
  BY <1>48 DEF BootReg
<1>49. CASE Reboot
  BY <1>49 DEF Reboot
<1>50. CASE UNCHANGED supervisorVars
  BY <1>50 DEF supervisorVars
<1>51. ASSUME NEW c \in Callers, UserStep(c) PROVE AloneSlot'
  BY <1>51, <1>1, <1>2, <1>3, <1>4, <1>5, <1>6, <1>7, <1>8, <1>9, <1>10, <1>11, <1>12, <1>13,
            <1>14, <1>15, <1>16, <1>17, <1>18, <1>19, <1>20, <1>21, <1>22, <1>23 DEF UserStep,
            StartStep, StopStep
<1>52. ASSUME NEW w \in Watchers, WatchStep(w) PROVE AloneSlot'
  BY <1>52, <1>24, <1>25, <1>26, <1>27, <1>28, <1>29, <1>30, <1>31, <1>32, <1>33, <1>34, <1>35,
            <1>36, <1>37, <1>38 DEF WatchStep
<1> QED
  BY <1>51, <1>52, <1>39, <1>40, <1>41, <1>42, <1>43, <1>44, <1>45, <1>46, <1>47, <1>48, <1>49,
     <1>50 DEF SupervisorNext, BootStep, Systemd

\* Every way a watcher ends leaves a reason behind.
LEMMA AloneUpStep ==
    ASSUME SupervisorTypeOK, OneCall, BootAlone, Untracked, AloneFlag, AloneSlot, AloneUp,
           [SupervisorNext]_supervisorVars
    PROVE  AloneUp'
<1> USE SupervisorAssumption DEF SupervisorTypeOK, OneCall, BootAlone, Untracked, NewProcess,
                                 OutsideSteps, AloneFlag, AloneSlot, AloneUp, StartingSteps,
                                 StoppingSteps, Process, Callers, Step, WStep, Returns, AfterStop,
                                 SetState, SetReg, SendRun, TakeResult, Abort, DropCommands, Live,
                                 Quiet, supVars, callVars, runVars, marks
<1>1. ASSUME NEW c \in Callers, StartCall(c) PROVE AloneUp'
  BY <1>1 DEF StartCall
<1>2. ASSUME NEW c \in Callers, StartLock(c) PROVE AloneUp'
  BY <1>2 DEF StartLock
<1>3. ASSUME NEW c \in Callers, StartReg(c) PROVE AloneUp'
  BY <1>3 DEF StartReg
<1>4. ASSUME NEW c \in Callers, StartProbe(c) PROVE AloneUp'
  BY <1>4 DEF StartProbe
<1>5. ASSUME NEW c \in Callers, StartRun(c) PROVE AloneUp'
  BY <1>5 DEF StartRun
<1>6. ASSUME NEW c \in Callers, StartWait(c) PROVE AloneUp'
  BY <1>6 DEF StartWait
<1>7. ASSUME NEW c \in Callers, StartCrash(c) PROVE AloneUp'
  BY <1>7 DEF StartCrash
<1>8. ASSUME NEW c \in Callers, StartCrashReg(c) PROVE AloneUp'
  BY <1>8 DEF StartCrashReg
<1>9. ASSUME NEW c \in Callers, AttachSpawn(c) PROVE AloneUp'
  BY <1>9 DEF AttachSpawn
<1>10. ASSUME NEW c \in Callers, AttachSlot(c) PROVE AloneUp'
  BY <1>10 DEF AttachSlot
<1>11. ASSUME NEW c \in Callers, StopUntracked(c) PROVE AloneUp'
  BY <1>11 DEF StopUntracked
<1>12. ASSUME NEW c \in Callers, StopLock(c) PROVE AloneUp'
  BY <1>12 DEF StopLock
<1>13. ASSUME NEW c \in Callers, StopReg(c) PROVE AloneUp'
  BY <1>13 DEF StopReg
<1>14. ASSUME NEW c \in Callers, StopAbort(c) PROVE AloneUp'
  BY <1>14 DEF StopAbort
<1>15. ASSUME NEW c \in Callers, StopCmd(c) PROVE AloneUp'
  BY <1>15 DEF StopCmd
<1>16. ASSUME NEW c \in Callers, StopWait(c) PROVE AloneUp'
  BY <1>16 DEF StopWait
<1>17. ASSUME NEW c \in Callers, StopKill(c) PROVE AloneUp'
  BY <1>17 DEF StopKill
<1>18. ASSUME NEW c \in Callers, StopKillWait(c) PROVE AloneUp'
  BY <1>18 DEF StopKillWait
<1>19. ASSUME NEW c \in Callers, StopDone(c) PROVE AloneUp'
  BY <1>19 DEF StopDone
<1>20. ASSUME NEW c \in Callers, StopDoneReg(c) PROVE AloneUp'
  BY <1>20 DEF StopDoneReg
<1>21. ASSUME NEW c \in Callers, Rsync(c) PROVE AloneUp'
  BY <1>21 DEF Rsync
<1>22. ASSUME NEW c \in Callers, UpdateRead(c) PROVE AloneUp'
  BY <1>22 DEF UpdateRead
<1>23. ASSUME NEW c \in Callers, UpdateWrite(c) PROVE AloneUp'
  BY <1>23 DEF UpdateWrite
<1>24. ASSUME NEW w \in Watchers, WAwait(w) PROVE AloneUp'
  BY <1>24 DEF WAwait
<1>25. ASSUME NEW w \in Watchers, WMark(w) PROVE AloneUp'
  BY <1>25 DEF WMark
<1>26. ASSUME NEW w \in Watchers, WMarkReg(w) PROVE AloneUp'
  BY <1>26 DEF WMarkReg
<1>27. ASSUME NEW w \in Watchers, WLoop(w) PROVE AloneUp'
  BY <1>27 DEF WLoop
<1>28. ASSUME NEW w \in Watchers, WPoll(w) PROVE AloneUp'
  BY <1>28 DEF WPoll
<1>29. ASSUME NEW w \in Watchers, WRecheck(w) PROVE AloneUp'
  BY <1>29 DEF WRecheck
<1>30. ASSUME NEW w \in Watchers, WCrash(w) PROVE AloneUp'
  BY <1>30 DEF WCrash
<1>31. ASSUME NEW w \in Watchers, WCrashReg(w) PROVE AloneUp'
  BY <1>31 DEF WCrashReg
<1>32. ASSUME NEW w \in Watchers, WBump(w) PROVE AloneUp'
  BY <1>32 DEF WBump
<1>33. ASSUME NEW w \in Watchers, WBackoff(w) PROVE AloneUp'
  BY <1>33 DEF WBackoff
<1>34. ASSUME NEW w \in Watchers, WRespawnReg(w) PROVE AloneUp'
  BY <1>34 DEF WRespawnReg
<1>35. ASSUME NEW w \in Watchers, WRespawn(w) PROVE AloneUp'
  BY <1>35 DEF WRespawn
<1>36. ASSUME NEW w \in Watchers, WRespawnWait(w) PROVE AloneUp'
  BY <1>36 DEF WRespawnWait
<1>37. ASSUME NEW w \in Watchers, WRespawnCrash(w) PROVE AloneUp'
  BY <1>37 DEF WRespawnCrash
<1>38. ASSUME NEW w \in Watchers, WRespawnCrashReg(w) PROVE AloneUp'
  BY <1>38 DEF WRespawnCrashReg
<1>39. ASSUME NEW c \in Users, PipelineTimeout(c) PROVE AloneUp'
  BY <1>39 DEF PipelineTimeout
<1>40. ASSUME NEW c \in Users, NEW o \in Operations, BeginCall(c, o) PROVE AloneUp'
  BY <1>40 DEF BeginCall
<1>41. ASSUME NEW i \in Actors, AnswerRun(i) PROVE AloneUp'
  BY <1>41 DEF AnswerRun
<1>42. CASE AnswerOrphan
  BY <1>42 DEF AnswerOrphan
<1>43. CASE UnitStarts
  BY <1>43 DEF UnitStarts
<1>44. CASE UnitEnds
  BY <1>44 DEF UnitEnds
<1>45. CASE UnitDies
  BY <1>45 DEF UnitDies
<1>46. CASE RestartExpires
  BY <1>46 DEF RestartExpires
<1>47. CASE BootLook
  <2>1. Boot \in Callers /\ UNCHANGED <<alone, wpc, gaveUp>>
    BY <1>47 DEF BootLook
  <2>2. CASE pc'[Boot] = "bootReg"
    BY <2>1, <2>2
  <2>3. CASE pc'[Boot] # "bootReg"
    <3>1. UNCHANGED <<tracked, proc>> /\ pc[Boot] = "boot"
      BY <1>47, <2>1, <2>3 DEF BootLook
    <3>2. \A d \in Callers : pc[d] \in StartingSteps => pc'[d] = pc[d]
      BY <1>47, <3>1 DEF BootLook
    <3> QED
      BY <2>1, <3>1, <3>2
  <2> QED
    BY <2>2, <2>3
<1>48. CASE BootReg
  BY <1>48 DEF BootReg
<1>49. CASE Reboot
  BY <1>49 DEF Reboot
<1>50. CASE UNCHANGED supervisorVars
  BY <1>50 DEF supervisorVars
<1>51. ASSUME NEW c \in Callers, UserStep(c) PROVE AloneUp'
  BY <1>51, <1>1, <1>2, <1>3, <1>4, <1>5, <1>6, <1>7, <1>8, <1>9, <1>10, <1>11, <1>12, <1>13,
            <1>14, <1>15, <1>16, <1>17, <1>18, <1>19, <1>20, <1>21, <1>22, <1>23 DEF UserStep,
            StartStep, StopStep
<1>52. ASSUME NEW w \in Watchers, WatchStep(w) PROVE AloneUp'
  BY <1>52, <1>24, <1>25, <1>26, <1>27, <1>28, <1>29, <1>30, <1>31, <1>32, <1>33, <1>34, <1>35,
            <1>36, <1>37, <1>38 DEF WatchStep
<1> QED
  BY <1>51, <1>52, <1>39, <1>40, <1>41, <1>42, <1>43, <1>44, <1>45, <1>46, <1>47, <1>48, <1>49,
     <1>50 DEF SupervisorNext, BootStep, Systemd

SupervisorInv ==
    /\ SupervisorTypeOK /\ CommandsAwaited /\ HandlesHeld /\ Owned /\ BootAlone /\ Untracked
    /\ OneCall /\ CalmUnit /\ CalmState /\ AloneFlag /\ AloneSlot /\ AloneUp

\* Every caller starts at rest and no watcher runs.
LEMMA SupervisorInvInit == SupervisorInit => SupervisorInv
<1> SUFFICES ASSUME SupervisorInit PROVE SupervisorInv
  OBVIOUS
<1> USE SupervisorAssumption DEF SupervisorInit, Callers, Actors, Live, Quiet, NewProcess
<1>1. SupervisorTypeOK
  BY SupervisorTypesInit
<1>2. CommandsAwaited /\ HandlesHeld /\ Owned
  BY DEF CommandsAwaited, HandlesHeld, Owned, WatcherOwned
<1>3. BootAlone /\ Untracked /\ OneCall
  BY DEF BootAlone, Untracked, OneCall, StoppingSteps, OutsideSteps
<1>4. CalmUnit /\ CalmState /\ AloneFlag /\ AloneSlot /\ AloneUp
  BY DEF CalmUnit, CalmState, AloneFlag, AloneSlot, AloneUp, StartingSteps, StoppingSteps
<1> QED
  BY <1>1, <1>2, <1>3, <1>4 DEF SupervisorInv

\* Every step keeps every part.
LEMMA SupervisorInvStep == SupervisorInv /\ [SupervisorNext]_supervisorVars => SupervisorInv'
<1> SUFFICES ASSUME SupervisorInv, [SupervisorNext]_supervisorVars PROVE SupervisorInv'
  OBVIOUS
<1> USE DEF SupervisorInv
<1>1. SupervisorTypeOK'
  BY SupervisorTypesStep
<1>2. CommandsAwaited' /\ HandlesHeld' /\ Owned' /\ BootAlone' /\ Untracked'
  BY CommandsStep, HandlesStep, OwnedStep, BootAloneStep, UntrackedStep
<1>3. OneCall' /\ CalmUnit' /\ CalmState'
  BY OneCallStep, CalmUnitStep, CalmStateStep
<1>4. AloneFlag' /\ AloneSlot' /\ AloneUp'
  BY AloneFlagStep, AloneSlotStep, AloneUpStep
<1> QED
  BY <1>1, <1>2, <1>3, <1>4

\* With every caller at rest the parts say what the calls promise.
LEMMA SupervisorInvEnough == SupervisorInv => CallsHold
<1> SUFFICES ASSUME SupervisorInv PROVE CallsHold
  OBVIOUS
<1>1. UndisturbedStopHolds
  <2> SUFFICES ASSUME calm, AllQuiet, proc.state = "Stopped"
               PROVE  /\ unit = "none" /\ reg = "Stopped" /\ orphans = 0
                      /\ \A w \in Watchers : ~Live(w)
                      /\ \A i \in Actors : cmd[i] # "sent"
    BY DEF UndisturbedStopHolds
  <2>1. \A c \in Callers : pc[c] = "idle"
    BY DEF AllQuiet, Quiet
  <2>2. orphans = 0 /\ \A w \in Watchers : ~Live(w)
    BY <2>1 DEF SupervisorInv, CalmUnit
  <2>3. unit = "none" /\ reg = "Stopped"
    BY <2>1 DEF SupervisorInv, CalmState
  <2>4. \A i \in Actors : cmd[i] # "sent"
    BY <2>1, <2>2 DEF SupervisorInv, CommandsAwaited, Live, Actors
  <2> QED
    BY <2>2, <2>3, <2>4
<1>2. alone => UpIsSupervised
  <2> SUFFICES ASSUME alone, AllQuiet,
                      (IF tracked THEN proc.state ELSE reg) \in {"Running", "Starting"}
               PROVE  (\E w \in Watchers : Live(w)) \/ proc.stopReq \/ gaveUp
    BY DEF UpIsSupervised
  <2>1. \A c \in Callers : pc[c] = "idle"
    BY DEF AllQuiet, Quiet
  <2>2. tracked
    BY <2>1 DEF SupervisorInv, Untracked, Callers
  <2> QED
    BY <2>1, <2>2 DEF SupervisorInv, AloneUp, StartingSteps
<1> QED
  BY <1>1, <1>2 DEF CallsHold, SupervisorInv, Owned

\* The types of the supervisor's state: the steps, the states of an application and of its unit, and
\* a restart history cut at the limit.
THEOREM SupervisorTypes == SupervisorSpec => []SupervisorTypeOK
<1> QED
  BY SupervisorTypesInit, SupervisorTypesStep, PTL DEF SupervisorSpec

\* Whatever the callers, watchers, crashes of the unit, deaths of the orchestrator and timeouts of
\* pipelines: a stop that nothing disturbed holds, an application that is meant to be up is looked
\* after between calls that came one at a time, and, unless pipelines time out, every watcher task
\* can still be aborted.
THEOREM SupervisorCallsHold == SupervisorSpec => []CallsHold
<1> QED
  BY SupervisorInvInit, SupervisorInvStep, SupervisorInvEnough, PTL DEF SupervisorSpec
=============================================================================
