---------------------------- MODULE PortRegistry ----------------------------
(***************************************************************************)
(* The persistent map app slug -> TCP port of hr-apps                      *)
(* (crates/orchestrator/hr-apps/src/port_registry.rs).                     *)
(*                                                                         *)
(* The registry is a map in memory behind a write lock that is held across *)
(* the whole of an operation, the write of the file included, so that each *)
(* operation is one action.  The file is replaced by a rename, so that it  *)
(* holds either the previous map or the new one.  An operation changes the *)
(* map in memory first and writes the file afterwards: when the write      *)
(* fails, or the process dies before the rename, memory and file differ.   *)
(***************************************************************************)
EXTENDS Integers, FiniteSets

CONSTANTS Slugs,     \* the application slugs
          BasePort,  \* the first port handed out (3001 in production)
          MaxPort,   \* the last value of the port type (65535: the ports are u16)
          DiskFails  \* whether writing the registry file may fail

ASSUME PortAssumption ==
    /\ BasePort \in Nat /\ MaxPort \in Nat /\ BasePort <= MaxPort
    /\ DiskFails \in BOOLEAN

VARIABLES assignments,   \* the map in memory: a function on a subset of Slugs
          portFile       \* the map in the registry file; an absent file is the empty map

portVars == <<assignments, portFile>>

Port == BasePort .. MaxPort

Assigned == DOMAIN assignments

\* The maps from some of the slugs to ports.
PortMap == UNION {[S -> Port] : S \in SUBSET Slugs}

EmptyMap == [s \in {} |-> BasePort]

UsedPorts == {assignments[s] : s \in Assigned}

FreePorts == Port \ UsedPorts

\* The first unused port the upward scan from base_port meets.
IsLowestFree(p) == p \in FreePorts /\ \A q \in FreePorts : p <= q

\* The write of the file after the change in memory: it succeeds, or leaves the file as it was.
Persist(ok) ==
    /\ ok \in {TRUE} \cup (IF DiskFails THEN {FALSE} ELSE {})
    /\ portFile' = IF ok THEN assignments' ELSE portFile

Init ==
    /\ assignments = EmptyMap
    /\ portFile = EmptyMap

\* Mutant of AssignKnown: without the early return the scan runs again.
AssignKnown_Reassigns(s) ==
    /\ s \in Assigned
    /\ \E p \in FreePorts : assignments' = [assignments EXCEPT ![s] = p]
    /\ portFile' = assignments'

\* assign of a slug that has a port returns that port; nothing is written.
AssignKnown(s) ==
    /\ s \in Assigned
    /\ UNCHANGED portVars

\* Mutant of AssignNew: the port is derived from the number of applications.
AssignNew_Counts(s, ok) ==
    /\ s \notin Assigned
    /\ assignments' = [t \in Assigned \cup {s} |->
                          IF t = s THEN BasePort + Cardinality(Assigned) ELSE assignments[t]]
    /\ Persist(ok)

\* Mutant of AssignExhausted: the scan goes past the last port.
AssignExhausted_Overflows(s) ==
    /\ s \notin Assigned
    /\ FreePorts = {}
    /\ assignments' = [t \in Assigned \cup {s} |->
                          IF t = s THEN MaxPort + 1 ELSE assignments[t]]
    /\ UNCHANGED portFile

\* assign of a new slug takes the lowest free port; the caller gets an error when the write
\* fails, although the map in memory keeps the new entry.
AssignNew(s, ok) ==
    /\ s \notin Assigned
    /\ \E p \in FreePorts :
          /\ IsLowestFree(p)
          /\ assignments' = [t \in Assigned \cup {s} |->
                                IF t = s THEN p ELSE assignments[t]]
    /\ Persist(ok)

\* assign when the scan overflows the port type: an error, and nothing changes.
AssignExhausted(s) ==
    /\ s \notin Assigned
    /\ FreePorts = {}
    /\ UNCHANGED portVars

\* release of a slug that has a port.
ReleaseKnown(s, ok) ==
    /\ s \in Assigned
    /\ assignments' = [t \in Assigned \ {s} |-> assignments[t]]
    /\ Persist(ok)

\* release of a slug without a port: no write.
ReleaseUnknown(s) ==
    /\ s \notin Assigned
    /\ UNCHANGED portVars

\* The process stops, at any moment, and loads the file when it starts again.
Reload ==
    /\ assignments' = portFile
    /\ UNCHANGED portFile

Next ==
    \/ Reload
    \/ \E s \in Slugs :
          \/ AssignKnown(s) \/ AssignExhausted(s) \/ ReleaseUnknown(s)
          \/ \E ok \in BOOLEAN : AssignNew(s, ok) \/ ReleaseKnown(s, ok)

Spec == Init /\ [][Next]_portVars
-----------------------------------------------------------------------------
\* Both maps are maps from slugs to ports at or above base_port that fit the port type.
TypeOK == assignments \in PortMap /\ portFile \in PortMap

OneToOne(m) == \A s, t \in DOMAIN m : m[s] = m[t] => s = t

\* No two applications ever share a port, neither in the running registry nor after a restart
\* from the file, whatever writes failed and whenever the process died.
NoSharedPort == OneToOne(assignments) /\ OneToOne(portFile)

KeepsPorts == \A s \in Assigned \cap DOMAIN assignments' : assignments'[s] = assignments[s]

\* A slug keeps its port as long as it has one: "Assignments are stable across restarts"
\* (port_registry.rs:19).  Only a restart that finds the file behind the map in memory, because
\* a write of it has failed, may move a port.
PortsAreStable == [][~KeepsPorts => portFile # assignments]_portVars

\* When no write fails, the file is the map in memory after every operation.
FileIsCurrent == portFile = assignments
=============================================================================
