------------------------- MODULE PortRegistryProofs -------------------------
(***************************************************************************)
(* Proofs about PortRegistry, for any set of slugs, any port range and     *)
(* with or without failing writes.                                         *)
(***************************************************************************)
EXTENDS PortRegistry, TLAPS

\* A map that gives a new slug an unused port is one-to-one when the map it extends is:
\* the shape assignments takes in assign.
LEMMA ExtendOneToOne ==
    ASSUME NEW m \in PortMap, OneToOne(m), NEW s \in Slugs, s \notin DOMAIN m,
           NEW p \in Port, \A t \in DOMAIN m : m[t] # p,
           NEW n, n = [t \in DOMAIN m \cup {s} |-> IF t = s THEN p ELSE m[t]]
    PROVE  n \in PortMap /\ OneToOne(n)
<1>1. PICK S \in SUBSET Slugs : m \in [S -> Port]
  BY DEF PortMap
<1>2. n \in [S \cup {s} -> Port]
  BY <1>1
<1>3. S \cup {s} \in SUBSET Slugs
  BY <1>1
<1>4. n \in PortMap
  BY <1>2, <1>3 DEF PortMap
<1>5. OneToOne(n)
  BY <1>1 DEF OneToOne
<1> QED
  BY <1>4, <1>5

\* A map that loses a slug stays one-to-one: the shape assignments takes in release.
LEMMA ShrinkOneToOne ==
    ASSUME NEW m \in PortMap, OneToOne(m), NEW s,
           NEW n, n = [t \in DOMAIN m \ {s} |-> m[t]]
    PROVE  n \in PortMap /\ OneToOne(n)
<1>1. PICK S \in SUBSET Slugs : m \in [S -> Port]
  BY DEF PortMap
<1>2. n \in [S \ {s} -> Port] /\ S \ {s} \in SUBSET Slugs
  BY <1>1
<1>3. n \in PortMap
  BY <1>2 DEF PortMap
<1>4. OneToOne(n)
  BY <1>1 DEF OneToOne
<1> QED
  BY <1>3, <1>4

\* The map of an absent file is one-to-one.
LEMMA EmptyMapOneToOne == EmptyMap \in PortMap /\ OneToOne(EmptyMap)
<1>1. EmptyMap \in [{} -> Port]
  BY DEF EmptyMap
<1>2. EmptyMap \in PortMap
  BY <1>1 DEF PortMap
<1>3. OneToOne(EmptyMap)
  BY DEF OneToOne, EmptyMap
<1> QED
  BY <1>2, <1>3

-----------------------------------------------------------------------------
\* The inductive invariant is the type together with the property itself: the file only ever
\* receives a map that was in memory, and memory only ever receives the file.
PortInv == TypeOK /\ NoSharedPort

\* An orchestrator without a registry file satisfies the invariant.
LEMMA PortInvInit == Init => PortInv
  BY EmptyMapOneToOne DEF Init, PortInv, TypeOK, NoSharedPort

\* Writing the file, or failing to, keeps the invariant when the map in memory is right.
LEMMA PersistInv ==
    ASSUME PortInv, NEW ok, Persist(ok), assignments' \in PortMap, OneToOne(assignments')
    PROVE  PortInv'
  BY DEF PortInv, TypeOK, NoSharedPort, Persist, OneToOne

\* Every operation and every restart preserves the invariant.
LEMMA PortInvNext == PortInv /\ [Next]_portVars => PortInv'
<1> SUFFICES ASSUME PortInv, [Next]_portVars PROVE PortInv'
  OBVIOUS
<1>1. CASE Reload
  BY <1>1 DEF Reload, PortInv, TypeOK, NoSharedPort, OneToOne
<1>2. ASSUME NEW s \in Slugs, AssignKnown(s) \/ AssignExhausted(s) \/ ReleaseUnknown(s)
      PROVE  PortInv'
  BY <1>2 DEF AssignKnown, AssignExhausted, ReleaseUnknown, portVars,
              PortInv, TypeOK, NoSharedPort, OneToOne
<1>3. ASSUME NEW s \in Slugs, NEW ok \in BOOLEAN, AssignNew(s, ok)
      PROVE  PortInv'
  <2>1. PICK p \in FreePorts :
          assignments' = [t \in DOMAIN assignments \cup {s} |->
                             IF t = s THEN p ELSE assignments[t]]
    BY <1>3 DEF AssignNew, Assigned
  <2>2. p \in Port /\ \A t \in DOMAIN assignments : assignments[t] # p
    BY DEF FreePorts, UsedPorts, Assigned
  <2>3. assignments' \in PortMap /\ OneToOne(assignments')
    BY <1>3, <2>1, <2>2, ExtendOneToOne DEF PortInv, TypeOK, NoSharedPort, AssignNew, Assigned
  <2> QED
    BY <1>3, <2>3, PersistInv DEF AssignNew
<1>4. ASSUME NEW s \in Slugs, NEW ok \in BOOLEAN, ReleaseKnown(s, ok)
      PROVE  PortInv'
  <2>1. assignments' \in PortMap /\ OneToOne(assignments')
    BY <1>4, ShrinkOneToOne DEF ReleaseKnown, Assigned, PortInv, TypeOK, NoSharedPort
  <2> QED
    BY <1>4, <2>1, PersistInv DEF ReleaseKnown
<1>5. CASE UNCHANGED portVars
  BY <1>5 DEF portVars, PortInv, TypeOK, NoSharedPort, OneToOne
<1> QED
  BY <1>1, <1>2, <1>3, <1>4, <1>5 DEF Next

\* Whatever fails and whenever the process dies, no two applications share a port, in memory or
\* in the file.
THEOREM PortsNeverShared == Spec => []NoSharedPort
<1>1. PortInv => NoSharedPort
  BY DEF PortInv
<1> QED
  BY PortInvInit, PortInvNext, <1>1, PTL DEF Spec

\* Both maps stay maps from slugs to ports of the port type.
THEOREM PortTypes == Spec => []TypeOK
<1>1. PortInv => TypeOK
  BY DEF PortInv
<1> QED
  BY PortInvInit, PortInvNext, <1>1, PTL DEF Spec
-----------------------------------------------------------------------------
\* Nothing but a restart takes a port from a slug that stays assigned.
LEMMA OnlyReloadMoves ==
    ASSUME [Next]_portVars
    PROVE  KeepsPorts \/ Reload
<1>1. ASSUME NEW s \in Slugs, NEW ok \in BOOLEAN, AssignNew(s, ok) PROVE KeepsPorts
  BY <1>1 DEF AssignNew, Assigned, KeepsPorts
<1>2. ASSUME NEW s \in Slugs, NEW ok \in BOOLEAN, ReleaseKnown(s, ok) PROVE KeepsPorts
  BY <1>2 DEF ReleaseKnown, Assigned, KeepsPorts
<1>3. ASSUME UNCHANGED assignments PROVE KeepsPorts
  BY <1>3 DEF KeepsPorts
<1> QED
  BY <1>1, <1>2, <1>3
     DEF Next, AssignKnown, AssignExhausted, ReleaseUnknown, portVars

\* A restart from a file that is current moves no port.
LEMMA ReloadKeeps ==
    ASSUME FileIsCurrent, Reload
    PROVE  KeepsPorts
  BY DEF Reload, FileIsCurrent, KeepsPorts

\* A slug keeps its port until it is released, but for a restart after a failed write.
THEOREM PortsStable == Spec => PortsAreStable
<1>1. [Next]_portVars => [~KeepsPorts => portFile # assignments]_portVars
  BY OnlyReloadMoves, ReloadKeeps DEF FileIsCurrent
<1> QED
  BY <1>1, PTL DEF Spec, PortsAreStable

\* Without failing writes the file follows memory.
LEMMA FileIsCurrentNext ==
    ASSUME ~DiskFails, FileIsCurrent, [Next]_portVars
    PROVE  FileIsCurrent'
<1>1. ASSUME NEW ok, Persist(ok) PROVE FileIsCurrent'
  BY <1>1 DEF Persist, FileIsCurrent
<1>2. CASE UNCHANGED portVars
  BY <1>2 DEF portVars, FileIsCurrent
<1>3. CASE Reload
  BY <1>3 DEF Reload, FileIsCurrent
<1> QED
  BY <1>1, <1>2, <1>3
     DEF Next, AssignKnown, AssignExhausted, ReleaseUnknown, AssignNew, ReleaseKnown

\* When the writes of the file succeed, a slug keeps its port until it is released, whenever
\* the process restarts, and a restart loses nothing.
THEOREM WorkingDiskLosesNothing == ~DiskFails => (Spec => []FileIsCurrent /\ [][KeepsPorts]_portVars)
<1> SUFFICES ASSUME ~DiskFails PROVE Spec => []FileIsCurrent /\ [][KeepsPorts]_portVars
  OBVIOUS
<1>1. Init => FileIsCurrent
  BY DEF Init, FileIsCurrent
<1>2. FileIsCurrent /\ [Next]_portVars => FileIsCurrent'
  BY FileIsCurrentNext
<1>3. FileIsCurrent /\ [Next]_portVars => [KeepsPorts]_portVars
  BY OnlyReloadMoves, ReloadKeeps
<1> QED
  BY <1>1, <1>2, <1>3, PTL DEF Spec
=============================================================================
