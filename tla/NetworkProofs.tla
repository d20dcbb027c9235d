----------------------------- MODULE NetworkProofs -----------------------------
(***************************************************************************)
(* Proofs about four parts of MCNetwork.                                   *)
(*                                                                         *)
(* PrefixDelegation, for any set of prefixes and any number                *)
(* of leases and restarts: the types, and that what is published is held,  *)
(* that the interface follows it, and that the hosts do.  The inductive    *)
(* invariant says which prefix the sender believes to be the current one   *)
(* at each point of its loop, and that its address and its hosts agree     *)
(* with that belief.                                                       *)
(*                                                                         *)
(* HostLink, for any number of sockets and calls and any capacity of the   *)
(* channels: the types, and that the registered connection is alive.       *)
(*                                                                         *)
(* LocalDns, for any names and limits: the types, and that the answers of  *)
(* the resolver are those of the records.                                  *)
(*                                                                         *)
(* ServiceSupervisor, for any limits: the types, and which services are    *)
(* given up.                                                               *)
(***************************************************************************)
EXTENDS PrefixDelegation, HostLink, LocalDns, ServiceSupervisor, FiniteSetTheorems, SequenceTheorems, TLAPS

\* The prefix for which the interface was last set up: while the sender waits, the one it announced
\* at the top of its loop; while it is busy, nothing changes under its hands unless it is overtaken.
Believed == IF ra = "wait" THEN last ELSE published

\* A sender that waits with nothing new has announced what is published.
WaitsInformed == (ra = "wait" /\ ~unseen) => last = published

Follows ==
    (~overtaken /\ ~leftover) =>
        /\ WaitsInformed
        /\ lan = IF ra = "start" THEN {} ELSE AddressOf(Believed)
        /\ hosts \subseteq AddressOf(Believed) \cup replaced

\* The types, by what changes together.
Lease    == [prefix : Prefixes, age : Fresh..Over]
LeasesOK == leases \in Seq(Lease) /\ Len(leases) <= MaxLeases
ClientOK ==
    /\ fsm \in {"init", "soliciting", "requesting", "bound", "renewing", "rebinding", "rebind"}
    /\ held \in 0..Len(leases) /\ saved \in 0..Len(leases)
ChannelOK ==
    /\ published \in Prefixes \cup {NoPrefix} /\ unseen \in BOOLEAN /\ overtaken \in BOOLEAN
SenderOK ==
    /\ ra \in {"start", "top", "wait", "rapid1", "rapid2", "rapid3"}
    /\ last \in Prefixes \cup {NoPrefix} /\ lan \subseteq Prefixes /\ hosts \subseteq Prefixes
    /\ replaced \subseteq Prefixes
CrashesOK == crashes \in 0..MaxCrashes /\ leftover \in BOOLEAN

Types == LeasesOK /\ ClientOK /\ ChannelOK /\ SenderOK /\ CrashesOK

IInv == Types /\ PublishedIsHeld /\ Follows

LEMMA TypesAre == Types <=> TypeOK
<1>1. DOMAIN AfterRapid = {"rapid1", "rapid2", "rapid3"}
  BY DEF AfterRapid
<1> QED
  BY <1>1 DEF Types, TypeOK, LeasesOK, Lease, ClientOK, ChannelOK, SenderOK, CrashesOK

-----------------------------------------------------------------------------
(* What the client does to the leases and to the channel. *)

\* A lease that is carried or saved has a prefix.
LEMMA LeasePrefix ==
    ASSUME LeasesOK, NEW l \in 1..Len(leases)
    PROVE  Prefix(l) \in Prefixes
<1>1. leases[l] \in Lease
  BY DEF LeasesOK
<1> QED
  BY <1>1 DEF Lease, Prefix

LEMMA AddressIn ==
    ASSUME NEW p \in Prefixes \cup {NoPrefix}
    PROVE  AddressOf(p) \subseteq Prefixes
  BY DEF AddressOf

\* A send keeps the beliefs of the sender: while it waits it sees that there is something new, and
\* while it is busy it is overtaken by whatever differs.
LEMMA SendKeepsFollows ==
    ASSUME NEW p, Follows, ChannelOK, Send(p), UNCHANGED <<sender, leftover, replaced>>
    PROVE  Follows'
  BY DEF Follows, WaitsInformed, Believed, Send, sender, AddressOf, ChannelOK

LEMMA SendKeepsTypes ==
    ASSUME NEW p \in Prefixes \cup {NoPrefix}, ChannelOK, Send(p)
    PROVE  ChannelOK'
  BY DEF ChannelOK, Send

\* What the client does without a send leaves the rest alone.
LEMMA QuietStep ==
    ASSUME IInv, UNCHANGED <<leases, held, saved, published, unseen, sender, history>>,
           fsm' \in {"init", "soliciting", "requesting", "bound", "renewing", "rebinding", "rebind"}
    PROVE  IInv'
<1>1. Types'
  BY DEF IInv, Types, LeasesOK, Lease, ClientOK, ChannelOK, SenderOK, CrashesOK, sender, history
<1>2. PublishedIsHeld'
  BY DEF IInv, PublishedIsHeld, Prefix
<1>3. Follows'
  BY DEF IInv, Follows, WaitsInformed, Believed, AddressOf, sender, history
<1> QED
  BY <1>1, <1>2, <1>3 DEF IInv

LEMMA ClientKeepsIInv ==
    ASSUME IInv, ClientStep, MaxLeases \in Nat PROVE IInv'
<1> USE DEF IInv, Types
<1>1. CASE LoadValid
  <2>1. saved \in 1..Len(leases) /\ Prefix(saved) \in Prefixes
    BY <1>1, LeasePrefix DEF LoadValid, ClientOK, LeasesOK
  <2>2. LeasesOK' /\ ClientOK' /\ SenderOK' /\ CrashesOK'
    BY <1>1 DEF LoadValid, LeasesOK, ClientOK, SenderOK, CrashesOK, sender
  <2>3. ChannelOK' /\ Follows'
    BY <1>1, <2>1, SendKeepsTypes, SendKeepsFollows DEF LoadValid
  <2>4. PublishedIsHeld'
    BY <1>1, <2>1 DEF LoadValid, PublishedIsHeld, Send, Prefix
  <2> QED
    BY <2>2, <2>3, <2>4
<1>2. ASSUME NEW p \in Prefixes, Granted(p) PROVE IInv'
  <2> DEFINE lease == [prefix |-> p, age |-> Fresh]
  <2>1. lease \in Lease
    BY DEF Lease, Fresh, Over
  <2>2. /\ leases' = Append(leases, lease) /\ leases' \in Seq(Lease)
        /\ Len(leases') = Len(leases) + 1 /\ Len(leases) \in Nat
        /\ leases'[Len(leases')] = lease
    BY <1>2, <2>1 DEF Granted, LeasesOK
  <2>3. LeasesOK'
    BY <1>2, <2>2 DEF Granted, LeasesOK
  <2>4. ClientOK' /\ held' # 0
    BY <1>2, <2>2 DEF Granted, ClientOK
  <2>5. SenderOK' /\ CrashesOK'
    BY <1>2 DEF Granted, SenderOK, CrashesOK, sender
  <2>6. ChannelOK' /\ Follows'
    BY <1>2, SendKeepsTypes, SendKeepsFollows DEF Granted
  <2>7. PublishedIsHeld'
    BY <1>2, <2>2, <2>4 DEF Granted, PublishedIsHeld, Send, Prefix
  <2> QED
    BY <2>3, <2>4, <2>5, <2>6, <2>7
<1>3. CASE RebindExpired
  <2>1. LeasesOK' /\ ClientOK' /\ SenderOK' /\ CrashesOK'
    BY <1>3 DEF RebindExpired, LeasesOK, ClientOK, SenderOK, CrashesOK, sender
  <2>2. ChannelOK' /\ Follows'
    BY <1>3, SendKeepsTypes, SendKeepsFollows DEF RebindExpired
  <2>3. PublishedIsHeld'
    BY <1>3 DEF RebindExpired, PublishedIsHeld, Send
  <2> QED
    BY <2>1, <2>2, <2>3
<1>4. CASE \/ LoadNothing \/ Advertised \/ RequestFails \/ T1Reached \/ RenewFails
           \/ RebindTries \/ RebindFails
  <2> HIDE DEF IInv, Types
  <2>1. /\ UNCHANGED <<leases, held, saved, published, unseen, sender, history>>
        /\ fsm' \in {"init", "soliciting", "requesting", "bound", "renewing", "rebinding", "rebind"}
    BY <1>4 DEF LoadNothing, Advertised, RequestFails, T1Reached, RenewFails, RebindTries, RebindFails
  <2> QED
    BY <2>1, QuietStep
<1> QED
  BY <1>1, <1>2, <1>3, <1>4 DEF ClientStep

\* Time changes the age of a lease and nothing else.
LEMMA TimeKeepsIInv ==
    ASSUME IInv, NEW l \in 1..MaxLeases, GrowsOld(l) PROVE IInv'
<1> USE DEF IInv, Types
<1>1. l \in 1..Len(leases) /\ leases[l] \in Lease /\ leases \in [1..Len(leases) -> Lease]
  BY DEF GrowsOld, LeasesOK
<1>2. leases[l].age + 1 \in Fresh..Over
  BY <1>1 DEF GrowsOld, Age, Lease, Fresh, Over
<1>3. [leases[l] EXCEPT !.age = @ + 1] \in Lease
  BY <1>1, <1>2 DEF Lease
<1>4. /\ leases' \in Seq(Lease) /\ Len(leases') = Len(leases)
      /\ \A k \in 1..Len(leases) : leases'[k].prefix = leases[k].prefix
  BY <1>1, <1>3 DEF GrowsOld, LeasesOK, Lease
<1>5. Types'
  BY <1>4 DEF GrowsOld, LeasesOK, ClientOK, ChannelOK, SenderOK, CrashesOK, sender, history
<1>6. PublishedIsHeld'
  BY <1>4 DEF GrowsOld, PublishedIsHeld, Prefix, ClientOK
<1>7. Follows'
  BY DEF GrowsOld, Follows, WaitsInformed, Believed, AddressOf, sender, history
<1> QED
  BY <1>5, <1>6, <1>7

-----------------------------------------------------------------------------
(* The sender, the hosts, and a crash. *)

\* Each step of the sender takes it from what it believes to what it believes next.
LEMMA SenderKeepsIInv ==
    ASSUME IInv, SenderStep PROVE IInv'
<1> USE DEF IInv, Types
<1>0. UNCHANGED <<client, published, crashes, leftover>>
  BY DEF SenderStep, RaStart, RaTop, RaTimer, RaChanged, RaRapid, history
<1>1. LeasesOK' /\ ClientOK' /\ CrashesOK' /\ PublishedIsHeld'
  BY <1>0 DEF client, LeasesOK, ClientOK, CrashesOK, PublishedIsHeld, Prefix
<1>2. AddressOf(published) \subseteq Prefixes /\ AddressOf(last) \subseteq Prefixes
  BY AddressIn DEF ChannelOK, SenderOK
<1>3. ChannelOK' /\ SenderOK' /\ Follows'
  <2>1. CASE RaStart
    BY <2>1, <1>2 DEF RaStart, ChannelOK, SenderOK, Follows, WaitsInformed, Believed, history
  <2>2. CASE RaTop
    BY <2>2, <1>2 DEF RaTop, ChannelOK, SenderOK, Follows, WaitsInformed, Believed, history
  <2>3. CASE RaTimer
    BY <2>3 DEF RaTimer, ChannelOK, SenderOK, Follows, WaitsInformed, Believed
  <2>4. CASE RaChanged
    <3>1. ChannelOK' /\ SenderOK'
      BY <2>4, <1>2 DEF RaChanged, ChannelOK, SenderOK
    <3>2. Follows'
      BY <2>4 DEF RaChanged, Follows, WaitsInformed, Believed, AddressOf
    <3> QED
      BY <3>1, <3>2
  <2>5. CASE RaRapid
    <3>1. ra \in {"rapid1", "rapid2", "rapid3"} /\ ra' \in {"rapid2", "rapid3", "top"}
      BY <2>5 DEF RaRapid, AfterRapid
    <3> QED
      BY <2>5, <3>1, <1>2
      DEF RaRapid, ChannelOK, SenderOK, Follows, WaitsInformed, Believed, history
  <2> QED
    BY <2>1, <2>2, <2>3, <2>4, <2>5 DEF SenderStep
<1> QED
  BY <1>1, <1>3

LEMMA ForgettingKeepsIInv ==
    ASSUME IInv, NEW p, HostsForget(p) PROVE IInv'
<1>1. Types'
  BY DEF HostsForget, IInv, Types, LeasesOK, ClientOK, ChannelOK, SenderOK, CrashesOK, client, history
<1>2. PublishedIsHeld' /\ Follows'
  BY DEF HostsForget, IInv, PublishedIsHeld, Prefix, Follows, WaitsInformed, Believed, AddressOf,
         client, history
<1> QED
  BY <1>1, <1>2 DEF IInv

\* A restart begins with nothing believed; what the last life left behind is told by leftover.
LEMMA CrashKeepsIInv ==
    ASSUME IInv, Crash, MaxCrashes \in Nat PROVE IInv'
<1>1. LeasesOK' /\ ClientOK' /\ CrashesOK'
  BY DEF Crash, IInv, Types, LeasesOK, ClientOK, CrashesOK
<1>2. ChannelOK' /\ SenderOK'
  BY DEF Crash, IInv, Types, ChannelOK, SenderOK
<1>3. PublishedIsHeld' /\ Follows'
  BY DEF Crash, IInv, Types, CrashesOK, PublishedIsHeld, Follows, WaitsInformed
<1> QED
  BY <1>1, <1>2, <1>3 DEF IInv, Types

-----------------------------------------------------------------------------
LEMMA InitEstablishesIInv ==
    ASSUME Init, MaxLeases \in Nat, MaxCrashes \in Nat PROVE IInv
<1>1. LeasesOK /\ ClientOK
  BY DEF Init, LeasesOK, ClientOK
<1>2. ChannelOK /\ SenderOK
  BY DEF Init, ChannelOK, SenderOK
<1>3. CrashesOK
  <2>1. leftover \in BOOLEAN
    BY DEF Init
  <2>2. crashes \in 0..MaxCrashes
    BY DEF Init
  <2> QED
    BY <2>1, <2>2 DEF CrashesOK
<1>4. PublishedIsHeld /\ Follows
  BY DEF Init, PublishedIsHeld, Follows, WaitsInformed, Believed, AddressOf
<1> QED
  BY <1>1, <1>2, <1>3, <1>4 DEF IInv, Types

LEMMA NextKeepsIInv ==
    ASSUME IInv, [Next]_vars, MaxLeases \in Nat, MaxCrashes \in Nat PROVE IInv'
<1>1. CASE ClientStep
  BY <1>1, ClientKeepsIInv
<1>2. CASE SenderStep
  BY <1>2, SenderKeepsIInv
<1>3. ASSUME NEW l \in 1..MaxLeases, GrowsOld(l) PROVE IInv'
  BY <1>3, TimeKeepsIInv
<1>4. ASSUME NEW p \in Prefixes, HostsForget(p) PROVE IInv'
  BY <1>4, ForgettingKeepsIInv
<1>5. CASE Crash
  BY <1>5, CrashKeepsIInv
<1>6. CASE UNCHANGED vars
  BY <1>6, QuietStep DEF vars, client, history, IInv, Types, ClientOK
<1> QED
  BY <1>1, <1>2, <1>3, <1>4, <1>5, <1>6 DEF Next

LEMMA IInvGives ==
    ASSUME IInv PROVE TypeOK /\ PrefixIsFollowed
<1>1. TypeOK
  BY TypesAre DEF IInv
<1>2. PublishedIsHeld /\ LanFollows /\ HostsFollow
  BY DEF IInv, Follows, WaitsInformed, Believed, LanFollows, HostsFollow, Resting
<1> QED
  BY <1>1, <1>2 DEF PrefixIsFollowed

(* pd_client.rs, ra.rs: whatever the provider grants, renews or lets expire, however often hr-netcore
   restarts, and whenever the tasks take their steps, a prefix is published exactly while the client
   carries a lease of it; and a sender that waits with nothing new to look at, was not overtaken and
   found no address left over has an address in the published prefix and in no other, and hosts that
   take no withdrawn prefix for valid. *)
THEOREM PrefixFollowed ==
    ASSUME MaxLeases \in Nat, MaxCrashes \in Nat
    PROVE  Spec => [](TypeOK /\ PrefixIsFollowed)
<1>1. Init => IInv
  BY InitEstablishesIInv
<1>2. IInv /\ [Next]_vars => IInv'
  BY NextKeepsIInv
<1>3. IInv => TypeOK /\ PrefixIsFollowed
  BY IInvGives
<1> QED
  BY <1>1, <1>2, <1>3, PTL DEF Spec

-----------------------------------------------------------------------------
(* HostLink.                                                               *)

\* The types, by what changes together.
SocketsOK == sock \in [Sockets -> [step : SocketSteps, to : PowerStates]]
QueuesOK == queue \in [Sockets -> Seq(Calls)] /\ \A s \in Sockets : Len(queue[s]) <= Capacity
PowerOK == power \in [state : PowerStates, age : Ages] /\ due \in BOOLEAN
RequestsOK == /\ call \in [Calls -> [step : CallSteps, to : Sockets \cup {None}]]
              /\ signals \subseteq Calls /\ delivered \subseteq Calls
LockOK == conn \in Sockets \cup {None} /\ readers \subseteq Calls

\* A call that is about to send knows where to.
Aimed == \A k \in Calls : call[k].step \in {"send", "scan"} => call[k].to \in Sockets

HostInv == SocketsOK /\ QueuesOK /\ PowerOK /\ RequestsOK /\ LockOK /\ Aimed /\ NoGhostConnection

LEMMA HostInvInit == HostInit => HostInv
<1> SUFFICES ASSUME HostInit PROVE HostInv
  OBVIOUS
<1>1. SocketsOK /\ PowerOK
  BY DEF HostInit, SocketsOK, PowerOK, SocketSteps, PowerStates, Ages
<1>2. QueuesOK
  BY HostAssumption DEF HostInit, QueuesOK
<1>3. RequestsOK /\ LockOK /\ Aimed
  BY DEF HostInit, RequestsOK, LockOK, Aimed, CallSteps
<1> QED
  BY <1>1, <1>2, <1>3 DEF HostInit, HostInv, NoGhostConnection

\* What the task of a socket does, what a call does, and what time does.
Serving(s) ==
    \/ Insert(s) \/ ShowOnline(s) \/ Receive(s) \/ Beat(s) \/ SendOut(s) \/ Leave(s) \/ SetPower(s)
    \/ Remove(s)
Asking(k) ==
    \/ WakeCheck(k) \/ WakeDedup(k) \/ WakeFails(k) \/ WakeMark(k) \/ PowerCheck(k) \/ PowerSet(k)
    \/ Lookup(k) \/ SendMessage(k) \/ SendFails(k) \/ ExecBegin(k) \/ ExecTimeout(k) \/ ScanLock(k)
    \/ ScanSend(k)
Passing == GrowOld \/ Collect \/ TimeOut \/ Cleanup

LEMMA HostSteps ==
    ASSUME [HostNext]_hostVars
    PROVE  \/ \E s \in Sockets : Serving(s) \/ \E k \in Calls : Result(s, k)
           \/ \E k \in Calls : Asking(k)
           \/ Passing
           \/ UNCHANGED hostVars
  BY DEF HostNext, SocketStep, CallStep, Serving, Asking, Passing

\* The sockets of a step of a task: they keep their types, and the registered one is served or gone.
LEMMA ServingSockets ==
    ASSUME HostInv, NEW s \in Sockets, Serving(s)
    PROVE  SocketsOK' /\ NoGhostConnection' /\ LockOK'
<1>1. SocketsOK /\ NoGhostConnection /\ LockOK /\ None \notin Sockets
  BY HostAssumption DEF HostInv, None, Sockets
<1>2. sock[s].step \in SocketSteps /\ sock[s].to \in PowerStates
  BY <1>1 DEF SocketsOK
<1>3. ASSUME NEW step \in Open, Go(s, step), UNCHANGED lock \/ (conn' = s /\ UNCHANGED readers)
      PROVE  SocketsOK' /\ NoGhostConnection' /\ LockOK'
  <2>1. step \in SocketSteps
    BY DEF SocketSteps
  <2>2. SocketsOK' /\ sock'[s].step = step /\ \A r \in Sockets \ {s} : sock'[r] = sock[r]
    BY <1>1, <1>3, <2>1 DEF SocketsOK, Go
  <2> QED
    BY <1>1, <1>3, <2>2 DEF lock, NoGhostConnection, LockOK
<1>4. CASE Insert(s) \/ ShowOnline(s) \/ Receive(s) \/ Beat(s) \/ SetPower(s)
  BY <1>3, <1>4 DEF Insert, ShowOnline, Receive, Beat, SetPower, Open
<1>5. CASE SendOut(s)
  BY <1>1, <1>5 DEF SendOut, lock, SocketsOK, NoGhostConnection, LockOK
<1>6. CASE Leave(s)
  <2>1. PICK to \in PowerStates : sock' = [sock EXCEPT ![s] = [step |-> "offline", to |-> to]]
    BY <1>6 DEF Leave, PowerStates, Transitional
  <2>2. SocketsOK' /\ sock'[s].step = "offline" /\ \A r \in Sockets \ {s} : sock'[r] = sock[r]
    BY <1>1, <2>1 DEF SocketsOK, SocketSteps, Open
  <2> QED
    BY <1>1, <1>6, <2>2 DEF Leave, lock, NoGhostConnection, LockOK, Open
<1>7. CASE Remove(s)
  BY <1>1, <1>7 DEF Remove, SocketsOK, SocketSteps, PowerStates, NoGhostConnection, LockOK
<1> QED
  BY <1>4, <1>5, <1>6, <1>7 DEF Serving

\* A power state that is reached has its type.
LEMMA TransitionOK ==
    ASSUME PowerOK, NEW state \in PowerStates, Transition(state)
    PROVE  power' \in [state : PowerStates, age : Ages]
  BY DEF PowerOK, Transition, Ages

\* A message more or less leaves a channel within its capacity.
LEMMA AppendOK ==
    ASSUME QueuesOK, NEW s \in Sockets, NEW k \in Calls, Len(queue[s]) < Capacity,
           queue' = [queue EXCEPT ![s] = Append(@, k)]
    PROVE  QueuesOK'
<1>1. queue[s] \in Seq(Calls) /\ Capacity \in Nat /\ Len(queue[s]) \in Nat
  BY HostAssumption DEF QueuesOK
<1>2. Append(queue[s], k) \in Seq(Calls) /\ Len(Append(queue[s], k)) = Len(queue[s]) + 1
  BY <1>1
<1> QED
  BY <1>1, <1>2 DEF QueuesOK

LEMMA ServingRest ==
    ASSUME HostInv, NEW s \in Sockets, Serving(s)
    PROVE  QueuesOK' /\ PowerOK' /\ RequestsOK' /\ Aimed'
<1>1. QueuesOK /\ PowerOK /\ RequestsOK /\ Aimed /\ sock[s].to \in PowerStates
  BY DEF HostInv, SocketsOK
<1>2. UNCHANGED <<call, due>> /\ signals' = signals
  BY DEF Serving, Insert, ShowOnline, Receive, Beat, SendOut, Leave, SetPower, Remove
<1>3. PowerOK'
  <2>1. \/ power' = power \/ \E state \in PowerStates : Transition(state)
    BY <1>1 DEF Serving, Insert, ShowOnline, Receive, Beat, SendOut, Leave, SetPower, Remove, PowerStates
  <2> QED
    BY <1>1, <1>2, <2>1, TransitionOK DEF PowerOK
<1>4. QueuesOK' /\ delivered' \subseteq Calls
  <2>1. CASE SendOut(s)
    <3>1. queue[s] \in Seq(Calls) /\ queue[s] # <<>> /\ Len(queue[s]) <= Capacity /\ Capacity \in Nat
      BY <1>1, <2>1, HostAssumption DEF SendOut, QueuesOK
    <3>2. /\ Tail(queue[s]) \in Seq(Calls) /\ Len(Tail(queue[s])) = Len(queue[s]) - 1
          /\ Len(queue[s]) \in Nat
      BY <3>1
    <3>3. QueuesOK'
      BY <1>1, <2>1, <3>1, <3>2 DEF SendOut, QueuesOK
    <3> QED
      BY <1>1, <2>1, <3>3 DEF SendOut, RequestsOK
  <2>2. CASE Remove(s)
    <3>1. <<>> \in Seq(Calls) /\ Len(<<>>) = 0 /\ Capacity \in Nat
      BY HostAssumption
    <3> QED
      BY <1>1, <2>2, <3>1 DEF Remove, QueuesOK, RequestsOK
  <2>3. CASE UNCHANGED <<queue, delivered>>
    BY <1>1, <2>3 DEF QueuesOK, RequestsOK
  <2> QED
    BY <2>1, <2>2, <2>3 DEF Serving, Insert, ShowOnline, Receive, Beat, Leave, SetPower
<1> QED
  BY <1>1, <1>2, <1>3, <1>4 DEF RequestsOK, Aimed

-----------------------------------------------------------------------------
(* The calls.                                                              *)

CallOK == call \in [Calls -> [step : CallSteps, to : Sockets \cup {None}]] /\ Aimed

LEMMA StepOK ==
    ASSUME CallOK, NEW k \in Calls, NEW step \in CallSteps \ {"send", "scan"}, Step(k, step)
    PROVE  CallOK'
  BY DEF CallOK, Aimed, Step

LEMMA AimOK ==
    ASSUME CallOK, NEW k \in Calls, NEW step \in CallSteps, NEW to \in Sockets \cup {None},
           step \in {"send", "scan"} => to \in Sockets, Aim(k, step, to)
    PROVE  CallOK'
  BY DEF CallOK, Aimed, Aim

LEMMA EndOK ==
    ASSUME CallOK, NEW k \in Calls, End(k)
    PROVE  CallOK'
  BY AimOK DEF End, CallSteps

LEMMA AskingCalls ==
    ASSUME HostInv, NEW k \in Calls, Asking(k)
    PROVE  CallOK'
<1>1. CallOK /\ conn \in Sockets \cup {None}
  BY DEF HostInv, RequestsOK, LockOK, CallOK
<1>2. {"done", "dedup", "mark", "ShuttingDown", "Rebooting", "lookup"} \subseteq CallSteps \ {"send", "scan"}
  BY DEF CallSteps
<1>3. {"send", "scan", "wait", "done"} \subseteq CallSteps
  BY DEF CallSteps
<1>4. CASE WakeCheck(k) \/ WakeDedup(k) \/ PowerCheck(k) \/ PowerSet(k) \/ ExecBegin(k)
  <2>1. \/ End(k)
        \/ \E step \in {"done", "dedup", "mark", "ShuttingDown", "Rebooting", "lookup"} : Step(k, step)
    BY <1>4 DEF WakeCheck, WakeDedup, PowerCheck, PowerSet, ExecBegin
  <2> QED
    BY <1>1, <1>2, <2>1, StepOK, EndOK
<1>5. CASE WakeFails(k) \/ WakeMark(k) \/ SendFails(k) \/ ExecTimeout(k) \/ ScanSend(k)
  BY <1>1, <1>5, EndOK DEF WakeFails, WakeMark, SendFails, ExecTimeout, ScanSend
<1>6. CASE Lookup(k) \/ ScanLock(k)
  <2>1. CASE conn = None
    <3>1. End(k)
      BY <1>6, <2>1 DEF Lookup, ScanLock
    <3> QED
      BY <1>1, <3>1, EndOK
  <2>2. CASE conn # None
    <3>1. conn \in Sockets /\ (Aim(k, "send", conn) \/ Aim(k, "scan", conn))
      BY <1>1, <1>6, <2>2 DEF Lookup, ScanLock
    <3> QED
      BY <1>1, <1>3, <3>1, AimOK
  <2> QED
    BY <2>1, <2>2
<1>7. CASE SendMessage(k)
  <2>1. Aim(k, "wait", None) \/ Aim(k, "done", None)
    BY <1>7 DEF SendMessage
  <2> QED
    BY <1>1, <1>3, <2>1, AimOK
<1> QED
  BY <1>4, <1>5, <1>6, <1>7 DEF Asking

LEMMA AskingRest ==
    ASSUME HostInv, NEW k \in Calls, Asking(k)
    PROVE  SocketsOK' /\ NoGhostConnection' /\ LockOK' /\ QueuesOK' /\ PowerOK'
           /\ signals' \subseteq Calls /\ delivered' \subseteq Calls
<1>1. /\ SocketsOK /\ QueuesOK /\ PowerOK /\ RequestsOK /\ LockOK /\ NoGhostConnection
      /\ call[k].step \in {"send", "scan"} => call[k].to \in Sockets
  BY DEF HostInv, Aimed
<1>2. /\ UNCHANGED <<sock, conn, due, delivered>> /\ readers' \subseteq Calls
      /\ signals' \subseteq Calls
  BY <1>1 DEF Asking, WakeCheck, WakeDedup, WakeFails, WakeMark, PowerCheck, PowerSet, Lookup,
              SendMessage, SendFails, ExecBegin, ExecTimeout, ScanLock, ScanSend, lock, LockOK, RequestsOK
<1>3. PowerOK'
  <2>1. UNCHANGED power \/ \E state \in PowerStates : Transition(state)
    BY DEF Asking, WakeCheck, WakeDedup, WakeFails, WakeMark, PowerCheck, PowerSet, Lookup,
           SendMessage, SendFails, ExecBegin, ExecTimeout, ScanLock, ScanSend, PowerStates, Transitional
  <2> QED
    BY <1>1, <1>2, <2>1, TransitionOK DEF PowerOK
<1>4. QueuesOK'
  <2>1. CASE SendMessage(k) \/ ScanSend(k)
    <3>1. PICK s : s = call[k].to
      OBVIOUS
    <3>2. /\ s \in Sockets /\ Len(queue[s]) < Capacity
          /\ queue' = [queue EXCEPT ![s] = Append(@, k)]
      BY <1>1, <2>1, <3>1 DEF SendMessage, ScanSend, On
    <3> QED
      BY <1>1, <3>2, AppendOK
  <2>2. CASE UNCHANGED queue
    BY <1>1, <2>2 DEF QueuesOK
  <2> QED
    BY <2>1, <2>2 DEF Asking, WakeCheck, WakeDedup, WakeFails, WakeMark, PowerCheck, PowerSet, Lookup,
                      SendFails, ExecBegin, ExecTimeout, ScanLock
<1> QED
  BY <1>1, <1>2, <1>3, <1>4 DEF SocketsOK, NoGhostConnection, LockOK, RequestsOK

LEMMA ResultInv ==
    ASSUME HostInv, NEW s \in Sockets, NEW k \in Calls, Result(s, k)
    PROVE  HostInv'
<1>1. CallOK'
  <2>1. CallOK
    BY DEF HostInv, RequestsOK, CallOK
  <2>2. CASE k \in signals
    BY <2>1, <2>2, EndOK DEF Result, End, Aim
  <2>3. CASE k \notin signals
    BY <2>1, <2>3 DEF Result, CallOK, Aimed
  <2> QED
    BY <2>2, <2>3
<1> QED
  BY <1>1 DEF Result, HostInv, CallOK, SocketsOK, QueuesOK, PowerOK, RequestsOK, LockOK, lock,
              NoGhostConnection

LEMMA PassingInv ==
    ASSUME HostInv, Passing
    PROVE  HostInv'
<1>1. UNCHANGED <<sock, lock, queue, call, delivered>> /\ signals' \subseteq Calls
  BY DEF Passing, GrowOld, Collect, TimeOut, Cleanup, HostInv, RequestsOK
<1>2. PowerOK'
  <2>1. PowerOK
    BY DEF HostInv
  <2>2. CASE GrowOld
    BY <2>1, <2>2 DEF GrowOld, PowerOK, Ages
  <2>3. CASE TimeOut
    BY <2>1, <2>3, TransitionOK DEF TimeOut, PowerOK, PowerStates
  <2>4. CASE Collect \/ Cleanup
    BY <2>1, <2>4 DEF Collect, Cleanup, PowerOK
  <2> QED
    BY <2>2, <2>3, <2>4 DEF Passing
<1> QED
  BY <1>1, <1>2 DEF lock, HostInv, SocketsOK, QueuesOK, RequestsOK, LockOK, Aimed, NoGhostConnection

LEMMA HostInvNext == HostInv /\ [HostNext]_hostVars => HostInv'
<1> SUFFICES ASSUME HostInv, [HostNext]_hostVars PROVE HostInv'
  OBVIOUS
<1>1. ASSUME NEW s \in Sockets, Serving(s) PROVE HostInv'
  BY <1>1, ServingSockets, ServingRest DEF HostInv
<1>2. ASSUME NEW k \in Calls, Asking(k) PROVE HostInv'
  BY <1>2, AskingCalls, AskingRest DEF HostInv, CallOK, RequestsOK
<1>3. CASE UNCHANGED hostVars
  BY <1>3 DEF hostVars, lock, HostInv, SocketsOK, QueuesOK, PowerOK, RequestsOK, LockOK, Aimed,
              NoGhostConnection
<1> QED
  BY <1>1, <1>2, <1>3, HostSteps, ResultInv, PassingInv

\* Every step keeps the types: a channel its capacity, and a call that sends knows where to.
THEOREM HostKeepsTypes == HostSpec => []HostTypeOK
<1>1. HostInv => HostTypeOK
  BY DEF HostInv, HostTypeOK, SocketsOK, QueuesOK, PowerOK, RequestsOK, LockOK
<1> QED
  BY HostInvInit, HostInvNext, <1>1, PTL DEF HostSpec

\* However the sockets of a host replace each other, the registered connection has a live task.
THEOREM ConnectionsAreLive == HostSpec => []NoGhostConnection
<1>1. HostInv => NoGhostConnection
  BY DEF HostInv
<1> QED
  BY HostInvInit, HostInvNext, <1>1, PTL DEF HostSpec

-----------------------------------------------------------------------------
(* LocalDns *)

\* The lists of owners that the handlers make: the user first.
UserFirst == {<<>>, <<User>>, <<Edge>>, <<User, Edge>>}

EntryType == [name : Names, expired : BOOLEAN, stale : BOOLEAN]

SyncOK  == routes \subseteq Names /\ permit \in BOOLEAN /\ sync \in {"wait", "debounce", "call"}
CallsOK == pending \in Seq(SUBSET Names) /\ Len(pending) <= MaxPending
NetOK   == up \in BOOLEAN /\ records \in [Names \cup {Wildcard} -> UserFirst]
CacheOK == cache \subseteq EntryType /\ IsFiniteSet(cache) /\ Cardinality(cache) <= CacheSize

\* A clear meets no query.
AskedSinceClear == \A q \in asking : ~q.stale
AskingOK == asking \subseteq [name : Names, stale : BOOLEAN] /\ AskedSinceClear
PastOK   == changes \in 0..MaxChanges /\ missed \in BOOLEAN

\* The last call that waits for the lock carries the names of the routes, unless a signal is stored.
Announced ==
    /\ sync = "call" => pending # <<>>
    /\ ~permit /\ ~missed /\ sync # "debounce" =>
         IF pending = <<>> THEN Managed = RecordSet ELSE pending[Len(pending)] = RecordSet

DnsInv == SyncOK /\ CallsOK /\ NetOK /\ CacheOK /\ AskingOK /\ PastOK /\ ClearedForGood /\ Announced

-----------------------------------------------------------------------------
\* Owners are told apart.
LEMMA TwoOwners == Edge # User
  BY DEF Edge, User

\* Without one owner, with or without a record of hr-edge at the end.
LEMMA WithoutEdge ==
    ASSUME NEW q \in UserFirst
    PROVE  Without(q, Edge) \in {<<>>, <<User>>}
<1>1. CASE q \in {<<>>, <<Edge>>}
  BY <1>1 DEF Without
<1>2. CASE q \in {<<User>>, <<User, Edge>>}
  <2>1. q # <<>> /\ q # <<Edge>>
    BY <1>2, TwoOwners
  <2> QED
    BY <2>1 DEF Without
<1> QED
  BY <1>1, <1>2 DEF UserFirst

LEMMA WithoutUser ==
    ASSUME NEW q \in UserFirst
    PROVE  Without(q, User) \in {<<>>, <<Edge>>}
  BY TwoOwners DEF UserFirst, Without

LEMMA EdgeLast ==
    ASSUME NEW q \in {<<>>, <<User>>}, NEW r \in {<<>>, <<Edge>>}
    PROVE  /\ q \o r \in UserFirst
           /\ (\E i \in DOMAIN (q \o r) : (q \o r)[i] = Edge) <=> r = <<Edge>>
<1>1. CASE q = <<>>
  <2>1. q \o r = r
    BY <1>1
  <2> QED
    BY <2>1 DEF UserFirst
<1>2. CASE q = <<User>> /\ r = <<>>
  <2>1. q \o r = <<User>>
    BY <1>2
  <2> QED
    BY <1>2, <2>1, TwoOwners DEF UserFirst
<1>3. CASE q = <<User>> /\ r = <<Edge>>
  <2>1. q \o r = <<User, Edge>>
    <3>1. q \o r \in Seq({User, Edge}) /\ Len(q \o r) = 2
      BY <1>3
    <3>2. (q \o r)[1] = User /\ (q \o r)[2] = Edge
      BY <1>3
    <3>3. <<User, Edge>> \in Seq({User, Edge}) /\ Len(<<User, Edge>>) = 2
      OBVIOUS
    <3>4. \A i \in 1..2 : i = 1 \/ i = 2
      OBVIOUS
    <3>5. \A i \in 1..Len(q \o r) : (q \o r)[i] = <<User, Edge>>[i]
      BY <3>1, <3>2, <3>4
    <3> QED
      BY <3>1, <3>3, <3>5, SeqEqual
  <2>2. 2 \in DOMAIN <<User, Edge>> /\ <<User, Edge>>[2] = Edge
    OBVIOUS
  <2> QED
    BY <1>3, <2>1, <2>2 DEF UserFirst
<1> QED
  BY <1>1, <1>2, <1>3

\* What replace_managed_in leaves: the names it was given are those of hr-edge.
LEMMA ReplacedIs ==
    ASSUME NetOK, up' \in BOOLEAN, NEW names \in SUBSET Names, records' = Replaced(names)
    PROVE  NetOK' /\ Managed' = names
<1> DEFINE added(n) == IF n \in names THEN <<Edge>> ELSE <<>>
<1>1. DOMAIN records = Names \cup {Wildcard} /\ \A n \in DOMAIN records : records[n] \in UserFirst
  BY DEF NetOK
<1>2. ASSUME NEW n \in Names \cup {Wildcard}
      PROVE  records'[n] \in UserFirst /\ (Owns(Edge, n)' <=> n \in names)
  <2>1. records'[n] = Without(records[n], Edge) \o added(n)
    BY <1>1 DEF Replaced
  <2>2. Without(records[n], Edge) \in {<<>>, <<User>>}
    BY <1>1, WithoutEdge
  <2>3. added(n) \in {<<>>, <<Edge>>} /\ (added(n) = <<Edge>> <=> n \in names)
    OBVIOUS
  <2> HIDE DEF added
  <2> QED
    BY <2>1, <2>2, <2>3, EdgeLast DEF Owns
<1>3. DOMAIN records' = Names \cup {Wildcard} /\ records' = [n \in DOMAIN records' |-> records'[n]]
  BY <1>1 DEF Replaced
<1> QED
  BY <1>2, <1>3 DEF NetOK, Managed

\* The names of the routes are names.
LEMMA NamesPublished == SyncOK => RecordSet \in SUBSET Names
  BY DnsAssumption DEF SyncOK, RecordSet, Names

\* Steps of hr-netcore that lose records, or may: the record lists stay in order.
LEMMA RecordsChange ==
    ASSUME NetOK,
           \/ \E n \in LocalNames \cup {Wildcard} : AddRecord(n)
           \/ \E o \in {Edge, User} : RemoveByValue(o)
           \/ Reload \/ Stop
    PROVE  NetOK'
<1>1. ASSUME NEW n \in LocalNames \cup {Wildcard}, AddRecord(n) PROVE NetOK'
  BY <1>1 DEF AddRecord, NetOK, UserFirst, Names
<1>2. ASSUME NEW o \in {Edge, User}, RemoveByValue(o) PROVE NetOK'
  <2>1. \A q \in UserFirst : Without(q, o) \in UserFirst
    BY <1>2, WithoutEdge, WithoutUser DEF UserFirst
  <2> QED
    BY <1>2, <2>1 DEF RemoveByValue, NetOK
<1>3. CASE Reload \/ Stop
  BY <1>3, DnsAssumption DEF Reload, Stop, NetOK, UserFirst
<1> QED
  BY <1>1, <1>2, <1>3

-----------------------------------------------------------------------------
\* A set with one element more has at most one element more.
LEMMA AddOne ==
    ASSUME NEW S, NEW x, IsFiniteSet(S)
    PROVE  IsFiniteSet(S \cup {x}) /\ Cardinality(S \cup {x}) <= Cardinality(S) + 1
<1>1. Cardinality(S) \in Nat
  BY FS_CardinalityType
<1>2. CASE x \in S
  <2>1. S \cup {x} = S
    BY <1>2
  <2>2. IsFiniteSet(S \cup {x}) /\ Cardinality(S \cup {x}) = Cardinality(S)
    BY <2>1, Zenon
  <2> QED
    BY <1>1, <2>2
<1>3. CASE x \notin S
  <2>1. Cardinality(S \cup {x}) = Cardinality(S) + 1
    BY <1>3, FS_AddElement
  <2> QED
    BY <1>1, <2>1, FS_AddElement
<1> QED
  BY <1>2, <1>3

\* The cache keeps its limit.
LEMMA InsertedOK ==
    ASSUME CacheOK, ClearedForGood, NEW n \in Names, cache' \in Inserted(n, FALSE)
    PROVE  CacheOK' /\ ClearedForGood'
<1> DEFINE live == IF Cardinality(cache) >= CacheSize THEN Unexpired ELSE cache
           room == IF Cardinality(live) >= CacheSize THEN {live \ {e} : e \in live} ELSE {live}
<1>1. PICK kept \in room : cache' = {e \in kept : e.name # n} \cup {Entry(n, FALSE)}
  BY DEF Inserted
<1>2. live \in SUBSET cache /\ IsFiniteSet(live) /\ Cardinality(live) \in Nat
  BY FS_Subset, FS_CardinalityType DEF CacheOK, Unexpired
<1>3. Cardinality(live) <= CacheSize
  BY <1>2, FS_Subset, FS_CardinalityType, DnsAssumption DEF CacheOK
<1>4. kept \in SUBSET live /\ IsFiniteSet(kept) /\ Cardinality(kept) < CacheSize
  <2> HIDE DEF live
  <2>1. CASE Cardinality(live) >= CacheSize
    <3>1. PICK e \in live : kept = live \ {e}
      BY <2>1
    <3>2. IsFiniteSet(kept) /\ Cardinality(kept) = Cardinality(live) - 1
      BY <1>2, <3>1, FS_RemoveElement
    <3> QED
      BY <1>2, <1>3, <3>1, <3>2, DnsAssumption
  <2>2. CASE ~(Cardinality(live) >= CacheSize)
    <3>1. kept = live
      BY <2>2
    <3> QED
      BY <1>2, <2>2, <3>1, DnsAssumption
  <2> QED
    BY <2>1, <2>2
<1> DEFINE others == {e \in kept : e.name # n}
<1>5. others \in SUBSET kept /\ IsFiniteSet(others) /\ Cardinality(others) < CacheSize
  <2>1. others \in SUBSET kept
    OBVIOUS
  <2>2. Cardinality(kept) \in Nat /\ Cardinality(others) \in Nat /\ Cardinality(others) <= Cardinality(kept)
    BY <1>4, <2>1, FS_Subset, FS_CardinalityType
  <2> QED
    BY <1>4, <2>1, <2>2, FS_Subset, DnsAssumption
<1>6. IsFiniteSet(cache') /\ Cardinality(cache') <= CacheSize
  <2>1. cache' = others \cup {Entry(n, FALSE)}
    BY <1>1
  <2>2. Cardinality(others) \in Nat
    BY <1>5, FS_CardinalityType
  <2> HIDE DEF others
  <2>3. IsFiniteSet(cache') /\ Cardinality(cache') <= Cardinality(others) + 1
    BY <1>5, <2>1, <2>2, AddOne
  <2> QED
    BY <1>5, <2>2, <2>3, FS_CardinalityType, DnsAssumption
<1>7. Entry(n, FALSE) \in EntryType /\ ~Entry(n, FALSE).stale
  BY DEF Entry, EntryType
<1>8. others \subseteq cache
  BY <1>2, <1>4, <1>5
<1> QED
  BY <1>1, <1>6, <1>7, <1>8 DEF CacheOK, ClearedForGood

LEMMA CacheSteps ==
    ASSUME CacheOK, AskingOK, ClearedForGood,
           \/ \E q \in asking : Answer(q)
           \/ \E e \in cache : EntryExpires(e)
           \/ PurgeExpired
    PROVE  CacheOK' /\ ClearedForGood' /\ AskingOK'
<1>1. ASSUME NEW q \in asking, Answer(q) PROVE CacheOK' /\ ClearedForGood' /\ AskingOK'
  <2>1. q.name \in Names /\ q.stale = FALSE
    BY DEF AskingOK, AskedSinceClear
  <2>2. AskingOK'
    BY <1>1 DEF Answer, AskingOK, AskedSinceClear
  <2>3. CASE cache' = cache
    BY <2>2, <2>3 DEF CacheOK, ClearedForGood
  <2>4. CASE cache' \in Inserted(q.name, FALSE)
    BY <2>1, <2>2, <2>4, InsertedOK
  <2> QED
    BY <1>1, <2>1, <2>3, <2>4 DEF Answer
<1>2. ASSUME NEW e \in cache, EntryExpires(e) PROVE CacheOK' /\ ClearedForGood' /\ AskingOK'
  <2> DEFINE old == [e EXCEPT !.expired = TRUE]
  <2>1. cache' = (cache \ {e}) \cup {old} /\ UNCHANGED asking
    BY <1>2 DEF EntryExpires
  <2>2. old \in EntryType /\ ~old.stale
    BY DEF CacheOK, EntryType, ClearedForGood
  <2>3. IsFiniteSet(cache \ {e}) /\ Cardinality(cache \ {e}) = Cardinality(cache) - 1
    BY FS_RemoveElement DEF CacheOK
  <2>4. IsFiniteSet(cache') /\ Cardinality(cache') <= CacheSize
    <3>1. Cardinality(cache) \in Nat
      BY FS_CardinalityType DEF CacheOK
    <3> HIDE DEF old
    <3>2. IsFiniteSet(cache') /\ Cardinality(cache') <= Cardinality(cache \ {e}) + 1
      BY <2>1, <2>3, AddOne
    <3> QED
      BY <2>3, <3>1, <3>2, FS_CardinalityType, DnsAssumption DEF CacheOK
  <2> QED
    BY <2>1, <2>2, <2>4 DEF CacheOK, ClearedForGood, AskingOK, AskedSinceClear
<1>3. CASE PurgeExpired
  <2>1. cache' \in SUBSET cache /\ UNCHANGED asking
    BY <1>3 DEF PurgeExpired, Unexpired
  <2>2. IsFiniteSet(cache') /\ Cardinality(cache') <= Cardinality(cache)
    BY <2>1, FS_Subset DEF CacheOK
  <2>3. Cardinality(cache) \in Nat /\ Cardinality(cache') \in Nat
    BY <2>2, FS_CardinalityType DEF CacheOK
  <2> QED
    BY <2>1, <2>2, <2>3, DnsAssumption DEF CacheOK, ClearedForGood, AskingOK, AskedSinceClear
<1> QED
  BY <1>1, <1>2, <1>3

-----------------------------------------------------------------------------
\* The invariant holds at first.
LEMMA DnsInvInit == DnsInit => DnsInv
<1> SUFFICES ASSUME DnsInit PROVE DnsInv
  OBVIOUS
<1>1. NetOK
  BY DnsAssumption DEF DnsInit, NetOK, UserFirst
<1>2. CacheOK
  BY FS_EmptySet, DnsAssumption DEF DnsInit, CacheOK
<1> QED
  BY <1>1, <1>2, DnsAssumption
     DEF DnsInit, DnsInv, SyncOK, CallsOK, AskingOK, AskedSinceClear, PastOK, ClearedForGood, Announced

\* An empty cache is within its limit.
LEMMA EmptyCache ==
    ASSUME cache' = {} PROVE CacheOK' /\ ClearedForGood'
  BY FS_EmptySet, DnsAssumption DEF CacheOK, ClearedForGood

\* Every step keeps the invariant: the steps that change the records, or take a call.
LEMMA DnsInvRecords ==
    ASSUME DnsInv,
           \/ \E n \in LocalNames \cup {Wildcard} : AddRecord(n)
           \/ \E o \in {Edge, User} : RemoveByValue(o)
           \/ Reload \/ Stop
    PROVE  DnsInv'
<1>1. NetOK'
  BY RecordsChange DEF DnsInv
<1>2. missed' = TRUE /\ changes' \in 0..MaxChanges
  BY DnsAssumption DEF DnsInv, PastOK, AddRecord, RemoveByValue, Reload, Stop, Changes
<1>3. \/ UNCHANGED <<cache, asking>>
      \/ cache' = {} /\ asking' = {}
  BY DEF AddRecord, RemoveByValue, Reload, Stop, Clear, Exclusive
<1>4. CacheOK' /\ ClearedForGood' /\ AskingOK'
  BY <1>3, EmptyCache DEF DnsInv, CacheOK, ClearedForGood, AskingOK, AskedSinceClear
<1>5. SyncOK' /\ CallsOK' /\ (sync' = "call" => pending' # <<>>)
  <2>1. CASE UNCHANGED <<edge, pending>>
    BY <2>1 DEF DnsInv, SyncOK, CallsOK, Announced, edge
  <2>2. CASE Stop
    BY <2>2, DnsAssumption DEF DnsInv, SyncOK, CallsOK, Stop
  <2> QED
    BY <2>1, <2>2 DEF AddRecord, RemoveByValue, Reload
<1> QED
  BY <1>1, <1>2, <1>4, <1>5 DEF DnsInv, PastOK, Announced

\* The handler of a call: the names of the head are published, and the last call still waits or is it.
LEMMA DnsInvSetManaged ==
    ASSUME DnsInv, SetManaged PROVE DnsInv'
<1>1. pending # <<>> /\ Head(pending) \in SUBSET Names /\ pending \in Seq(SUBSET Names)
  BY DEF DnsInv, CallsOK, SetManaged
<1>2. NetOK' /\ Managed' = Head(pending)
  BY <1>1, ReplacedIs DEF DnsInv, NetOK, SetManaged
<1>3. CacheOK' /\ ClearedForGood' /\ AskingOK'
  BY EmptyCache DEF SetManaged, Clear, Exclusive, AskingOK, AskedSinceClear
<1>4. SyncOK' /\ PastOK' /\ UNCHANGED <<routes, permit, missed>>
  BY DEF DnsInv, SyncOK, PastOK, SetManaged
<1>5. pending' = Tail(pending) /\ pending' \in Seq(SUBSET Names) /\ Len(pending') = Len(pending) - 1
  BY <1>1 DEF SetManaged
<1>6. CallsOK'
  BY <1>1, <1>5, DnsAssumption DEF DnsInv, CallsOK
<1>7. pending' # <<>> => Len(pending') \in Nat \ {0} /\ pending'[Len(pending')] = pending[Len(pending)]
  BY <1>1, <1>5
<1>8. pending' = <<>> => Len(pending) = 1 /\ Head(pending) = pending[Len(pending)]
  <2>1. pending' = <<>> => Len(pending) = 1
    <3>1. pending' = <<>> => Len(pending') = 0
      BY EmptySeq
    <3> QED
      BY <1>1, <1>5, <3>1, LenProperties
  <2>2. Head(pending) = pending[1]
    BY <1>1
  <2> QED
    BY <2>1, <2>2
<1>9. sync' = (IF sync = "call" /\ Len(pending) = 1 THEN "wait" ELSE sync)
  BY DEF SetManaged
<1>10. RecordSet' = RecordSet
  BY <1>4 DEF RecordSet
<1>11. Announced'
  <2>1. sync' = "call" => pending' # <<>>
    BY <1>5, <1>8, <1>9 DEF DnsInv, SyncOK
  <2>2. ASSUME ~permit', ~missed', sync' # "debounce"
        PROVE  pending[Len(pending)] = RecordSet
    BY <1>1, <1>4, <1>9, <2>2 DEF DnsInv, Announced
  <2> QED
    BY <1>2, <1>7, <1>8, <1>10, <2>1, <2>2 DEF Announced
<1> QED
  BY <1>2, <1>3, <1>4, <1>6, <1>11 DEF DnsInv

\* The steps of hr-edge.
LEMMA DnsInvEdge ==
    ASSUME DnsInv,
           \/ \E n \in Names : SetRoute(n)
           \/ Periodic \/ Wake \/ Push \/ PushFails \/ CallTimesOut
    PROVE  DnsInv'
<1>1. UNCHANGED net
  BY DEF SetRoute, Periodic, Wake, Push, PushFails, CallTimesOut
<1>2. NetOK' /\ CacheOK' /\ AskingOK' /\ ClearedForGood' /\ Managed' = Managed
  BY <1>1 DEF net, DnsInv, NetOK, CacheOK, AskingOK, AskedSinceClear, ClearedForGood, Managed, Owns
<1>3. PastOK'
  <2>1. changes \in 0..MaxChanges /\ MaxChanges \in Nat
    BY DnsAssumption DEF DnsInv, PastOK
  <2>2. changes' = changes \/ (changes < MaxChanges /\ changes' = changes + 1)
    <3>1. ASSUME NEW n \in Names, SetRoute(n) PROVE changes < MaxChanges /\ changes' = changes + 1
      BY <3>1 DEF SetRoute, Changes
    <3>2. ASSUME Periodic \/ Wake \/ Push \/ PushFails \/ CallTimesOut PROVE UNCHANGED changes
      BY <3>2 DEF Periodic, Wake, Push, PushFails, CallTimesOut
    <3> QED
      BY <3>1, <3>2
  <2>3. missed' \in BOOLEAN
    BY DEF DnsInv, PastOK, SetRoute, Periodic, Wake, Push, PushFails, CallTimesOut
  <2> QED
    BY <2>1, <2>2, <2>3 DEF PastOK
<1>4. SyncOK'
  BY DEF DnsInv, SyncOK, SetRoute, Periodic, Wake, Push, PushFails, CallTimesOut
<1>5. CASE (\E n \in Names : SetRoute(n)) \/ Periodic \/ Wake \/ PushFails
  <2>1. UNCHANGED pending /\ (sync' = "call" => sync = "call")
    BY <1>5 DEF SetRoute, Periodic, Wake, PushFails
  <2>2. permit' \/ missed' \/ sync' = "debounce"
    BY <1>5 DEF SetRoute, Periodic, Wake, PushFails
  <2> QED
    BY <1>2, <1>3, <1>4, <2>1, <2>2 DEF DnsInv, CallsOK, Announced
<1>6. CASE CallTimesOut
  BY <1>2, <1>3, <1>4, <1>6 DEF DnsInv, CallsOK, Announced, CallTimesOut, RecordSet
<1>7. CASE Push
  <2>1. pending' = Append(pending, RecordSet) /\ RecordSet' = RecordSet /\ RecordSet \in SUBSET Names
    BY <1>7, NamesPublished DEF Push, RecordSet, DnsInv
  <2>2. pending \in Seq(SUBSET Names) /\ Len(pending) < MaxPending
    BY <1>7 DEF DnsInv, CallsOK, Push
  <2> HIDE DEF RecordSet
  <2>3. CallsOK' /\ pending' # <<>> /\ pending'[Len(pending')] = RecordSet'
    BY <2>1, <2>2, DnsAssumption DEF CallsOK
  <2> QED
    BY <1>2, <1>3, <1>4, <2>3 DEF DnsInv, Announced
<1> QED
  BY <1>5, <1>6, <1>7

\* The other steps of hr-netcore.
LEMMA DnsInvNet ==
    ASSUME DnsInv,
           \/ \E n \in Names : Ask(n)
           \/ \E q \in asking : Answer(q)
           \/ \E e \in cache : EntryExpires(e)
           \/ PurgeExpired \/ Start
    PROVE  DnsInv'
<1>1. UNCHANGED <<edge, pending, records, changes, missed>>
  BY DEF Ask, Answer, EntryExpires, PurgeExpired, Start
<1>2. CacheOK' /\ ClearedForGood' /\ AskingOK'
  <2>1. ASSUME NEW n \in Names, Ask(n) PROVE CacheOK' /\ ClearedForGood' /\ AskingOK'
    <3>1. cache' = cache /\ asking' = asking \cup {[name |-> n, stale |-> FALSE]}
      BY <2>1 DEF Ask
    <3>2. [name |-> n, stale |-> FALSE] \in [name : Names, stale : BOOLEAN]
      OBVIOUS
    <3> QED
      BY <3>1, <3>2 DEF DnsInv, CacheOK, ClearedForGood, AskingOK, AskedSinceClear
  <2>2. CASE Start
    BY <2>2 DEF Start, DnsInv, CacheOK, ClearedForGood, AskingOK, AskedSinceClear
  <2> QED
    BY <2>1, <2>2, CacheSteps DEF DnsInv
<1>3. up' \in BOOLEAN
  BY DEF DnsInv, NetOK, Ask, Answer, EntryExpires, PurgeExpired, Start
<1>4. Managed' = Managed /\ RecordSet' = RecordSet
  BY <1>1 DEF edge, Managed, Owns, RecordSet
<1> QED
  BY <1>1, <1>2, <1>3, <1>4
     DEF edge, DnsInv, SyncOK, CallsOK, NetOK, PastOK, Announced

LEMMA DnsInvNext == DnsInv /\ [DnsNext]_dnsVars => DnsInv'
<1>1. ASSUME DnsInv, DnsNext PROVE DnsInv'
  BY <1>1, DnsInvRecords, DnsInvSetManaged, DnsInvEdge, DnsInvNet DEF DnsNext
<1>2. ASSUME DnsInv, UNCHANGED dnsVars PROVE DnsInv'
  BY <1>2
     DEF dnsVars, edge, net, DnsInv, SyncOK, CallsOK, NetOK, CacheOK, AskingOK, AskedSinceClear,
         PastOK, ClearedForGood, Announced, Managed, Owns, RecordSet
<1> QED
  BY <1>1, <1>2

\* In an ordered list the user's record is the first.
LEMMA UserIsFirst ==
    ASSUME NEW q \in UserFirst, \E i \in DOMAIN q : q[i] = User
    PROVE  q # <<>> /\ Head(q) = User
  BY TwoOwners DEF UserFirst

\* The answers are those of the records, for any names and any limits: the user's record wins, a
\* cleared cache stays clear of what was asked before, and at rest the routes are published.
THEOREM AnswersStayRight == DnsSpec => []AnswersAreRight
<1>1. DnsInv => UserRecordWins
  <2> SUFFICES ASSUME DnsInv, NEW n \in Names \ Hosts, Owns(User, n) PROVE Resolution(n) = User
    BY DEF UserRecordWins
  <2>1. records[n] # <<>> /\ Head(records[n]) = User
    BY UserIsFirst DEF DnsInv, NetOK, Owns
  <2> QED
    BY <2>1 DEF Resolution, IsStatic, StaticAnswer, Has
<1>2. DnsInv => ClearedForGood /\ QuietMeansPublished
  BY DEF DnsInv, Announced, QuietMeansPublished
<1> QED
  BY <1>1, <1>2, DnsInvInit, DnsInvNext, PTL DEF DnsSpec, AnswersAreRight

\* Every name, record, call, query and entry keeps its type, and the cache its limit.
THEOREM DnsKeepsTypes == DnsSpec => []DnsTypeOK
<1>1. DnsInv => DnsTypeOK
  BY DEF DnsInv, DnsTypeOK, SyncOK, CallsOK, NetOK, CacheOK, AskingOK, PastOK, UserFirst, OwnerLists,
         EntryType
<1> QED
  BY <1>1, DnsInvInit, DnsInvNext, PTL DEF DnsSpec
-----------------------------------------------------------------------------
(* The supervision of a service (module ServiceSupervisor). *)

\* While no run was short the counter says at most one, because every failure starts it anew.
CountsAnew ==
    ~flaky => retries <= 1 /\ (pc = "judge" => longRun)

ServiceInv == ServiceTypeOK /\ CountsAnew /\ RestartPolicy

\* The counter stays within its type, and is one after a long run.
LEMMA TriesCount ==
    ASSUME ServiceTypeOK
    PROVE  /\ Tries \in 0 .. Saturation
           /\ longRun => Tries = 1
           /\ Exceeded(Tries) => priority = "important" /\ Tries > ImportantRetries
<1>1. retries \in 0 .. Saturation /\ Saturation \in Nat \ {0} /\ ImportantRetries \in Nat \ {0}
  BY ServiceAssumption DEF ServiceTypeOK
<1>2. Tries \in 0 .. Saturation /\ (longRun => Tries = 1)
  BY <1>1 DEF Tries, Counted
<1>3. ~(Tries > Saturation)
  BY <1>1, <1>2
<1> QED
  BY <1>2, <1>3 DEF Exceeded, MaxRetries, ServiceTypeOK

\* The first run starts with a counter of zero.
LEMMA ServiceInvInit == ServiceInit => ServiceInv
<1> SUFFICES ASSUME ServiceInit PROVE ServiceInv
  OBVIOUS
<1>1. 0 \in 0 .. Saturation
  BY ServiceAssumption
<1>2. ServiceTypeOK
  BY <1>1 DEF ServiceInit, ServiceTypeOK
<1>3. CountsAnew /\ RestartPolicy
  BY DEF ServiceInit, CountsAnew, RestartPolicy
<1> QED
  BY <1>2, <1>3 DEF ServiceInv

\* Every step of the loop, and every end of a run, keeps the invariant.
LEMMA ServiceInvStep == ServiceInv /\ [ServiceNext]_serviceVars => ServiceInv'
<1> SUFFICES ASSUME ServiceInv, [ServiceNext]_serviceVars PROVE ServiceInv'
  OBVIOUS
<1> USE DEF ServiceInv, ServiceTypeOK, CountsAnew, RestartPolicy
<1>1. CASE MarkRunning
  BY <1>1 DEF MarkRunning
<1>2. ASSUME NEW long \in BOOLEAN, Fails(long) PROVE ServiceInv'
  <2>1. flaky' \in BOOLEAN /\ (~flaky' => ~flaky /\ long)
    BY <1>2 DEF Fails
  <2> QED
    BY <1>2, <2>1 DEF Fails
<1>3. CASE EndsCleanly
  BY <1>3 DEF EndsCleanly
<1>4. CASE GiveUp
  <2>1. /\ Tries \in 0 .. Saturation /\ priority = "important" /\ Tries > ImportantRetries
        /\ longRun => Tries = 1
    BY <1>4, TriesCount DEF GiveUp
  <2>2. flaky
    BY <1>4, <2>1, ServiceAssumption DEF GiveUp
  <2> QED
    BY <1>4, <2>1, <2>2 DEF GiveUp
<1>5. CASE BackOff
  <2>1. Tries \in 0 .. Saturation /\ (longRun => Tries = 1)
    BY TriesCount
  <2> QED
    BY <1>5, <2>1 DEF BackOff
<1>6. CASE WakeUp
  BY <1>6 DEF WakeUp, entry
<1>7. CASE UNCHANGED serviceVars
  BY <1>7 DEF serviceVars, loop, entry
<1> QED
  BY <1>1, <1>2, <1>3, <1>4, <1>5, <1>6, <1>7 DEF ServiceNext, LoopStep

\* Neither the counter nor the number shown leaves its type, however often the service fails.
THEOREM ServiceTypes == ServiceSpec => []ServiceTypeOK
<1>1. ServiceInv => ServiceTypeOK
  BY DEF ServiceInv
<1> QED
  BY <1>1, ServiceInvInit, ServiceInvStep, PTL DEF ServiceSpec

\* Whatever the limits: a critical service is never given up, and an important one only after a
\* failure within a minute of its start.
THEOREM ServicesAreNotGivenUp == ServiceSpec => []RestartPolicy
<1>1. ServiceInv => RestartPolicy
  BY DEF ServiceInv
<1> QED
  BY <1>1, ServiceInvInit, ServiceInvStep, PTL DEF ServiceSpec
================================================================================
