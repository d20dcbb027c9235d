--------------------------- MODULE PrefixDelegation ---------------------------
(***************************************************************************)
(* The IPv6 prefix of the home network.  A DHCPv6 client obtains a prefix  *)
(* from the provider and publishes it on a watch channel (pd_client.rs);   *)
(* the sender of router advertisements takes it from there, gives the LAN  *)
(* interface an address in it and announces it to the hosts (ra.rs).  Both *)
(* are tasks of hr-netcore.  The client keeps its lease in a file.         *)
(*                                                                         *)
(* A lease is a prefix and an age: fresh, due for renewal, or over.  Time  *)
(* is the action that ages one.  A publication and the save after it have  *)
(* no await between them, nor have a look at the channel and what is done  *)
(* with it, as far as anybody else can see.                                *)
(***************************************************************************)
EXTENDS Integers, Sequences

CONSTANTS
    Prefixes,      \* what the provider delegates
    MaxLeases,     \* bound: how many leases it grants
    MaxCrashes     \* bound: how often hr-netcore restarts

VARIABLES
    leases,        \* the leases granted so far, each a prefix and an age
    fsm, held,     \* the client: its state and the lease it carries, 0 without one
    saved,         \* the lease in the file, or 0
    published,     \* the watch channel: a prefix or NoPrefix
    unseen,        \* whether the receiver has something new
    ra,            \* the sender: what it does next
    last,          \* last_gua
    lan,           \* the prefixes in which the interface has an address
    hosts,         \* the prefixes the hosts take for valid
    crashes,
    overtaken,     \* history: a change came while the sender was busy
    leftover,      \* history: a restart found an address on the interface
    replaced       \* history: the prefixes that gave way to another one

client == <<leases, fsm, held, saved>>
sender == <<ra, last, lan, hosts>>
history == <<crashes, overtaken, leftover, replaced>>
vars == <<client, published, unseen, sender, history>>

NoPrefix == "none"
Fresh == 0
Due == 1
Over == 2

Prefix(l) == leases[l].prefix
Age(l) == leases[l].age

Init ==
    /\ leases = <<>> /\ fsm = "init" /\ held = 0 /\ saved = 0
    /\ published = NoPrefix /\ unseen = FALSE
    /\ ra = "start" /\ last = NoPrefix /\ lan = {} /\ hosts = {}
    /\ crashes = 0 /\ overtaken = FALSE /\ leftover = FALSE /\ replaced = {}

\* A send on the watch channel: the receiver sees that there is something new, not how much.
Send(p) ==
    /\ published' = p
    /\ unseen' = TRUE
    /\ overtaken' = (overtaken \/ (p # published /\ ra # "wait"))

-----------------------------------------------------------------------------
(* The client.                                                             *)

LoadValid ==
    /\ fsm = "init" /\ saved # 0 /\ Age(saved) # Over
    /\ held' = saved
    /\ Send(Prefix(saved))
    /\ fsm' = "renewing"
    /\ UNCHANGED <<leases, saved, sender, crashes, leftover, replaced>>

LoadNothing ==
    /\ fsm = "init" /\ (saved # 0 => Age(saved) = Over)
    /\ fsm' = "soliciting"
    /\ UNCHANGED <<leases, held, saved, published, unseen, sender, history>>

\* An exchange that fails, or an answer without what it needs, is repeated after a while.
Advertised ==
    /\ fsm = "soliciting"
    /\ fsm' = "requesting"
    /\ UNCHANGED <<leases, held, saved, published, unseen, sender, history>>

RequestFails ==
    /\ fsm = "requesting"
    /\ fsm' = "soliciting"
    /\ UNCHANGED <<leases, held, saved, published, unseen, sender, history>>

\* A REPLY with a prefix that is valid: process_reply, publish_prefix and save, which may fail.
Granted(p) ==
    /\ fsm \in {"requesting", "renewing", "rebind"} /\ Len(leases) < MaxLeases
    /\ leases' = Append(leases, [prefix |-> p, age |-> Fresh])
    /\ held' = Len(leases')
    /\ saved' \in {saved, held'}
    /\ Send(p)
    /\ fsm' = "bound"
    /\ UNCHANGED <<sender, crashes, leftover, replaced>>

T1Reached ==
    /\ fsm = "bound" /\ Age(held) # Fresh
    /\ fsm' = "renewing"
    /\ UNCHANGED <<leases, held, saved, published, unseen, sender, history>>

RenewFails ==
    /\ fsm = "renewing"
    /\ fsm' = "rebinding"
    /\ UNCHANGED <<leases, held, saved, published, unseen, sender, history>>

\* Mutant: the lease is given up, the prefix stays published.
RebindExpired_KeepsPrefix ==
    /\ fsm = "rebinding" /\ Age(held) = Over
    /\ held' = 0
    /\ fsm' = "soliciting"
    /\ UNCHANGED <<leases, saved, published, unseen, sender, history>>

RebindExpired ==
    /\ fsm = "rebinding" /\ Age(held) = Over
    /\ Send(NoPrefix)
    /\ held' = 0
    /\ fsm' = "soliciting"
    /\ UNCHANGED <<leases, saved, sender, crashes, leftover, replaced>>

RebindTries ==
    /\ fsm = "rebinding" /\ Age(held) # Over
    /\ fsm' = "rebind"
    /\ UNCHANGED <<leases, held, saved, published, unseen, sender, history>>

\* Mutant: a rebinding that fails is tried again without a look at the clock.
RebindFails_TriesAgain ==
    /\ fsm = "rebind"
    /\ UNCHANGED vars

RebindFails ==
    /\ fsm = "rebind"
    /\ fsm' = "rebinding"
    /\ UNCHANGED <<leases, held, saved, published, unseen, sender, history>>

\* Time, for one lease.
GrowsOld(l) ==
    /\ l \in DOMAIN leases /\ Age(l) # Over
    /\ leases' = [leases EXCEPT ![l].age = @ + 1]
    /\ UNCHANGED <<fsm, held, saved, published, unseen, sender, history>>

-----------------------------------------------------------------------------
(* The sender of router advertisements.                                    *)

AddressOf(p) == {p} \ {NoPrefix}

\* The prefix there is at the start: the interface gets an address.
RaStart ==
    /\ ra = "start"
    /\ lan' = lan \cup AddressOf(published)
    /\ ra' = "top"
    /\ UNCHANGED <<client, published, unseen, last, hosts, history>>

\* The top of the loop: announce what is published now.
RaTop ==
    /\ ra = "top"
    /\ hosts' = hosts \cup AddressOf(published)
    /\ last' = published
    /\ ra' = "wait"
    /\ UNCHANGED <<client, published, unseen, lan, history>>

\* When a change comes at the same moment, either may win.
RaTimer ==
    /\ ra = "wait"
    /\ ra' = "top"
    /\ overtaken' = (overtaken \/ (unseen /\ published # last))
    /\ UNCHANGED <<client, published, unseen, last, lan, hosts, crashes, leftover, replaced>>

\* Mutant: the old prefix is removed only when there is no new one.
RaChanged_KeepsOld ==
    /\ ra = "wait" /\ unseen
    /\ unseen' = FALSE
    /\ lan' = IF published = NoPrefix THEN lan \ {last} ELSE lan \cup {published}
    /\ hosts' = IF published = NoPrefix THEN hosts \ {last} ELSE hosts
    /\ replaced' = IF published = NoPrefix THEN replaced ELSE replaced \cup AddressOf(last)
    /\ ra' = "rapid1"
    /\ UNCHANGED <<client, published, last, crashes, overtaken, leftover>>

\* Mutant: a prefix that is withdrawn is only taken off the interface.
RaChanged_NoDeprecation ==
    /\ ra = "wait" /\ unseen
    /\ unseen' = FALSE
    /\ lan' = IF published = last THEN lan ELSE (lan \ {last}) \cup AddressOf(published)
    /\ hosts' = hosts
    /\ replaced' = IF published \in {last, NoPrefix} THEN replaced ELSE replaced \cup AddressOf(last)
    /\ ra' = "rapid1"
    /\ UNCHANGED <<client, published, last, crashes, overtaken, leftover>>

\* A change is compared with what the top of the loop announced.  A prefix that is withdrawn is
\* announced once more, with no lifetime.  Three advertisements follow.
RaChanged ==
    /\ ra = "wait" /\ unseen
    /\ unseen' = FALSE
    /\ lan' = IF published = last THEN lan ELSE (lan \ {last}) \cup AddressOf(published)
    /\ hosts' = IF published = NoPrefix THEN hosts \ {last} ELSE hosts
    /\ replaced' = IF published \in {last, NoPrefix} THEN replaced ELSE replaced \cup AddressOf(last)
    /\ ra' = "rapid1"
    /\ UNCHANGED <<client, published, last, crashes, overtaken, leftover>>

AfterRapid == [rapid1 |-> "rapid2", rapid2 |-> "rapid3", rapid3 |-> "top"]

RaRapid ==
    /\ ra \in DOMAIN AfterRapid
    /\ hosts' = hosts \cup AddressOf(published)
    /\ ra' = AfterRapid[ra]
    /\ UNCHANGED <<client, published, unseen, last, lan, history>>

\* The lifetime of a prefix that is announced no more ends in the hosts.
HostsForget(p) ==
    /\ p \in hosts \ {published}
    /\ hosts' = hosts \ {p}
    /\ UNCHANGED <<client, published, unseen, ra, last, lan, history>>

\* hr-netcore dies and starts again: the channel is new, the interface keeps its addresses.
Crash ==
    /\ crashes < MaxCrashes /\ crashes' = crashes + 1
    /\ fsm' = "init" /\ held' = 0
    /\ published' = NoPrefix /\ unseen' = FALSE
    /\ ra' = "start" /\ last' = NoPrefix
    /\ leftover' = (leftover \/ lan \cup hosts # {})
    /\ UNCHANGED <<leases, saved, lan, hosts, overtaken, replaced>>

-----------------------------------------------------------------------------
ClientStep ==
    \/ LoadValid \/ LoadNothing \/ Advertised \/ RequestFails \/ T1Reached
    \/ RenewFails \/ RebindExpired \/ RebindTries \/ RebindFails
    \/ \E p \in Prefixes : Granted(p)

SenderStep == RaStart \/ RaTop \/ RaTimer \/ RaChanged \/ RaRapid

Next ==
    \/ ClientStep
    \/ SenderStep
    \/ \E l \in 1..MaxLeases : GrowsOld(l)
    \/ \E p \in Prefixes : HostsForget(p)
    \/ Crash

\* Both tasks run, every exchange ends (at most ten attempts with a timeout each) and time passes.
Fairness ==
    /\ WF_vars(ClientStep)
    /\ WF_vars(SenderStep)
    /\ \A l \in 1..MaxLeases : WF_vars(GrowsOld(l))

Spec == Init /\ [][Next]_vars /\ Fairness

-----------------------------------------------------------------------------
TypeOK ==
    /\ leases \in Seq([prefix : Prefixes, age : Fresh..Over]) /\ Len(leases) <= MaxLeases
    /\ fsm \in {"init", "soliciting", "requesting", "bound", "renewing", "rebinding", "rebind"}
    /\ held \in 0..Len(leases) /\ saved \in 0..Len(leases)
    /\ published \in Prefixes \cup {NoPrefix} /\ unseen \in BOOLEAN
    /\ ra \in {"start", "top", "wait"} \cup DOMAIN AfterRapid
    /\ last \in Prefixes \cup {NoPrefix}
    /\ lan \subseteq Prefixes /\ hosts \subseteq Prefixes
    /\ crashes \in 0..MaxCrashes
    /\ overtaken \in BOOLEAN /\ leftover \in BOOLEAN /\ replaced \subseteq Prefixes

\* A prefix is published exactly while the client carries a lease of it, whichever way the lease was
\* obtained, renewed, read from the file or given up.
PublishedIsHeld == published = IF held = 0 THEN NoPrefix ELSE Prefix(held)

\* A prefix whose lease is over is withdrawn or renewed in the end: no way round the states of the
\* client misses the look at the clock.
ExpiredIsWithdrawn == []<>(held = 0 \/ Age(held) # Over)

Resting == ra = "wait" /\ ~unseen

\* When the sender waits and has seen all, and nothing was published while it was busy, the interface
\* has an address in the published prefix and in no other, whatever came before on the channel.
LanFollows == (Resting /\ ~overtaken /\ ~leftover) => lan = AddressOf(published)

\* Then the hosts take no prefix for valid that was withdrawn, only one that gave way to another.
HostsFollow ==
    (Resting /\ ~overtaken /\ ~leftover) => hosts \subseteq AddressOf(published) \cup replaced

\* From the lease to the hosts: what is published is held, the interface follows, and so do the hosts.
PrefixIsFollowed == PublishedIsHeld /\ LanFollows /\ HostsFollow
=============================================================================
