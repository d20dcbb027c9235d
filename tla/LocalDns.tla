------------------------------- MODULE LocalDns -------------------------------
(***************************************************************************)
(* How the names of the reverse proxy's routes reach the resolver of the   *)
(* local network.  hr-edge signals every change of its routes and pushes   *)
(* the whole set of names, debounced, to hr-netcore (dns_route_sync.rs);   *)
(* hr-netcore replaces the records of that owner among its static records, *)
(* which it keeps in memory only, and clears its cache (handler.rs,        *)
(* hr-dns).  The resolver answers from leases, static records, the block   *)
(* list, the cache or an upstream server (resolver.rs, cache.rs).          *)
(*                                                                         *)
(* A handler that changes the records takes the write lock of the DNS      *)
(* state; a query holds the read lock until the upstream has answered.     *)
(* An IPC call gives up after 2 s, but its handler goes on waiting for the *)
(* lock.  Records are A records; a record's value follows from its owner,  *)
(* so that the records of one name and one owner stand as one.             *)
(***************************************************************************)
EXTENDS Integers, Sequences, FiniteSets

CONSTANTS
    LocalNames, DeepNames, ExternalNames,  \* one label under the local domain; three or more; others
    Builtins,       \* proxy., auth. and dv., which are always published
    Hosts,          \* the local names that DHCP clients have
    Blocked,        \* the external names on the block list
    Wildcard,       \* the name "*." of the static wildcard record, not a LocalName
    FileRecords,    \* the static records of the configuration file
    WildcardIp,     \* whether wildcard_ipv4 is set
    CacheSize,      \* max_size of the cache
    MaxQueries, MaxPending, MaxChanges   \* bounds: queries in flight, calls waiting, changes made

Edge == "hr-edge"
User == "user"
Names == LocalNames \cup DeepNames \cup ExternalNames

\* The names are of three kinds, the wildcard is none of them; the file holds the user's records,
\* those of hr-edge are kept in memory only.
ASSUME DnsAssumption ==
    /\ LocalNames \cap (DeepNames \cup ExternalNames) = {} /\ DeepNames \cap ExternalNames = {}
    /\ Wildcard \notin Names /\ Builtins \subseteq LocalNames \cup DeepNames
    /\ FileRecords \in [Names \cup {Wildcard} -> {<<>>, <<User>>}]
    /\ CacheSize \in Nat \ {0}
    /\ MaxQueries \in Nat /\ MaxPending \in Nat /\ MaxChanges \in Nat

VARIABLES
    routes,         \* hr-edge: the domains of the manual and the application routes
    permit,         \* the permit stored in the Notify
    sync,           \* where the loop of DnsRouteSync is
    pending,        \* hr-netcore: the calls that wait for the write lock, in its order
    up,             \* whether hr-netcore runs
    records,        \* static_records: the owners of the records of each name, in their order
    cache,          \* the cache entries
    asking,         \* the queries that wait for the upstream
    changes,        \* history: how many changes there have been
    missed          \* history: records were lost after the last wake-up of the loop

edge == <<routes, permit, sync>>
net  == <<up, records, cache, asking>>
dnsVars == <<edge, pending, net, changes, missed>>

\* Whether o has a record of the name n.
Owns(o, n) == \E i \in DOMAIN records[n] : records[n][i] = o

\* build_record_set: the external and the apex names are left out.
RecordSet == Builtins \cup {n \in routes : n \in LocalNames \cup DeepNames}
Managed == {n \in Names \cup {Wildcard} : Owns(Edge, n)}

DnsInit ==
    /\ routes = {} /\ permit = TRUE /\ sync = "wait"
    /\ pending = <<>> /\ up = TRUE
    /\ records = FileRecords /\ cache = {} /\ asking = {}
    /\ changes = 0 /\ missed = TRUE

Changes == changes < MaxChanges /\ changes' = changes + 1

-----------------------------------------------------------------------------
(* resolve, for A records: the first source that knows the name decides.   *)

Has(n) == records[n] # <<>>

\* An exact match goes before the wildcard.
IsStatic(n) == Has(n) \/ (n \in LocalNames /\ Has(Wildcard))
StaticAnswer(n) == Head(records[IF Has(n) THEN n ELSE Wildcard])

\* A deep name is one that a client has put its search domain behind.
LocalAnswer(n) == IF n \in LocalNames /\ WildcardIp THEN "wildcard" ELSE "nxdomain"

ForeignAnswer(n) == IF n \in Blocked THEN "blocked" ELSE "upstream"

Resolution(n) ==
    IF n \in Hosts THEN "lease"
    ELSE IF IsStatic(n) THEN StaticAnswer(n)
    ELSE IF n \in ExternalNames THEN ForeignAnswer(n)
    ELSE LocalAnswer(n)

Entry(n, stale) == [name |-> n, expired |-> FALSE, stale |-> stale]
Unexpired == {e \in cache : ~e.expired}
Cached(n) == \E e \in Unexpired : e.name = n

\* Mutant: expired entries make room, live ones do not.
Inserted_ExpiredOnly(n, stale) ==
    LET live == IF Cardinality(cache) >= CacheSize THEN Unexpired ELSE cache
    IN {{e \in live : e.name # n} \cup {Entry(n, stale)}}

\* insert, insert_negative: at capacity the expired entries go, then one more - the oldest, which is
\* left open here -, even when the name is there already.
Inserted(n, stale) ==
    LET live == IF Cardinality(cache) >= CacheSize THEN Unexpired ELSE cache
        room == IF Cardinality(live) >= CacheSize THEN {live \ {e} : e \in live} ELSE {live}
    IN {{e \in kept : e.name # n} \cup {Entry(n, stale)} : kept \in room}

Ask(n) ==
    /\ up /\ Cardinality(asking) < MaxQueries
    /\ Resolution(n) = "upstream" /\ ~Cached(n)
    /\ asking' = asking \cup {[name |-> n, stale |-> FALSE]}
    /\ UNCHANGED <<edge, pending, up, records, cache, changes, missed>>

\* An answer, or a refusal with a SOA record, is cached unless its TTL is 0.
Answer(q) ==
    /\ q \in asking
    /\ asking' = asking \ {q}
    /\ cache' \in {cache} \cup Inserted(q.name, q.stale)
    /\ UNCHANGED <<edge, pending, up, records, changes, missed>>

EntryExpires(e) ==
    /\ e \in cache
    /\ cache' = (cache \ {e}) \cup {[e EXCEPT !.expired = TRUE]}
    /\ UNCHANGED <<edge, pending, up, records, asking, changes, missed>>

PurgeExpired ==
    /\ up
    /\ cache' = Unexpired
    /\ UNCHANGED <<edge, pending, up, records, asking, changes, missed>>

-----------------------------------------------------------------------------
(* The handlers of hr-netcore that change the records.                     *)

\* The write lock: no query holds the read lock.
Exclusive == up /\ asking = {}

\* What a clear would leave behind if a query were in flight.
Clear == /\ cache' = {}
         /\ asking' = {[name |-> q.name, stale |-> TRUE] : q \in asking}

\* The records of a name but those of one owner.
Without(owners, o) ==
    IF owners \in {<<>>, <<o>>} THEN <<>> ELSE <<IF o = Edge THEN User ELSE Edge>>

\* Mutant: the managed records come first.
Replaced_First(names) ==
    [n \in DOMAIN records |-> (IF n \in names THEN <<Edge>> ELSE <<>>) \o Without(records[n], Edge)]

\* Mutant: the names that are gone stay.
Replaced_Adds(names) ==
    [n \in DOMAIN records |->
        Without(records[n], Edge) \o (IF n \in names \/ Owns(Edge, n) THEN <<Edge>> ELSE <<>>)]

\* replace_managed_in
Replaced(names) ==
    [n \in DOMAIN records |-> Without(records[n], Edge) \o (IF n \in names THEN <<Edge>> ELSE <<>>)]

\* Mutant: the permit is taken when the call has returned, with what was signalled meanwhile.
SetManaged_TakesPermit ==
    /\ Exclusive /\ pending # <<>>
    /\ records' = Replaced(Head(pending))
    /\ Clear
    /\ pending' = Tail(pending)
    /\ sync' = IF sync = "call" /\ Len(pending) = 1 THEN "wait" ELSE sync
    /\ permit' = (permit /\ sync' = sync)
    /\ UNCHANGED <<routes, up, changes, missed>>

\* Mutant: the handler does not wait for the queries that are being forwarded.
SetManaged_Unlocked ==
    /\ up /\ pending # <<>>
    /\ records' = Replaced(Head(pending))
    /\ Clear
    /\ pending' = Tail(pending)
    /\ sync' = IF sync = "call" /\ Len(pending) = 1 THEN "wait" ELSE sync
    /\ UNCHANGED <<routes, permit, up, changes, missed>>

SetManaged ==
    /\ Exclusive /\ pending # <<>>
    /\ records' = Replaced(Head(pending))
    /\ Clear
    /\ pending' = Tail(pending)
    /\ sync' = IF sync = "call" /\ Len(pending) = 1 THEN "wait" ELSE sync
    /\ UNCHANGED <<routes, permit, up, changes, missed>>

\* add_static_record: a record of that name and type goes, whoever owns it.
AddRecord(n) ==
    /\ Exclusive /\ Changes
    /\ records' = [records EXCEPT ![n] = <<User>>]
    /\ missed' = TRUE
    /\ UNCHANGED <<edge, pending, up, cache, asking>>

RemoveByValue(o) ==
    /\ Exclusive /\ Changes
    /\ records' = [n \in DOMAIN records |-> Without(records[n], o)]
    /\ missed' = TRUE
    /\ UNCHANGED <<edge, pending, up, cache, asking>>

\* handle_reload_config: the records of the file replace all others.
Reload ==
    /\ Exclusive /\ Changes
    /\ records' = FileRecords
    /\ Clear
    /\ missed' = TRUE
    /\ UNCHANGED <<edge, pending, up>>

Stop ==
    /\ up /\ Changes
    /\ up' = FALSE
    /\ pending' = <<>> /\ asking' = {} /\ cache' = {} /\ records' = FileRecords
    /\ sync' = IF sync = "call" THEN "wait" ELSE sync
    /\ missed' = TRUE
    /\ UNCHANGED <<routes, permit>>

Start ==
    /\ ~up
    /\ up' = TRUE
    /\ UNCHANGED <<edge, pending, records, cache, asking, changes, missed>>

-----------------------------------------------------------------------------
(* hr-edge: the routes and the loop of DnsRouteSync.                       *)

SetRoute(n) ==
    /\ Changes
    /\ routes' \in {routes \cup {n}, routes \ {n}}
    /\ permit' = TRUE
    /\ UNCHANGED <<sync, pending, net, missed>>

\* Mutant: the timer passes without a signal.
Periodic_NoSignal == UNCHANGED dnsVars

Periodic ==
    /\ permit' = TRUE
    /\ UNCHANGED <<routes, sync, pending, net, changes, missed>>

Wake ==
    /\ sync = "wait" /\ permit
    /\ permit' = FALSE
    /\ sync' = "debounce"
    /\ missed' = FALSE
    /\ UNCHANGED <<routes, pending, net, changes>>

Push ==
    /\ sync = "debounce" /\ up /\ Len(pending) < MaxPending
    /\ pending' = Append(pending, RecordSet)
    /\ sync' = "call"
    /\ UNCHANGED <<routes, permit, net, changes, missed>>

PushFails ==
    /\ sync = "debounce" /\ ~up
    /\ sync' = "wait"
    /\ missed' = TRUE
    /\ UNCHANGED <<routes, permit, pending, net, changes>>

CallTimesOut ==
    /\ sync = "call" /\ asking # {}
    /\ sync' = "wait"
    /\ UNCHANGED <<routes, permit, pending, net, changes, missed>>

-----------------------------------------------------------------------------
DnsNext ==
    \/ \E n \in Names : Ask(n) \/ SetRoute(n)
    \/ \E q \in asking : Answer(q)
    \/ \E e \in cache : EntryExpires(e)
    \/ \E n \in LocalNames \cup {Wildcard} : AddRecord(n)
    \/ \E o \in {Edge, User} : RemoveByValue(o)
    \/ PurgeExpired \/ SetManaged \/ Reload \/ Stop \/ Start
    \/ Periodic \/ Wake \/ Push \/ PushFails \/ CallTimesOut

\* The loop and the timer of DnsRouteSync run, upstream queries end (each has a timeout), systemd
\* restarts hr-netcore, and the RwLock is fair: a handler that waits for it gets it although new
\* queries keep coming.
DnsFairness ==
    /\ WF_dnsVars(Periodic) /\ WF_dnsVars(Wake) /\ WF_dnsVars(Push) /\ WF_dnsVars(PushFails)
    /\ WF_dnsVars(\E q \in asking : Answer(q)) /\ WF_dnsVars(Start)
    /\ SF_dnsVars(SetManaged)

DnsSpec == DnsInit /\ [][DnsNext]_dnsVars /\ DnsFairness

-----------------------------------------------------------------------------
OwnerLists == {<<>>, <<User>>, <<Edge>>, <<User, Edge>>, <<Edge, User>>}

DnsTypeOK ==
    /\ routes \subseteq Names /\ permit \in BOOLEAN /\ sync \in {"wait", "debounce", "call"}
    /\ pending \in Seq(SUBSET Names) /\ Len(pending) <= MaxPending
    /\ up \in BOOLEAN
    /\ records \in [Names \cup {Wildcard} -> OwnerLists]
    /\ cache \subseteq [name : Names, expired : BOOLEAN, stale : BOOLEAN]
    /\ Cardinality(cache) <= CacheSize
    /\ asking \subseteq [name : Names, stale : BOOLEAN]
    /\ changes \in 0..MaxChanges /\ missed \in BOOLEAN

\* A name the user has a record for is answered from it, in whatever order the user and the
\* synchronisation have written records of that name.
UserRecordWins ==
    \A n \in Names \ Hosts :
        Owns(User, n) => Resolution(n) = User

\* Nothing that was asked for before the cache was cleared is in the cache afterwards.
ClearedForGood == \A e \in cache : ~e.stale

\* When the loop sleeps, no call is under way and hr-netcore has not lost records since it woke up,
\* the published names are those of the routes: no signal is lost in the debounce or during a call.
QuietMeansPublished ==
    (sync = "wait" /\ ~permit /\ pending = <<>> /\ ~missed) => Managed = RecordSet

\* The names of the routes, and only they, resolve here, but where the user has a record of the name.
RoutesResolve ==
    /\ up
    /\ \A n \in Names \ Hosts :
        (Resolution(n) = Edge) <=> (n \in RecordSet /\ ~Owns(User, n))

\* What the records and the cache answer: the user's records first, nothing from before a clear, and
\* at rest the names of the routes.
AnswersAreRight == UserRecordWins /\ ClearedForGood /\ QuietMeansPublished
=============================================================================
