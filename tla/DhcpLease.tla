------------------------------ MODULE DhcpLease ------------------------------
(***************************************************************************)
(* The DHCP server of hr-netcore (crates/netcore/hr-dhcp/src): the lease   *)
(* store with its index by MAC (lease_store.rs), the handlers of the       *)
(* messages (state_machine.rs) and the task that purges and saves the      *)
(* leases (hr-netcore/src/main.rs).  A handler runs under the write lock   *)
(* of the whole DHCP state, so that each is one action.                    *)
(*                                                                         *)
(* The clients are not in this repository: they follow RFC 2131 as the     *)
(* server's handlers expect of them.  The server may take the last message *)
(* of a client any number of times, or never: messages are lost, delayed   *)
(* and repeated, but not taken after the client has sent a later one.      *)
(*                                                                         *)
(* Time: a lease has a term instead of a date of expiry.  Left out: the    *)
(* index by host name, the copy of the leases for the DNS server, messages *)
(* that change nothing (INFORM, those for another server) and a change of  *)
(* the configuration, which the server reads only when it starts.          *)
(***************************************************************************)
EXTENDS Integers, FiniteSets

CONSTANTS Macs,                 \* the clients, by MAC
          RangeStart, RangeEnd, \* the pool of addresses
          Configs               \* the static leases a configuration may have: MAC -> address

ASSUME DhcpAssumption ==
    /\ RangeStart \in Nat \ {0} /\ RangeEnd \in Nat
    /\ \A c \in Configs :
          /\ DOMAIN c \subseteq Macs /\ \A m \in DOMAIN c : c[m] \in Nat \ {0}
          /\ \A m, n \in DOMAIN c : c[m] = c[n] => m = n

VARIABLES
    static,     \* the static leases, read from the configuration when the server starts
    leases,     \* address -> the MAC it is leased to and the term of the lease
    byMac,      \* the index: MAC -> address
    held,       \* the declined addresses whose hold has not ended
    file,       \* the leases in the lease file
    up,         \* of each client: the last message it sent
    down,       \* of each client: the reply on its way
    client,     \* of each client: its state and the address it holds or asks for
    unsaved,    \* history: the MACs acknowledged since the leases were last saved
    forgotten   \* history: those acknowledged by a server that died before it saved

storeVars == <<leases, byMac, held>>
histVars  == <<unsaved, forgotten>>
vars      == <<static, storeVars, file, up, down, client, histVars>>

NoIP == 0
Pool == RangeStart .. RangeEnd
StaticIPs == {static[m] : m \in DOMAIN static}
Address == Pool \cup StaticIPs

\* The term of a lease: the 60 s of an offer, the configured time of an acknowledgement, or over.
Term == {"offered", "acked", "expired"}
Lease == [mac : Macs, term : Term]
LeaseMap == UNION {[A -> Lease] : A \in SUBSET Address}
Index == UNION {[M -> Address] : M \in SUBSET Macs}

ClientState == {"init", "selecting", "requesting", "rebooting", "bound"}
Request == {"none", "discover", "request", "reboot", "release", "decline"}
Reply == {"none", "offer", "ack", "nak"}

Message(type, ip) == [type |-> type, ip |-> ip]
None == Message("none", NoIP)

Init ==
    /\ static \in Configs
    /\ leases = [ip \in {} |-> [mac |-> NoIP, term |-> "expired"]]
    /\ byMac = [m \in {} |-> NoIP]
    /\ held = {}
    /\ file = leases
    /\ up = [m \in Macs |-> None] /\ down = [m \in Macs |-> None]
    /\ client = [m \in Macs |-> [st |-> "init", ip |-> NoIP]]
    /\ unsaved = {} /\ forgotten = {}

-----------------------------------------------------------------------------
(* The lease store. *)

\* is_ip_in_use.
InUse(ip) == ip \in DOMAIN leases /\ leases[ip].term # "expired"

\* The MAC that has the address, and the address of the MAC in the index, if any.
HolderOf(ip) == {leases[i].mac : i \in DOMAIN leases \cap {ip}}
AddressOf(m) == {byMac[n] : n \in DOMAIN byMac \cap {m}}

\* Mutant of AddLease: the index keeps the MAC the address was leased to before.
AddLease_KeepsIndex(ip, m, term) ==
    /\ leases' = [i \in (DOMAIN leases \ AddressOf(m)) \cup {ip} |->
                     IF i = ip THEN [mac |-> m, term |-> term] ELSE leases[i]]
    /\ byMac' = [n \in DOMAIN byMac \cup {m} |-> IF n = m THEN ip ELSE byMac[n]]

\* add_lease: the lease replaces that of the address and that of the MAC.
AddLease(ip, m, term) ==
    /\ leases' = [i \in (DOMAIN leases \ AddressOf(m)) \cup {ip} |->
                     IF i = ip THEN [mac |-> m, term |-> term] ELSE leases[i]]
    /\ byMac' = [n \in (DOMAIN byMac \ HolderOf(ip)) \cup {m} |->
                    IF n = m THEN ip ELSE byMac[n]]

\* remove_lease, of each of the addresses A.
RemoveLeases(A) ==
    /\ leases' = [i \in DOMAIN leases \ A |-> leases[i]]
    /\ byMac' = [n \in DOMAIN byMac \ {leases[i].mac : i \in DOMAIN leases \cap A} |-> byMac[n]]

\* allocate_ip: the existing lease of the MAC, else its static lease, else the first address of
\* the range that is not in use, not held and not reserved.
Allowed(m, ip) == ip \in Pool \/ (m \in DOMAIN static /\ static[m] = ip)

Known(m) == {ip \in AddressOf(m) \cap DOMAIN leases : leases[ip].mac = m /\ Allowed(m, ip)}
Reserved(m) == {static[n] : n \in DOMAIN static \cap {m}}

\* Mutant of Free: the reservations of the configuration are not looked at.
Free_Unreserved == {ip \in Pool : ~InUse(ip) /\ ip \notin held}

Free == {ip \in Pool : ~InUse(ip) /\ ip \notin held /\ ip \notin StaticIPs}
FirstFree == {ip \in Free : \A j \in Free : ip <= j}

\* Mutant of Allocate: the scan goes one address past the end of the range.
Allocate_PastEnd(m) ==
    IF Known(m) # {} THEN Known(m)
    ELSE IF Reserved(m) # {} THEN Reserved(m)
    ELSE IF Free = {} /\ ~InUse(RangeEnd + 1) THEN {RangeEnd + 1} ELSE FirstFree

Allocate(m) ==
    IF Known(m) # {} THEN Known(m)
    ELSE IF Reserved(m) # {} THEN Reserved(m) ELSE FirstFree

-----------------------------------------------------------------------------
(* The handlers. *)

Answer(m, type, ip) == down' = [down EXCEPT ![m] = Message(type, ip)]

\* handle_discover: the offer is backed by a short lease, which replaces a longer one too.  With
\* nothing to allocate there is no answer.
Discover(m) ==
    /\ up[m].type = "discover"
    /\ \E ip \in Allocate(m) : AddLease(ip, m, "offered") /\ Answer(m, "offer", ip)
    /\ UNCHANGED <<static, held, file, up, client, histVars>>

\* A client that only remembers its address gets no answer when the server does not know it.
IsAddressed(m) ==
    \/ up[m].type = "request"
    \/ up[m].type = "reboot" /\ AddressOf(m) \cap DOMAIN leases # {}

\* Mutant of Refuses: a lease of another MAC is no obstacle.
Refuses_OnlyRange(m, ip) == ~Allowed(m, ip)

Refuses(m, ip) == ~Allowed(m, ip) \/ (InUse(ip) /\ leases[ip].mac # m)

\* handle_request: the commit.
RequestAck(m) ==
    /\ IsAddressed(m) /\ ~Refuses(m, up[m].ip)
    /\ AddLease(up[m].ip, m, "acked")
    /\ Answer(m, "ack", up[m].ip)
    /\ unsaved' = unsaved \cup {m}
    /\ forgotten' = forgotten \ {m}
    /\ UNCHANGED <<static, held, file, up, client>>

RequestNak(m) ==
    /\ IsAddressed(m) /\ Refuses(m, up[m].ip)
    /\ Answer(m, "nak", NoIP)
    /\ UNCHANGED <<static, storeVars, file, up, client, histVars>>

\* handle_release and handle_decline do nothing for the lease of another MAC.
Release(m) ==
    /\ up[m].type = "release" /\ HolderOf(up[m].ip) \subseteq {m}
    /\ RemoveLeases({up[m].ip})
    /\ UNCHANGED <<static, held, file, up, down, client, histVars>>

Decline(m) ==
    /\ up[m].type = "decline" /\ HolderOf(up[m].ip) \subseteq {m}
    /\ RemoveLeases({up[m].ip})
    /\ held' = held \cup {up[m].ip}
    /\ UNCHANGED <<static, file, up, down, client, histVars>>

\* purge_expired, on a request for the leases by IPC.
Purge ==
    /\ RemoveLeases({ip \in DOMAIN leases : ~InUse(ip)})
    /\ UNCHANGED <<static, held, file, up, down, client, histVars>>

\* Each minute: purge_expired and save_to_file.  When the file cannot be written, that is Purge.
PurgeAndSave ==
    /\ RemoveLeases({ip \in DOMAIN leases : ~InUse(ip)})
    /\ file' = leases'
    /\ unsaved' = {}
    /\ UNCHANGED <<static, held, up, down, client, forgotten>>

\* The server dies and loads the file (load_from_file) when it starts again with the same
\* configuration; the holds are not in the file.
Crash ==
    /\ leases' = file
    /\ byMac' = [m \in {file[ip].mac : ip \in DOMAIN file} |->
                    CHOOSE ip \in DOMAIN file : file[ip].mac = m]
    /\ held' = {}
    /\ forgotten' = forgotten \cup unsaved
    /\ unsaved' = {}
    /\ UNCHANGED <<static, file, up, down, client>>

-----------------------------------------------------------------------------
(* Time.  A client counts the time of its lease from the request on, the server from the
   acknowledgement on: the lease of a client that relies on it does not end first.  A server
   that has lost an acknowledgement no longer knows the time of that lease. *)

Relies(m, ip) == <<"bound", ip>> = <<client[m].st, client[m].ip>> \/ down[m] = Message("ack", ip)

LeaseEnds(ip) ==
    /\ InUse(ip)
    /\ leases[ip].term = "acked" =>
          ~Relies(leases[ip].mac, ip) \/ leases[ip].mac \in forgotten
    /\ leases' = [leases EXCEPT ![ip].term = "expired"]
    /\ UNCHANGED <<static, byMac, held, file, up, down, client, histVars>>

HoldEnds(ip) ==
    /\ ip \in held
    /\ held' = held \ {ip}
    /\ UNCHANGED <<static, leases, byMac, file, up, down, client, histVars>>

-----------------------------------------------------------------------------
(* The clients. *)

\* A client enters a state and sends a message; a reply to an earlier one is then void (xid).
Go(m, st, ip, msg) ==
    /\ client' = [client EXCEPT ![m] = [st |-> st, ip |-> ip]]
    /\ up' = [up EXCEPT ![m] = msg]
    /\ down' = [down EXCEPT ![m] = None]
    /\ UNCHANGED <<static, storeVars, file, histVars>>

State(m) == client[m].st
IP(m) == client[m].ip

SendDiscover(m) == State(m) = "init" /\ Go(m, "selecting", NoIP, Message("discover", NoIP))

TakeOffer(m) ==
    /\ State(m) = "selecting" /\ down[m].type = "offer"
    /\ Go(m, "requesting", down[m].ip, Message("request", down[m].ip))

\* An acknowledged address is used, unless the client finds that another host uses it.
TakeAck(m) ==
    /\ State(m) \in {"requesting", "rebooting", "bound"} /\ down[m].type = "ack"
    /\ \/ Go(m, "bound", down[m].ip, up[m])
       \/ State(m) # "bound" /\ Go(m, "init", NoIP, Message("decline", down[m].ip))

TakeNak(m) == down[m].type = "nak" /\ Go(m, "init", NoIP, up[m])

Renew(m) == State(m) = "bound" /\ Go(m, "bound", IP(m), Message("request", IP(m)))

Restart(m) == State(m) = "bound" /\ Go(m, "rebooting", IP(m), Message("reboot", IP(m)))

SendRelease(m) == State(m) = "bound" /\ Go(m, "init", NoIP, Message("release", IP(m)))

\* The time of the lease, or the patience of the client, is over.
GiveUp(m) == State(m) # "init" /\ Go(m, "init", NoIP, up[m])

ClientStep(m) ==
    \/ SendDiscover(m) \/ TakeOffer(m) \/ TakeAck(m) \/ TakeNak(m)
    \/ Renew(m) \/ Restart(m) \/ SendRelease(m) \/ GiveUp(m)

ServerStep(m) == Discover(m) \/ RequestAck(m) \/ RequestNak(m) \/ Release(m) \/ Decline(m)

Next ==
    \/ \E m \in Macs : ClientStep(m) \/ ServerStep(m)
    \/ Purge \/ PurgeAndSave \/ Crash
    \/ \E ip \in Address : LeaseEnds(ip) \/ HoldEnds(ip)

Spec == Init /\ [][Next]_vars
-----------------------------------------------------------------------------
TypeOK ==
    /\ static \in Configs
    /\ leases \in LeaseMap /\ file \in LeaseMap /\ byMac \in Index /\ held \subseteq Address
    /\ up \in [Macs -> [type : Request, ip : Address \cup {NoIP}]]
    /\ down \in [Macs -> [type : Reply, ip : Address \cup {NoIP}]]
    /\ client \in [Macs -> [st : ClientState, ip : Address \cup {NoIP}]]
    /\ unsaved \subseteq Macs /\ forgotten \subseteq Macs

\* The index by MAC and the leases by address say the same (LeaseStore), so that no MAC has two
\* leases and a lookup by MAC finds the lease of that MAC.
IndexesAgree ==
    /\ \A ip \in DOMAIN leases :
          leases[ip].mac \in DOMAIN byMac /\ byMac[leases[ip].mac] = ip
    /\ \A m \in DOMAIN byMac : byMac[m] \in DOMAIN leases /\ leases[byMac[m]].mac = m

\* No two clients use one address, unless a crash has lost the acknowledgement of one of them
\* (the leases are saved once a minute): handle_discover and handle_request, with messages late,
\* lost and repeated, leases that end and restarts.
NoTwoBound ==
    \A m, n \in Macs :
        State(m) = "bound" /\ State(n) = "bound" /\ IP(m) = IP(n) =>
            m = n \/ m \in forgotten \/ n \in forgotten

\* An address reserved by the configuration is leased to nobody but its owner: allocate_ip skips
\* it for the others, and every later message of a client asks for what it was offered.
StaticKept ==
    \A ip \in DOMAIN leases :
        \A m \in DOMAIN static : static[m] = ip => leases[ip].mac = m

=============================================================================
