--------------------------- MODULE DhcpLeaseProofs ---------------------------
(***************************************************************************)
(* Proofs about DhcpLease, for any clients, range and configurations: the  *)
(* types, the agreement of the two indexes, the static leases, and that no *)
(* two clients use one address.  The inductive invariant IInv says what a  *)
(* client that relies on an address can count on: its lease in the store,  *)
(* and in the file once it has been saved.                                 *)
(***************************************************************************)
EXTENDS DhcpLease, TLAPS

HasAddress == {"requesting", "rebooting", "bound"}

\* The messages and the clients that have an address have one the server may lease.
Addressed ==
    \A m \in Macs :
        /\ up[m].type \in {"request", "reboot", "release", "decline"} => up[m].ip \in Address
        /\ down[m].type \in {"offer", "ack"} => down[m].ip \in Address
        /\ client[m].st \in HasAddress => client[m].ip \in Address

\* The address is not reserved for another client.
Mine(m, ip) == \A n \in DOMAIN static : static[n] = ip => n = m

\* Nobody holds, is offered or asks for an address reserved for another client.
Reserves ==
    /\ \A ip \in DOMAIN leases : Mine(leases[ip].mac, ip)
    /\ \A ip \in DOMAIN file : Mine(file[ip].mac, ip)
    /\ \A m \in Macs :
          /\ up[m].type \in {"request", "reboot"} => Mine(m, up[m].ip)
          /\ down[m].type \in {"offer", "ack"} => Mine(m, down[m].ip)
          /\ client[m].st \in HasAddress => Mine(m, client[m].ip)

\* The file has one lease of a MAC.
FileOneEach ==
    \A ip, jp \in DOMAIN file : file[ip].mac = file[jp].mac => ip = jp

\* The last message of a client that relies on an address asks for that address.
ReliedAsked ==
    \A m \in Macs, ip \in Address :
        Relies(m, ip) => up[m].type \in {"request", "reboot"} /\ up[m].ip = ip

\* The address a client relies on is leased to it, in the store and, once saved, in the file,
\* unless a crash has lost the acknowledgement.
Backed(map, m, ip) == ip \in DOMAIN map /\ map[ip].mac = m /\ map[ip].term = "acked"

ReliedLeased ==
    \A m \in Macs \ forgotten, ip \in Address :
        Relies(m, ip) =>
            Backed(leases, m, ip) /\ (m \notin unsaved => Backed(file, m, ip))

IInv ==
    /\ TypeOK /\ Addressed /\ IndexesAgree /\ Reserves
    /\ FileOneEach /\ ReliedAsked /\ ReliedLeased

-----------------------------------------------------------------------------
(* The two maps of the store. *)

\* A map of leases has leases of addresses the server may lease, and an index such addresses.
LEMMA LeaseMaps ==
    ASSUME NEW f
    PROVE  f \in LeaseMap <=> f \in [DOMAIN f -> Lease] /\ DOMAIN f \subseteq Address
  BY DEF LeaseMap

LEMMA Indexes ==
    ASSUME NEW f
    PROVE  f \in Index <=> f \in [DOMAIN f -> Address] /\ DOMAIN f \subseteq Macs
  BY DEF Index

\* The configuration stays, and with it the addresses and their owners.
LEMMA Steady ==
    ASSUME UNCHANGED static
    PROVE  /\ Address' = Address /\ LeaseMap' = LeaseMap /\ Index' = Index
           /\ \A m, ip : Mine(m, ip)' <=> Mine(m, ip)
<1>1. Address' = Address
  BY DEF Address, StaticIPs
<1> QED
  BY <1>1 DEF LeaseMap, Index, Mine

StoreOK == leases \in LeaseMap /\ byMac \in Index /\ IndexesAgree

\* LeaseStore::add_lease keeps the two maps in agreement, and takes leases only from the address
\* and from the MAC of the new lease.
LEMMA AddLeaseEffect ==
    ASSUME NEW m \in Macs, NEW ip \in Address, NEW term \in Term,
           StoreOK, AddLease(ip, m, term), UNCHANGED static
    PROVE  /\ StoreOK'
           /\ ip \in DOMAIN leases' /\ leases'[ip] = [mac |-> m, term |-> term]
           /\ \A jp \in DOMAIN leases' \ {ip} : jp \in DOMAIN leases /\ leases'[jp] = leases[jp]
           /\ \A jp \in DOMAIN leases \ {ip} :
                 leases[jp].mac # m => jp \in DOMAIN leases' /\ leases'[jp] = leases[jp]
<1> USE DEF StoreOK
<1>1. leases \in [DOMAIN leases -> Lease] /\ DOMAIN leases \subseteq Address
  BY LeaseMaps
<1>2. byMac \in [DOMAIN byMac -> Address] /\ DOMAIN byMac \subseteq Macs
  BY Indexes
<1>3. /\ DOMAIN leases' = (DOMAIN leases \ AddressOf(m)) \cup {ip}
      /\ \A jp \in DOMAIN leases' :
            leases'[jp] = IF jp = ip THEN [mac |-> m, term |-> term] ELSE leases[jp]
  BY DEF AddLease
<1>4. /\ DOMAIN byMac' = (DOMAIN byMac \ HolderOf(ip)) \cup {m}
      /\ \A n \in DOMAIN byMac' : byMac'[n] = IF n = m THEN ip ELSE byMac[n]
  BY DEF AddLease
<1>5. leases' \in [DOMAIN leases' -> Lease] /\ DOMAIN leases' \subseteq Address
  BY <1>1, <1>3 DEF AddLease, Lease
<1>6. byMac' \in [DOMAIN byMac' -> Address] /\ DOMAIN byMac' \subseteq Macs
  BY <1>2, <1>4 DEF AddLease
<1>7. leases' \in LeaseMap' /\ byMac' \in Index'
  BY <1>5, <1>6, LeaseMaps, Indexes, Steady
<1>8. IndexesAgree'
  BY <1>3, <1>4 DEF IndexesAgree, AddressOf, HolderOf
<1>9. \A jp \in DOMAIN leases \ {ip} : leases[jp].mac # m => jp \in DOMAIN leases'
  BY <1>3 DEF IndexesAgree, AddressOf
<1> QED
  BY <1>3, <1>7, <1>8, <1>9

\* LeaseStore::remove_lease keeps the two maps in agreement and the other leases as they were.
LEMMA RemoveEffect ==
    ASSUME NEW A, StoreOK, RemoveLeases(A), UNCHANGED static
    PROVE  /\ StoreOK'
           /\ DOMAIN leases' = DOMAIN leases \ A
           /\ \A jp \in DOMAIN leases' : leases'[jp] = leases[jp]
<1> USE DEF StoreOK
<1>1. leases \in [DOMAIN leases -> Lease] /\ DOMAIN leases \subseteq Address
  BY LeaseMaps
<1>2. byMac \in [DOMAIN byMac -> Address] /\ DOMAIN byMac \subseteq Macs
  BY Indexes
<1>3. /\ DOMAIN leases' = DOMAIN leases \ A
      /\ \A jp \in DOMAIN leases' : leases'[jp] = leases[jp]
  BY DEF RemoveLeases
<1>4. /\ DOMAIN byMac' = DOMAIN byMac \ {leases[i].mac : i \in DOMAIN leases \cap A}
      /\ \A n \in DOMAIN byMac' : byMac'[n] = byMac[n]
  BY DEF RemoveLeases
<1>5. leases' \in LeaseMap' /\ byMac' \in Index'
  <2>1. leases' \in [DOMAIN leases' -> Lease] /\ DOMAIN leases' \subseteq Address
    BY <1>1, <1>3 DEF RemoveLeases
  <2>2. byMac' \in [DOMAIN byMac' -> Address] /\ DOMAIN byMac' \subseteq Macs
    BY <1>2, <1>4 DEF RemoveLeases
  <2> QED
    BY <2>1, <2>2, LeaseMaps, Indexes, Steady
<1>6. IndexesAgree'
  BY <1>3, <1>4 DEF IndexesAgree
<1> QED
  BY <1>3, <1>5, <1>6

-----------------------------------------------------------------------------
(* The clients' steps. *)

\* A client may enter a state and send a message if it has the right to the addresses in both, and
\* if it stays with the address it relied on when it enters "bound".
LEMMA GoKeepsIInv ==
    ASSUME NEW m \in Macs, NEW st \in ClientState, NEW ip \in Address \cup {NoIP},
           NEW msg \in [type : Request, ip : Address \cup {NoIP}],
           IInv, Go(m, st, ip, msg),
           st \in HasAddress => ip \in Address /\ Mine(m, ip),
           msg.type \in {"request", "reboot", "release", "decline"} => msg.ip \in Address,
           msg.type \in {"request", "reboot"} => Mine(m, msg.ip),
           st = "bound" =>
              Relies(m, ip) /\ msg.type \in {"request", "reboot"} /\ msg.ip = ip
    PROVE  IInv'
<1> USE DEF IInv, Go, storeVars, histVars
<1>1. UNCHANGED <<static, leases, byMac, held, file, unsaved, forgotten>>
  OBVIOUS
<1>2. /\ \A n \in Macs \ {m} : /\ client'[n] = client[n] /\ up'[n] = up[n]
                               /\ down'[n] = down[n]
      /\ client'[m] = [st |-> st, ip |-> ip] /\ up'[m] = msg /\ down'[m] = None
  BY DEF TypeOK
<1>3. TypeOK'
  <2>1. client' \in [Macs -> [st : ClientState, ip : Address \cup {NoIP}]]
    BY DEF TypeOK
  <2>2. up' \in [Macs -> [type : Request, ip : Address \cup {NoIP}]]
    BY DEF TypeOK
  <2>3. down' \in [Macs -> [type : Reply, ip : Address \cup {NoIP}]]
    BY DEF TypeOK, None, Message, Reply
  <2> QED
    BY <1>1, <2>1, <2>2, <2>3, Steady DEF TypeOK
<1>4. Addressed'
  BY <1>1, <1>2, Steady DEF Addressed, None, Message, HasAddress
<1>5. IndexesAgree' /\ FileOneEach'
  BY <1>1 DEF IndexesAgree, FileOneEach
<1>6. Reserves'
  BY <1>1, <1>2, Steady DEF Reserves, None, Message, HasAddress
<1>7. \A n \in Macs, jp \in Address : Relies(n, jp)' => Relies(n, jp)
  BY <1>2 DEF Relies, None, Message
<1>8. \A jp : Relies(m, jp)' => st = "bound" /\ jp = ip
  BY <1>2 DEF Relies, None, Message
<1>9. ReliedAsked'
  BY <1>1, <1>2, <1>7, <1>8, Steady DEF ReliedAsked, Relies
<1>10. ReliedLeased'
  BY <1>1, <1>7, Steady DEF ReliedLeased, Backed
<1> QED
  BY <1>3, <1>4, <1>5, <1>6, <1>9, <1>10

LEMMA ClientKeepsIInv ==
    ASSUME NEW m \in Macs, IInv, ClientStep(m)
    PROVE  IInv'
<1> USE DEF IInv
<1>1. /\ client[m] \in [st : ClientState, ip : Address \cup {NoIP}]
      /\ up[m] \in [type : Request, ip : Address \cup {NoIP}]
      /\ down[m] \in [type : Reply, ip : Address \cup {NoIP}]
  BY DEF TypeOK
<1>2. \A st \in HasAddress : State(m) = st => IP(m) \in Address /\ Mine(m, IP(m))
  BY DEF Addressed, Reserves, HasAddress, State, IP
<1>3. CASE SendDiscover(m)
  BY <1>1, <1>3, GoKeepsIInv DEF SendDiscover, Message, Request, ClientState, HasAddress
<1>4. CASE TakeOffer(m)
  <2>1. down[m].ip \in Address /\ Mine(m, down[m].ip)
    BY <1>4 DEF TakeOffer, Addressed, Reserves
  <2> QED
    BY <1>4, <2>1, GoKeepsIInv DEF TakeOffer, Message, Request, ClientState, HasAddress
<1>5. CASE TakeAck(m)
  <2>1. down[m].ip \in Address /\ Mine(m, down[m].ip) /\ down[m] = Message("ack", down[m].ip)
    BY <1>1, <1>5 DEF TakeAck, Addressed, Reserves, Message
  <2>2. Relies(m, down[m].ip)
    BY <2>1 DEF Relies
  <2>3. up[m].type \in {"request", "reboot"} /\ up[m].ip = down[m].ip
    BY <2>1, <2>2 DEF ReliedAsked
  <2>4. CASE Go(m, "bound", down[m].ip, up[m])
    BY <1>1, <2>1, <2>2, <2>3, <2>4, GoKeepsIInv DEF ClientState, HasAddress
  <2>5. CASE Go(m, "init", NoIP, Message("decline", down[m].ip))
    BY <2>1, <2>5, GoKeepsIInv DEF Message, Request, ClientState, HasAddress
  <2> QED
    BY <1>5, <2>4, <2>5 DEF TakeAck
<1>6. up[m].type \in {"request", "reboot", "release", "decline"} => up[m].ip \in Address
  BY DEF Addressed
<1>7. up[m].type \in {"request", "reboot"} => Mine(m, up[m].ip)
  BY DEF Reserves
<1>8. CASE TakeNak(m) \/ GiveUp(m)
  <2>1. Go(m, "init", NoIP, up[m])
    BY <1>8 DEF TakeNak, GiveUp
  <2> QED
    BY <1>1, <1>6, <1>7, <2>1, GoKeepsIInv DEF ClientState, HasAddress
<1>9. CASE Renew(m)
  <2>1. State(m) = "bound" /\ Go(m, "bound", IP(m), Message("request", IP(m)))
    BY <1>9 DEF Renew
  <2>2. Relies(m, IP(m)) /\ IP(m) \in Address /\ Mine(m, IP(m))
    BY <1>2, <2>1 DEF Relies, State, IP, HasAddress
  <2> QED
    BY <2>1, <2>2, GoKeepsIInv DEF Message, Request, ClientState, HasAddress
<1>10. CASE Restart(m)
  BY <1>2, <1>10, GoKeepsIInv DEF Restart, Message, Request, ClientState, HasAddress
<1>11. CASE SendRelease(m)
  BY <1>2, <1>11, GoKeepsIInv DEF SendRelease, Message, Request, ClientState, HasAddress
<1> QED
  BY <1>3, <1>4, <1>5, <1>8, <1>9, <1>10, <1>11 DEF ClientStep

-----------------------------------------------------------------------------
(* The server's steps. *)

\* allocate_ip gives an address that is not leased to another client.
LEMMA Allocated ==
    ASSUME NEW m \in Macs, NEW ip \in Allocate(m), TypeOK, Reserves
    PROVE  /\ ip \in Address /\ Mine(m, ip)
           /\ InUse(ip) => leases[ip].mac = m
<1>1. \A jp \in DOMAIN leases : jp \in Address
  BY LeaseMaps DEF TypeOK
<1>2. CASE ip \in Known(m)
  BY <1>1, <1>2 DEF Known, Reserves
<1>3. CASE ip \in Reserved(m)
  <2>1. m \in DOMAIN static /\ ip = static[m]
    BY <1>3 DEF Reserved
  <2>2. \A n \in DOMAIN static : static[n] = ip => n = m
    BY <2>1, DhcpAssumption DEF TypeOK
  <2>3. ip \in DOMAIN leases => leases[ip].mac = m
    BY <2>1 DEF Reserves, Mine
  <2> QED
    BY <2>1, <2>2, <2>3 DEF Mine, InUse, Address, StaticIPs
<1>4. CASE ip \in FirstFree
  BY <1>4 DEF FirstFree, Free, Mine, StaticIPs, Address
<1> QED
  BY <1>2, <1>3, <1>4 DEF Allocate

LEMMA DiscoverKeepsIInv ==
    ASSUME NEW m \in Macs, IInv, Discover(m)
    PROVE  IInv'
<1> USE DEF IInv
<1>1. PICK ip \in Allocate(m) : AddLease(ip, m, "offered") /\ Answer(m, "offer", ip)
  BY DEF Discover
<1>2. /\ UNCHANGED <<static, held, file, up, client, unsaved, forgotten>>
      /\ up[m].type = "discover"
  BY DEF Discover, histVars
<1>3. ip \in Address /\ Mine(m, ip) /\ (InUse(ip) => leases[ip].mac = m)
  BY Allocated
<1>4. /\ StoreOK'
      /\ ip \in DOMAIN leases' /\ leases'[ip] = [mac |-> m, term |-> "offered"]
      /\ \A jp \in DOMAIN leases' \ {ip} : jp \in DOMAIN leases /\ leases'[jp] = leases[jp]
      /\ \A jp \in DOMAIN leases \ {ip} :
            leases[jp].mac # m => jp \in DOMAIN leases' /\ leases'[jp] = leases[jp]
  BY <1>1, <1>2, <1>3, AddLeaseEffect DEF StoreOK, TypeOK, Term
<1>5. /\ down' \in [Macs -> [type : Reply, ip : Address \cup {NoIP}]]
      /\ down'[m] = Message("offer", ip) /\ \A n \in Macs \ {m} : down'[n] = down[n]
  BY <1>1, <1>3 DEF Answer, TypeOK, Message, Reply
<1>6. TypeOK'
  BY <1>2, <1>4, <1>5, Steady DEF TypeOK, StoreOK
<1>7. Addressed'
  BY <1>2, <1>3, <1>5, Steady DEF Addressed, Message
<1>8. Reserves'
  BY <1>2, <1>3, <1>4, <1>5, Steady DEF Reserves, Message
<1>9. \A n \in Macs, jp \in Address : Relies(n, jp)' => Relies(n, jp) /\ n # m
  <2>1. \A n \in Macs, jp \in Address : Relies(n, jp)' => Relies(n, jp)
    BY <1>2, <1>5 DEF Relies, Message
  <2>2. \A jp \in Address : ~Relies(m, jp)
    BY <1>2 DEF ReliedAsked
  <2> QED
    BY <2>1, <2>2
<1>10. ReliedAsked'
  BY <1>2, <1>9, Steady DEF ReliedAsked
<1>11. \A n \in Macs, jp \in Address :
          n # m /\ Backed(leases, n, jp) => Backed(leases, n, jp)'
  BY <1>3, <1>4 DEF Backed, InUse
<1>12. ReliedLeased'
  BY <1>2, <1>9, <1>11, Steady DEF ReliedLeased, Backed
<1>13. FileOneEach'
  BY <1>2 DEF FileOneEach
<1> QED
  BY <1>4, <1>6, <1>7, <1>8, <1>10, <1>12, <1>13 DEF StoreOK

LEMMA RequestAckKeepsIInv ==
    ASSUME NEW m \in Macs, IInv, RequestAck(m)
    PROVE  IInv'
<1> USE DEF IInv
<1> DEFINE ip == up[m].ip
<1>1. /\ up[m].type \in {"request", "reboot"}
      /\ AddLease(ip, m, "acked") /\ Answer(m, "ack", ip)
      /\ unsaved' = unsaved \cup {m} /\ forgotten' = forgotten \ {m}
      /\ UNCHANGED <<static, held, file, up, client>>
  BY DEF RequestAck, IsAddressed
<1>2. ip \in Address /\ Mine(m, ip) /\ (InUse(ip) => leases[ip].mac = m)
  BY <1>1 DEF RequestAck, Refuses, Addressed, Reserves
<1>3. /\ StoreOK'
      /\ ip \in DOMAIN leases' /\ leases'[ip] = [mac |-> m, term |-> "acked"]
      /\ \A jp \in DOMAIN leases' \ {ip} : jp \in DOMAIN leases /\ leases'[jp] = leases[jp]
      /\ \A jp \in DOMAIN leases \ {ip} :
            leases[jp].mac # m => jp \in DOMAIN leases' /\ leases'[jp] = leases[jp]
  BY <1>1, <1>2, AddLeaseEffect DEF StoreOK, TypeOK, Term
<1>4. /\ down' \in [Macs -> [type : Reply, ip : Address \cup {NoIP}]]
      /\ down'[m] = Message("ack", ip) /\ \A n \in Macs \ {m} : down'[n] = down[n]
  BY <1>1, <1>2 DEF Answer, TypeOK, Message, Reply
<1>5. TypeOK'
  BY <1>1, <1>3, <1>4, Steady DEF TypeOK, StoreOK
<1>6. Addressed'
  BY <1>1, <1>2, <1>4, Steady DEF Addressed, Message
<1>7. Reserves'
  BY <1>1, <1>2, <1>3, <1>4, Steady DEF Reserves, Message
<1>8. \A n \in Macs \ {m}, jp \in Address : Relies(n, jp)' => Relies(n, jp)
  BY <1>1, <1>4 DEF Relies, Message
<1>9. \A jp \in Address : Relies(m, jp)' => jp = ip
  <2>1. ASSUME NEW jp \in Address, Relies(m, jp)'
        PROVE  jp = ip
    <3>1. CASE down'[m] = Message("ack", jp)
      BY <1>4, <3>1 DEF Message
    <3>2. CASE down'[m] # Message("ack", jp)
      BY <1>1, <2>1, <3>2 DEF Relies, ReliedAsked
    <3> QED
      BY <3>1, <3>2
  <2> QED
    BY <2>1
<1>10. ReliedAsked'
  BY <1>1, <1>8, <1>9, Steady DEF ReliedAsked
<1>11. \A n \in Macs \ {m}, jp \in Address :
          Backed(leases, n, jp) => Backed(leases, n, jp)'
  BY <1>2, <1>3 DEF Backed, InUse
<1>12. ReliedLeased'
  BY <1>1, <1>3, <1>8, <1>9, <1>11, Steady DEF ReliedLeased, Backed
<1>13. FileOneEach'
  BY <1>1 DEF FileOneEach
<1> QED
  BY <1>3, <1>5, <1>6, <1>7, <1>10, <1>12, <1>13 DEF StoreOK

LEMMA RequestNakKeepsIInv ==
    ASSUME NEW m \in Macs, IInv, RequestNak(m)
    PROVE  IInv'
<1> USE DEF IInv
<1>1. /\ UNCHANGED <<static, leases, byMac, held, file, up, client, unsaved, forgotten>>
      /\ Answer(m, "nak", NoIP)
  BY DEF RequestNak, storeVars, histVars
<1>2. /\ down' \in [Macs -> [type : Reply, ip : Address \cup {NoIP}]]
      /\ down'[m] = Message("nak", NoIP) /\ \A n \in Macs \ {m} : down'[n] = down[n]
  BY <1>1 DEF Answer, TypeOK, Message, Reply
<1>3. TypeOK' /\ Addressed' /\ Reserves'
  BY <1>1, <1>2, Steady DEF TypeOK, Addressed, Reserves, Message
<1>4. IndexesAgree' /\ FileOneEach'
  BY <1>1 DEF IndexesAgree, FileOneEach
<1>5. \A n \in Macs, jp \in Address : Relies(n, jp)' => Relies(n, jp)
  BY <1>1, <1>2 DEF Relies, Message
<1>6. ReliedAsked' /\ ReliedLeased'
  BY <1>1, <1>5, Steady DEF ReliedAsked, ReliedLeased, Backed
<1> QED
  BY <1>3, <1>4, <1>6

\* Leases may be removed that no client relies on, and addresses that may be leased held.
LEMMA RemoveKeepsIInv ==
    ASSUME NEW A, IInv, RemoveLeases(A),
           held' \in SUBSET Address, UNCHANGED <<static, up, down, client, forgotten>>,
           \/ UNCHANGED <<file, unsaved>>
           \/ file' = leases' /\ unsaved' = {},
           \A n \in Macs \ forgotten, jp \in Address :
              Relies(n, jp) => ~(jp \in A /\ Backed(leases, n, jp))
    PROVE  IInv'
<1> USE DEF IInv
<1>1. /\ StoreOK'
      /\ DOMAIN leases' = DOMAIN leases \ A
      /\ \A jp \in DOMAIN leases' : leases'[jp] = leases[jp]
  BY RemoveEffect DEF StoreOK, TypeOK
<1>2. file' \in LeaseMap' /\ unsaved' \subseteq Macs
  BY <1>1, Steady DEF StoreOK, TypeOK
<1>3. TypeOK'
  BY <1>1, <1>2, Steady DEF TypeOK, StoreOK
<1>4. Addressed' /\ ReliedAsked'
  BY Steady DEF Addressed, ReliedAsked, Relies
<1>5. Reserves'
  BY <1>1, Steady DEF Reserves
<1>6. FileOneEach'
  BY <1>1 DEF FileOneEach, StoreOK, IndexesAgree
<1>7. ReliedLeased'
  <2>1. ASSUME NEW n \in Macs \ forgotten, NEW jp \in Address, Relies(n, jp)
        PROVE  Backed(leases, n, jp)' /\ (n \notin unsaved' => Backed(file, n, jp)')
    <3>1. Backed(leases, n, jp) /\ (n \notin unsaved => Backed(file, n, jp))
      BY <2>1 DEF ReliedLeased
    <3>2. Backed(leases, n, jp)'
      BY <1>1, <2>1, <3>1 DEF Backed
    <3> QED
      BY <3>1, <3>2 DEF Backed
  <2> QED
    BY <2>1, Steady DEF ReliedLeased, Relies
<1> QED
  BY <1>1, <1>3, <1>4, <1>5, <1>6, <1>7 DEF StoreOK

\* A client that gives an address back does not rely on any.
LEMMA GiveBackKeepsIInv ==
    ASSUME NEW m \in Macs, IInv, Release(m) \/ Decline(m)
    PROVE  IInv'
<1> USE DEF IInv
<1>1. /\ up[m].type \in {"release", "decline"} /\ HolderOf(up[m].ip) \subseteq {m}
      /\ RemoveLeases({up[m].ip}) /\ held' \subseteq held \cup {up[m].ip}
      /\ UNCHANGED <<static, file, up, down, client, unsaved, forgotten>>
  BY DEF Release, Decline, histVars
<1>2. up[m].ip \in Address /\ held' \in SUBSET Address
  BY <1>1 DEF Addressed, TypeOK
<1>3. \A jp \in Address : ~Relies(m, jp)
  BY <1>1 DEF ReliedAsked
<1>4. \A n \in Macs, jp \in Address :
          Relies(n, jp) => ~(jp \in {up[m].ip} /\ Backed(leases, n, jp))
  BY <1>1, <1>3 DEF Backed, HolderOf
<1> QED
  BY <1>1, <1>2, <1>4, RemoveKeepsIInv

LEMMA PurgeKeepsIInv ==
    ASSUME IInv, Purge \/ PurgeAndSave
    PROVE  IInv'
<1> DEFINE Over == {ip \in DOMAIN leases : ~InUse(ip)}
<1>1. /\ RemoveLeases(Over) /\ UNCHANGED <<static, held, up, down, client, forgotten>>
      /\ UNCHANGED <<file, unsaved>> \/ (file' = leases' /\ unsaved' = {})
  BY DEF Purge, PurgeAndSave, histVars
<1>2. \A n \in Macs, jp \in Address : ~(jp \in Over /\ Backed(leases, n, jp))
  BY DEF Backed, InUse
<1>3. held' \in SUBSET Address
  BY <1>1 DEF IInv, TypeOK
<1> HIDE DEF Over
<1> QED
  BY <1>1, <1>2, <1>3, RemoveKeepsIInv

\* After a restart the store is what the file says, with an index that agrees with it.
LEMMA CrashKeepsIInv ==
    ASSUME IInv, Crash
    PROVE  IInv'
<1> USE DEF IInv
<1>1. /\ leases' = file /\ held' = {} /\ unsaved' = {} /\ forgotten' = forgotten \cup unsaved
      /\ UNCHANGED <<static, file, up, down, client>>
  BY DEF Crash
<1>2. /\ DOMAIN byMac' = {file[ip].mac : ip \in DOMAIN file}
      /\ \A m \in DOMAIN byMac' :
            byMac'[m] = CHOOSE ip \in DOMAIN file : file[ip].mac = m
  BY DEF Crash
<1>3. \A m \in DOMAIN byMac' : byMac'[m] \in DOMAIN file /\ file[byMac'[m]].mac = m
  <2>1. ASSUME NEW m \in DOMAIN byMac'
        PROVE  byMac'[m] \in DOMAIN file /\ file[byMac'[m]].mac = m
    <3>1. \E ip \in DOMAIN file : file[ip].mac = m
      BY <1>2, <2>1
    <3> QED
      BY <1>2, <2>1, <3>1
  <2> QED
    BY <2>1
<1>4. IndexesAgree'
  BY <1>1, <1>2, <1>3 DEF IndexesAgree, FileOneEach
<1>5. file \in [DOMAIN file -> Lease] /\ DOMAIN file \subseteq Address
  BY LeaseMaps DEF TypeOK
<1>6. byMac' \in Index'
  <2>1. byMac' \in [DOMAIN byMac' -> Address] /\ DOMAIN byMac' \subseteq Macs
    BY <1>2, <1>3, <1>5 DEF Crash, Lease
  <2> QED
    BY <1>1, <2>1, Indexes, Steady
<1>7. TypeOK'
  BY <1>1, <1>6, Steady DEF TypeOK
<1>8. Addressed' /\ Reserves' /\ FileOneEach' /\ ReliedAsked'
  BY <1>1, Steady DEF Addressed, Reserves, FileOneEach, ReliedAsked, Relies
<1>9. ReliedLeased'
  BY <1>1, Steady DEF ReliedLeased, Relies, Backed
<1> QED
  BY <1>4, <1>7, <1>8, <1>9

LEMMA TimeKeepsIInv ==
    ASSUME NEW ip \in Address, IInv, LeaseEnds(ip) \/ HoldEnds(ip)
    PROVE  IInv'
<1> USE DEF IInv
<1>1. CASE LeaseEnds(ip)
  <2>1. UNCHANGED <<static, byMac, held, file, up, down, client, unsaved, forgotten>>
    BY <1>1 DEF LeaseEnds, histVars
  <2>2. leases \in [DOMAIN leases -> Lease] /\ DOMAIN leases \subseteq Address
    BY LeaseMaps DEF TypeOK
  <2>3. /\ ip \in DOMAIN leases /\ DOMAIN leases' = DOMAIN leases
        /\ \A jp \in DOMAIN leases : /\ leases'[jp].mac = leases[jp].mac
                                     /\ jp # ip => leases'[jp] = leases[jp]
        /\ leases' \in [DOMAIN leases -> Lease]
    BY <1>1, <2>2 DEF LeaseEnds, InUse, Lease, Term
  <2>4. TypeOK'
    BY <2>1, <2>2, <2>3, LeaseMaps, Steady DEF TypeOK
  <2>5. Addressed' /\ Reserves' /\ FileOneEach' /\ ReliedAsked' /\ IndexesAgree'
    BY <2>1, <2>3, Steady
       DEF Addressed, Reserves, FileOneEach, ReliedAsked, Relies, IndexesAgree
  <2>6. \A n \in Macs \ forgotten : Relies(n, ip) => ~Backed(leases, n, ip)
    BY <1>1 DEF LeaseEnds, Backed
  <2>7. ReliedLeased'
    BY <2>1, <2>3, <2>6, Steady DEF ReliedLeased, Relies, Backed
  <2> QED
    BY <2>4, <2>5, <2>7
<1>2. CASE HoldEnds(ip)
  BY <1>2, Steady
     DEF HoldEnds, histVars, TypeOK, Addressed, Reserves, FileOneEach, ReliedAsked, Relies,
         IndexesAgree, ReliedLeased, Backed
<1> QED
  BY <1>1, <1>2

-----------------------------------------------------------------------------
(* The theorems. *)

LEMMA InitIInv == Init => IInv
<1> SUFFICES ASSUME Init PROVE IInv
  OBVIOUS
<1>1. leases \in LeaseMap /\ byMac \in Index
  <2>1. leases \in [{} -> Lease] /\ byMac \in [{} -> Address]
    BY DEF Init
  <2> QED
    BY <2>1 DEF LeaseMap, Index
<1>2. TypeOK
  BY <1>1 DEF Init, TypeOK, None, Message, Request, Reply, ClientState
<1>3. Addressed /\ Reserves /\ FileOneEach /\ IndexesAgree
  BY DEF Init, Addressed, Reserves, FileOneEach, IndexesAgree, None, Message, HasAddress
<1>4. \A m \in Macs, ip \in Address : ~Relies(m, ip)
  BY DEF Init, Relies, None, Message
<1> QED
  BY <1>2, <1>3, <1>4 DEF IInv, ReliedAsked, ReliedLeased

LEMMA StepIInv == IInv /\ [Next]_vars => IInv'
<1> SUFFICES ASSUME IInv, [Next]_vars PROVE IInv'
  OBVIOUS
<1>1. ASSUME NEW m \in Macs, ClientStep(m) PROVE IInv'
  BY <1>1, ClientKeepsIInv
<1>2. ASSUME NEW m \in Macs, ServerStep(m) PROVE IInv'
  BY <1>2, DiscoverKeepsIInv, RequestAckKeepsIInv, RequestNakKeepsIInv, GiveBackKeepsIInv
     DEF ServerStep
<1>3. CASE Purge \/ PurgeAndSave \/ Crash
  BY <1>3, PurgeKeepsIInv, CrashKeepsIInv
<1>4. ASSUME NEW ip \in Address, LeaseEnds(ip) \/ HoldEnds(ip) PROVE IInv'
  BY <1>4, TimeKeepsIInv
<1>5. CASE UNCHANGED vars
  BY <1>5, Steady
     DEF vars, storeVars, histVars, IInv, TypeOK, Addressed, Reserves, FileOneEach, ReliedAsked,
         Relies, IndexesAgree, ReliedLeased, Backed
<1> QED
  BY <1>1, <1>2, <1>3, <1>4, <1>5 DEF Next

\* The store, the file, the messages and the clients keep their types: no address outside the range
\* and the reservations is ever leased, offered or held (LeaseStore::allocate_ip).
THEOREM DhcpTypes == Spec => []TypeOK
<1>1. IInv => TypeOK
  BY DEF IInv
<1> QED
  BY <1>1, InitIInv, StepIInv, PTL DEF Spec

\* The index by MAC agrees with the leases after every sequence of offers, requests, releases,
\* declines, purges and restarts (LeaseStore::add_lease, remove_lease, load_from_file).
THEOREM IndexesAlwaysAgree == Spec => []IndexesAgree
<1>1. IInv => IndexesAgree
  BY DEF IInv
<1> QED
  BY <1>1, InitIInv, StepIInv, PTL DEF Spec

\* An address the configuration reserves is leased to nobody but its owner.
THEOREM ReservationsKept == Spec => []StaticKept
<1>1. IInv => StaticKept
  BY DEF IInv, Reserves, Mine, StaticKept
<1> QED
  BY <1>1, InitIInv, StepIInv, PTL DEF Spec

\* No two clients use one address, unless a crash has lost the acknowledgement of one of them:
\* the lease of each would be the one lease of the address.
THEOREM NoAddressTwice == Spec => []NoTwoBound
<1>1. IInv => NoTwoBound
  <2>1. SUFFICES ASSUME IInv, NEW m \in Macs \ forgotten, NEW n \in Macs \ forgotten,
                        State(m) = "bound", State(n) = "bound", IP(m) = IP(n)
                 PROVE  m = n
    BY DEF NoTwoBound
  <2>2. IP(m) \in Address /\ Relies(m, IP(m)) /\ Relies(n, IP(m))
    BY <2>1 DEF IInv, Addressed, HasAddress, State, IP, Relies
  <2> QED
    BY <2>1, <2>2 DEF IInv, ReliedLeased, Backed
<1> QED
  BY <1>1, InitIInv, StepIInv, PTL DEF Spec
=============================================================================
