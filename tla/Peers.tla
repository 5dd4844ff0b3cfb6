------------------------------- MODULE Peers -------------------------------
(***************************************************************************)
(* How BrunoCoin nodes become peers (BrunoCoin/pkg/server.go, node.go,     *)
(* address, peer): the exchange of Version requests, the spreading of      *)
(* addresses, and the pausing and resuming of a node's server.             *)
(*                                                                         *)
(* A request is in flight until the handler of the other side runs, or     *)
(* until it fails because that side does not listen.  Requests overtake    *)
(* one another.  Two equal Version requests in flight are one: the second  *)
(* finds a peer and changes nothing but LastSeen.  A handler runs as one   *)
(* step, and the calls it makes are in flight from then on.                *)
(*                                                                         *)
(* The databases have no lock.  Two handlers that use their maps at once   *)
(* may end the process; for the others that is a node whose server is      *)
(* paused for good, and which connects to nobody: PauseNetwork covers it.  *)
(*                                                                         *)
(* A Peer holds a pointer to the Address that the address database holds:  *)
(* the peer database is the set of the addresses that are peers, and an    *)
(* address has one LastSeen and one SentVer.                               *)
(*                                                                         *)
(* SentVer is kept as "set, and VerTimeout has not passed", for addresses  *)
(* that are not peers: for a peer the result of PeerDb.Add is false and    *)
(* SentVer decides nothing.  The clock advances with a broadcast: LastSeen *)
(* is only ever compared with the time of a broadcast.  It is cut to 32    *)
(* bits, Word values here.                                                 *)
(*                                                                         *)
(* Bounds: each pair of Contacts connects once, MaxNow broadcasts,         *)
(* MaxPauses pauses.                                                       *)
(***************************************************************************)
EXTENDS Integers, FiniteSets

CONSTANTS Nodes,      \* nodes, by their addresses
          Conf,       \* node -> Conf.Version
          AddrLimit,  \* capacity of an address database
          PeerLimit,  \* capacity of a peer database
          Contacts,   \* the calls <<n, x>> of ConnectToPeer that may be made
          Speakers,   \* the nodes that may call BroadcastAddr
          Word,       \* number of values of LastSeen
          MaxNow, MaxPauses

ASSUME PeersAssumption ==
    /\ AddrLimit \in Nat /\ PeerLimit \in Nat
    /\ Contacts \subseteq {c \in Nodes \X Nodes : c[1] # c[2]}
    /\ Word \in Nat \ {0} /\ MaxNow \in Nat /\ MaxPauses \in Nat

VARIABLES status,   \* node -> "up" or "paused"
          addrs,    \* node -> AddrDb: address -> LastSeen
          peers,    \* node -> PeerDb
          sent,     \* <<n, x>>: n has sent x, which is no peer, a Version
          waiting,  \* <<n, x>>: that call of n has not returned yet
          reqs,     \* requests in flight
          now,      \* the clock
          todo,     \* calls of ConnectToPeer not made yet
          pauses,   \* how often a server was paused
          failed    \* history: <<n, x>>, x did not get or turned down a Version of n

peerVars == <<status, addrs, peers, sent, waiting, reqs, now, todo, pauses, failed>>
-----------------------------------------------------------------------------
(* Requests *)

\* The stubs of the client: the name of the method, and the message.
Call(method, to, about, stamp) ==
    [method |-> method, to |-> to, about |-> about, stamp |-> stamp]

\* VersionRPC of n: AddrMe is all that its handler reads of it, with the
\* version.
VersionRPC(n, x) == Call("Version", x, n, 0)

\* SendAddressesRPC of one address, as BroadcastAddr makes it; the message
\* does not name its sender.
SendAddressesRPC(x, about, stamp) == Call("SendAddresses", x, about, stamp)

Up(n) == status[n] = "up"
Stamp == now % Word
-----------------------------------------------------------------------------
(* The databases of a node *)

Known(n) == DOMAIN addrs[n]

\* Add of a new address, or UpdateLastSeen of a known one.
Put(n, x, seen) == addrs' = [addrs EXCEPT ![n] = [y \in Known(n) \cup {x} |->
                                                     IF y = x THEN seen ELSE addrs[n][y]]]

\* Mutant of HasRoom: one address too many.
HasRoomForOneMore(n) == Cardinality(Known(n)) <= AddrLimit

\* Whether AddrDb.Add takes a new address.
HasRoom(n) == Cardinality(Known(n)) < AddrLimit

\* The result of PeerDb.Add.  For a peer that exists the two Addresses that
\* Add compares are one object, so the answer is false.
AddsPeer(n, x) == x \notin peers[n] /\ Cardinality(peers[n]) < PeerLimit

\* GetRandom(2): all peers, or some two of them.
GetRandom(n) == IF Cardinality(peers[n]) <= 2 THEN {peers[n]}
                ELSE {S \in SUBSET peers[n] : Cardinality(S) = 2}
-----------------------------------------------------------------------------
NewAddressDb == [x \in {} |-> 0]
NewPeerDb == {}

PeersInit ==
        /\ status = [n \in Nodes |-> "up"]
        /\ addrs = [n \in Nodes |-> NewAddressDb]
        /\ peers = [n \in Nodes |-> NewPeerDb]
        /\ sent = {} /\ waiting = {} /\ reqs = {} /\ now = 0
        /\ todo = Contacts /\ pauses = 0 /\ failed = {}

\* ConnectToPeer makes an Address of its own, whose SentVer nobody reads.
ConnectToPeer(n, x) ==
    /\ <<n, x>> \in todo
    /\ todo' = todo \ {<<n, x>>}
    /\ reqs' = reqs \cup {VersionRPC(n, x)}
    /\ UNCHANGED <<status, addrs, peers, sent, waiting, now, pauses, failed>>

\* BroadcastAddr sends the own address and the time to all peers.
BroadcastAddr(n) ==
    /\ n \in Speakers /\ now < MaxNow /\ peers[n] # {}
    /\ now' = now + 1
    /\ reqs' = reqs \cup {SendAddressesRPC(x, n, now' % Word) : x \in peers[n]}
    /\ UNCHANGED <<status, addrs, peers, sent, waiting, todo, pauses, failed>>

\* PauseNetwork and ResumeNetwork: the server stops and listens again.
PauseNetwork(n) ==
    /\ Up(n) /\ pauses < MaxPauses
    /\ status' = [status EXCEPT ![n] = "paused"]
    /\ pauses' = pauses + 1
    /\ UNCHANGED <<addrs, peers, sent, waiting, reqs, now, todo, failed>>
ResumeNetwork(n) ==
    /\ status[n] = "paused"
    /\ status' = [status EXCEPT ![n] = "up"]
    /\ UNCHANGED <<addrs, peers, sent, waiting, reqs, now, todo, pauses, failed>>
-----------------------------------------------------------------------------
(* Version(r): x asks n to be its peer *)

\* Other versions, and new addresses when the database is full.
Rejects(n, x) == Conf[x] # Conf[n] \/ (x \notin Known(n) /\ ~HasRoom(n))

RejectVersion(r) ==
    /\ Rejects(r.to, r.about)
    /\ reqs' = reqs \ {r}
    /\ failed' = failed \cup {<<r.about, r.to>>}
    /\ UNCHANGED <<addrs, peers, sent, waiting>>

\* Mutant of Pending: SentVer is set before it is read.
PendingSet(n, x) == TRUE

\* The Version is taken for the answer to one of our own.
Pending(n, x) == <<n, x>> \in sent

\* The peer is added, and answered unless its Version was an answer.
AcceptVersion(r) ==
    LET n == r.to
        x == r.about
        adds == AddsPeer(n, x)
    IN  /\ ~Rejects(n, x)
        /\ Put(n, x, Stamp)
        /\ peers' = [peers EXCEPT ![n] = IF adds THEN @ \cup {x} ELSE @]
        /\ sent' = IF adds THEN sent \ {<<n, x>>} ELSE sent
        /\ waiting' = IF adds THEN waiting \ {<<n, x>>} ELSE waiting
        /\ reqs' = (reqs \ {r}) \cup
                   (IF adds /\ ~Pending(n, x) THEN {VersionRPC(n, x)} ELSE {})
        /\ failed' = IF x \in peers'[n] THEN failed ELSE failed \cup {<<x, n>>}

Version(r) == RejectVersion(r) \/ AcceptVersion(r)

\* A VersionRPC on an entry returns, with an answer or after RPCTimeout: in
\* both cases SentVer is set.
Return(n, x) ==
    /\ <<n, x>> \in waiting
    /\ waiting' = waiting \ {<<n, x>>}
    /\ sent' = sent \cup {<<n, x>>}
    /\ UNCHANGED <<status, addrs, peers, reqs, now, todo, pauses, failed>>

\* VerTimeout passes.
Expire(n, x) ==
    /\ <<n, x>> \in sent
    /\ sent' = sent \ {<<n, x>>}
    /\ UNCHANGED <<status, addrs, peers, waiting, reqs, now, todo, pauses, failed>>
-----------------------------------------------------------------------------
(* SendAddresses(r): somebody tells n of the address r.about *)

\* Mutant of FoundNew: what is known already is forwarded as well.
FoundNewAlways(n, x, stamp) == x \in Known(n) \/ HasRoom(n)

\* A peer that was seen since, or an address that was added.
FoundNew(n, x, stamp) == IF x \in Known(n) THEN x \in peers[n] /\ addrs[n][x] < stamp
                         ELSE HasRoom(n)

\* The entry is added or brought up to date.
Learn(n, x, stamp) ==
    IF IF x \in Known(n) THEN addrs[n][x] < stamp ELSE HasRoom(n)
    THEN Put(n, x, stamp) ELSE UNCHANGED addrs

\* Mutant of Greeting: only peers get a Version.
GreetingOfPeers(n, x) == IF x \in peers[n] THEN {VersionRPC(n, x)} ELSE {}

\* Whatever is known of an address, it gets a Version.
Greeting(n, x) == {VersionRPC(n, x)}

\* What becomes of an address that is not the own one: what is new is forwarded
\* to two peers, and a VersionRPC on a new entry will set its SentVer.
Spread(n, x, r) ==
    /\ Learn(n, x, r.stamp)
    /\ \E S \in IF FoundNew(n, x, r.stamp) THEN GetRandom(n) ELSE {{}} :
          reqs' = (reqs \ {r}) \cup Greeting(n, x)
                  \cup {SendAddressesRPC(y, x, r.stamp) : y \in S}
    /\ waiting' = IF x \notin Known(n) /\ HasRoom(n) THEN waiting \cup {<<n, x>>} ELSE waiting

\* Mutant of SendAddresses: the own address is treated as any other.
SendAddressesOwn(r) == Spread(r.to, r.about, r) /\ UNCHANGED <<peers, sent, failed>>

\* The own address is passed over.
SendAddresses(r) ==
    /\ IF r.about = r.to THEN reqs' = reqs \ {r} /\ UNCHANGED <<addrs, waiting>>
       ELSE Spread(r.to, r.about, r)
    /\ UNCHANGED <<peers, sent, failed>>
-----------------------------------------------------------------------------
(* Delivery *)

VersionHandler(r) == r.method = "Version" /\ Version(r)
SendAddressesHandler(r) == r.method = "SendAddresses" /\ SendAddresses(r)

\* The service of the gRPC server: the handler of the method runs.
Handle(r) ==
    /\ Up(r.to)
    /\ VersionHandler(r) \/ SendAddressesHandler(r)
    /\ UNCHANGED <<status, now, todo, pauses>>

\* The call fails: nobody listens.
Fail(r) ==
    /\ ~Up(r.to)
    /\ reqs' = reqs \ {r}
    /\ failed' = IF r.method = "Version" THEN failed \cup {<<r.about, r.to>>} ELSE failed
    /\ UNCHANGED <<status, addrs, peers, sent, waiting, now, todo, pauses>>

Deliver == \E r \in reqs : Handle(r) \/ Fail(r)

PeersNext ==
        \/ \E n, x \in Nodes : ConnectToPeer(n, x) \/ Return(n, x) \/ Expire(n, x)
        \/ \E n \in Nodes : BroadcastAddr(n) \/ PauseNetwork(n) \/ ResumeNetwork(n)
        \/ Deliver

PeersSpec == PeersInit /\ [][PeersNext]_peerVars

\* A request reaches its handler or fails: gRPC has no queue that another
\* handler could hold up, and each call ends after RPCTimeout.
PeersFairSpec == PeersSpec /\ WF_peerVars(Deliver)
-----------------------------------------------------------------------------
(* Properties *)

Requests == [method : {"Version", "SendAddresses"}, to : Nodes, about : Nodes,
             stamp : 0 .. Word - 1]

PeersTypeOK ==
    /\ status \in [Nodes -> {"up", "paused"}]
    /\ DOMAIN addrs = Nodes
    /\ \A n \in Nodes : /\ Known(n) \subseteq Nodes
                        /\ addrs[n] \in [Known(n) -> 0 .. Word - 1]
    /\ peers \in [Nodes -> SUBSET Nodes]
    /\ \A r \in reqs : r \in Requests /\ (r.method = "Version" => r.about # r.to /\ r.stamp = 0)
    /\ sent \subseteq Nodes \X Nodes /\ waiting \subseteq Nodes \X Nodes
    /\ failed \subseteq Nodes \X Nodes
    /\ now \in Nat /\ todo \subseteq Contacts /\ pauses \in Nat

\* The peers of a node are entries of its address database, which the
\* unchecked use of Addr in Version and in the forwarding needs; neither
\* database grows past its limit, and a node is never its own peer.
DbsAgree == \A n \in Nodes :
    /\ peers[n] \subseteq Known(n) /\ n \notin Known(n)
    /\ Cardinality(Known(n)) <= AddrLimit /\ Cardinality(peers[n]) <= PeerLimit
    /\ \A x \in Nodes : <<n, x>> \in sent \cup waiting => x \in Known(n) \ peers[n]

\* Peering is mutual: whoever has x as a peer is a peer of x, or will be when
\* a Version that is in flight arrives, unless a Version failed or was turned
\* down.  The answer that Version leaves out when SentVer is set is not needed.
Mutual == \A n \in Nodes : \A x \in peers[n] :
    n \in peers[x] \/ VersionRPC(n, x) \in reqs \/ <<n, x>> \in failed

\* A node that knows an address, from a Version or from SendAddresses, has it
\* for a peer once the exchange has ended, unless something failed.
Settled == reqs = {} /\ failed = {}
KnownIsPeer == Settled => \A n \in Nodes : Known(n) = peers[n]

\* The exchange ends: nodes do not answer answers, and an address is not
\* forwarded in circles, however the timeouts fall.
Settles == []<>(reqs = {})
=============================================================================
