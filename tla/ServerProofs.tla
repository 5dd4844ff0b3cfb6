---------------------------- MODULE ServerProofs ----------------------------
(***************************************************************************)
(* Theorems about what runs beside the block tree of a node: the peering   *)
(* of its server, for every set of nodes, every limit and every number of  *)
(* broadcasts and pauses, and its miner, for every number of goroutines,   *)
(* transactions and blocks, and every interleaving of their steps.         *)
(*                                                                         *)
(* Mutual is not inductive: Version leaves its answer out when SentVer is  *)
(* set.  Offered says why that is right: whoever has SentVer set, or will  *)
(* when a call returns, has sent a Version that arrived, failed or is      *)
(* still in flight.                                                        *)
(***************************************************************************)
EXTENDS Peers, Miner, FiniteSetTheorems, TLAPS

(* Peering *)

\* x is a peer of n's, or n's Version has failed or is in flight.
Promise(n, x) == n \in peers[x] \/ VersionRPC(n, x) \in reqs \/ <<n, x>> \in failed

Offered == \A n, x \in Nodes : <<n, x>> \in sent \cup waiting => Promise(n, x)

\* The limits are counted, so the databases must be finite.
Finite == \A n \in Nodes : IsFiniteSet(Known(n)) /\ IsFiniteSet(peers[n])
DInv == PeersTypeOK /\ Finite /\ DbsAgree

PeersInv == PeersTypeOK /\ Mutual /\ Offered
-----------------------------------------------------------------------------
\* What Put does to the addresses that a node knows.
LEMMA PutKnown ==
    ASSUME PeersTypeOK, NEW n \in Nodes, NEW x \in Nodes, NEW s \in 0 .. Word - 1, Put(n, x, s)
    PROVE  /\ DOMAIN addrs' = Nodes
           /\ \A m \in Nodes : Known(m)' = IF m = n THEN Known(n) \cup {x} ELSE Known(m)
           /\ \A m \in Nodes : addrs'[m] \in [Known(m)' -> 0 .. Word - 1]
BY DEF PeersTypeOK, Put, Known

\* After it, the address databases are still typed.
LEMMA PutType ==
    ASSUME PeersTypeOK, NEW n \in Nodes, NEW x \in Nodes, NEW s \in 0 .. Word - 1, Put(n, x, s)
    PROVE  /\ DOMAIN addrs' = Nodes
           /\ \A m \in Nodes : Known(m)' \subseteq Nodes /\ addrs'[m] \in [Known(m)' -> 0 .. Word - 1]
<1>1. /\ DOMAIN addrs' = Nodes
      /\ \A m \in Nodes : Known(m)' = IF m = n THEN Known(n) \cup {x} ELSE Known(m)
      /\ \A m \in Nodes : addrs'[m] \in [Known(m)' -> 0 .. Word - 1]
  BY PutKnown
<1>2. \A m \in Nodes : Known(m) \subseteq Nodes
  BY DEF PeersTypeOK
<1>3. \A m \in Nodes : Known(m)' \subseteq Nodes
  BY <1>1, <1>2
<1> QED
  BY <1>1, <1>3

\* The time of the clock is a value of LastSeen.
LEMMA StampType == ASSUME PeersTypeOK PROVE Stamp \in 0 .. Word - 1 /\ (now + 1) % Word \in 0 .. Word - 1
BY PeersAssumption DEF PeersTypeOK, Stamp

\* The requests that the two stubs make.
LEMMA VersionType ==
    ASSUME NEW n \in Nodes, NEW x \in Nodes
    PROVE  /\ VersionRPC(n, x) \in Requests /\ VersionRPC(n, x).method = "Version"
           /\ VersionRPC(n, x).stamp = 0
           /\ VersionRPC(n, x).about = n /\ VersionRPC(n, x).to = x
BY PeersAssumption DEF VersionRPC, Call, Requests
LEMMA AddressesType ==
    ASSUME NEW n \in Nodes, NEW x \in Nodes, NEW s \in 0 .. Word - 1
    PROVE  /\ SendAddressesRPC(x, n, s) \in Requests
           /\ SendAddressesRPC(x, n, s).method = "SendAddresses"
BY DEF SendAddressesRPC, Call, Requests

\* A new network satisfies the invariant.
LEMMA InitPeersInv == PeersInit => PeersInv
BY PeersAssumption DEF PeersInit, NewAddressDb, NewPeerDb, PeersInv, PeersTypeOK, Mutual, Offered, Known
-----------------------------------------------------------------------------
\* Every step leads to a state of the right type.
LEMMA StepPeersType == ASSUME PeersTypeOK, PeersNext PROVE PeersTypeOK'
<1>1. ASSUME NEW n \in Nodes, NEW x \in Nodes, ConnectToPeer(n, x) PROVE PeersTypeOK'
  <2>1. n # x
    BY <1>1, PeersAssumption DEF ConnectToPeer, PeersTypeOK
  <2> QED
    BY <1>1, <2>1, VersionType DEF ConnectToPeer, PeersTypeOK, Known
<1>2. ASSUME NEW n \in Nodes, NEW x \in Nodes, Return(n, x) \/ Expire(n, x) PROVE PeersTypeOK'
  BY <1>2 DEF Return, Expire, PeersTypeOK, Known
<1>3. ASSUME NEW n \in Nodes, BroadcastAddr(n) PROVE PeersTypeOK'
  <2>1. now' \in Nat /\ now' % Word \in 0 .. Word - 1
    BY <1>3, StampType DEF BroadcastAddr, PeersTypeOK
  <2>2. \A r \in reqs' : r \in Requests /\ (r.method = "Version" => r.about # r.to /\ r.stamp = 0)
    BY <1>3, <2>1, AddressesType DEF BroadcastAddr, PeersTypeOK
  <2> QED
    BY <1>3, <2>1, <2>2 DEF BroadcastAddr, PeersTypeOK, Known
<1>4. ASSUME NEW n \in Nodes, PauseNetwork(n) \/ ResumeNetwork(n) PROVE PeersTypeOK'
  BY <1>4 DEF PauseNetwork, ResumeNetwork, PeersTypeOK, Known
<1>5. ASSUME NEW r \in reqs, Handle(r), r.method = "Version" PROVE PeersTypeOK'
  <2>1. r \in Requests /\ r.about \in Nodes /\ r.to \in Nodes /\ r.about # r.to
    BY <1>5 DEF PeersTypeOK, Requests
  <2>2. CASE RejectVersion(r)
    BY <1>5, <2>1, <2>2 DEF Handle, VersionHandler, SendAddressesHandler, RejectVersion, PeersTypeOK, Known
  <2>3. CASE AcceptVersion(r)
    <3>0. Put(r.to, r.about, Stamp) /\ Stamp \in 0 .. Word - 1
      BY <2>3, StampType DEF AcceptVersion
    <3>1. /\ DOMAIN addrs' = Nodes
          /\ \A m \in Nodes : Known(m)' \subseteq Nodes /\ addrs'[m] \in [Known(m)' -> 0 .. Word - 1]
      BY <2>1, <3>0, PutType
    <3>2. \A q \in reqs' : q \in Requests /\ (q.method = "Version" => q.about # q.to /\ q.stamp = 0)
      BY <2>1, <2>3, VersionType DEF AcceptVersion, PeersTypeOK
    <3>3. /\ peers' \in [Nodes -> SUBSET Nodes] /\ sent' \subseteq Nodes \X Nodes
          /\ waiting' \subseteq Nodes \X Nodes /\ failed' \subseteq Nodes \X Nodes
      BY <2>1, <2>3 DEF AcceptVersion, PeersTypeOK
    <3> QED
      BY <1>5, <3>1, <3>2, <3>3 DEF Handle, VersionHandler, SendAddressesHandler, PeersTypeOK
  <2> QED
    BY <1>5, <2>2, <2>3 DEF Handle, VersionHandler, SendAddressesHandler, Version
<1>6. ASSUME NEW r \in reqs, Handle(r), SendAddresses(r) PROVE PeersTypeOK'
  <2>1. r \in Requests /\ r.about \in Nodes /\ r.to \in Nodes /\ r.stamp \in 0 .. Word - 1
    BY <1>6 DEF PeersTypeOK, Requests
  <2>2. CASE r.about = r.to
    BY <1>6, <2>2 DEF Handle, VersionHandler, SendAddressesHandler, SendAddresses, PeersTypeOK, Known
  <2>3. CASE r.about # r.to
    <3>1. Spread(r.to, r.about, r) /\ UNCHANGED <<peers, sent, failed, status, now, todo, pauses>>
      BY <1>6, <2>3 DEF Handle, VersionHandler, SendAddressesHandler, SendAddresses
    <3>2. /\ DOMAIN addrs' = Nodes
          /\ \A m \in Nodes : Known(m)' \subseteq Nodes /\ addrs'[m] \in [Known(m)' -> 0 .. Word - 1]
      <4>1. CASE Put(r.to, r.about, r.stamp)
        BY <2>1, <4>1, PutType
      <4>2. CASE UNCHANGED addrs
        BY <4>2 DEF PeersTypeOK, Known
      <4> QED
        BY <3>1, <4>1, <4>2 DEF Spread, Learn
    <3>3. PICK S \in SUBSET Nodes :
              reqs' = (reqs \ {r}) \cup Greeting(r.to, r.about)
                      \cup {SendAddressesRPC(y, r.about, r.stamp) : y \in S}
      BY <2>1, <3>1 DEF Spread, GetRandom, PeersTypeOK
    <3>4. \A q \in reqs' : q \in Requests /\ (q.method = "Version" => q.about # q.to /\ q.stamp = 0)
      BY <2>1, <2>3, <3>3, VersionType, AddressesType DEF Greeting, PeersTypeOK
    <3>5. waiting' \subseteq Nodes \X Nodes
      BY <2>1, <3>1 DEF Spread, PeersTypeOK
    <3> QED
      BY <3>1, <3>2, <3>4, <3>5 DEF PeersTypeOK
  <2> QED
    BY <2>2, <2>3
<1>7. ASSUME NEW r \in reqs, Fail(r) PROVE PeersTypeOK'
  BY <1>7 DEF Fail, PeersTypeOK, Known, Requests
<1> QED
  BY <1>1, <1>2, <1>3, <1>4, <1>5, <1>6, <1>7 DEF PeersNext, Deliver, Handle, VersionHandler, SendAddressesHandler

\* A promise is kept by every step: what removes a Version from the network
\* either makes its sender a peer or counts it as failed.
LEMMA PromiseKept ==
    ASSUME PeersTypeOK, PeersNext, NEW n \in Nodes, NEW x \in Nodes, Promise(n, x)
    PROVE  Promise(n, x)'
<1> USE DEF Promise
<1>1. (n \in peers[x] => n \in peers'[x]) /\ (<<n, x>> \in failed => <<n, x>> \in failed')
  <2>1. CASE UNCHANGED <<peers, failed>>
    BY <2>1
  <2>2. ASSUME NEW r \in reqs, AcceptVersion(r)
        PROVE  (n \in peers[x] => n \in peers'[x]) /\ failed \subseteq failed'
    BY <2>2 DEF AcceptVersion, PeersTypeOK
  <2>3. ASSUME NEW r \in reqs, RejectVersion(r) \/ Fail(r) PROVE peers' = peers /\ failed \subseteq failed'
    BY <2>3 DEF RejectVersion, Fail
  <2> QED
    BY <2>1, <2>2, <2>3
    DEF PeersNext, ConnectToPeer, Return, Expire, BroadcastAddr, PauseNetwork, ResumeNetwork, Deliver,
        Handle, VersionHandler, SendAddressesHandler, Version, SendAddresses
<1>2. ASSUME VersionRPC(n, x) \in reqs, VersionRPC(n, x) \notin reqs'
      PROVE  n \in peers'[x] \/ <<n, x>> \in failed'
  <2>1. PICK r \in reqs : (Handle(r) \/ Fail(r)) /\ VersionRPC(n, x) \notin reqs'
    BY <1>2 DEF PeersNext, ConnectToPeer, Return, Expire, BroadcastAddr, PauseNetwork, ResumeNetwork, Deliver
  <2>2. r = VersionRPC(n, x)
    BY <1>2, <2>1 DEF Handle, VersionHandler, SendAddressesHandler, Fail, Version, RejectVersion, AcceptVersion, SendAddresses, Spread
  <2>3. r.method = "Version" /\ r.about = n /\ r.to = x
    BY <2>2, VersionType
  <2> QED
    BY <2>1, <2>3 DEF Handle, VersionHandler, SendAddressesHandler, Fail, Version, RejectVersion, AcceptVersion
<1> QED
  BY <1>1, <1>2

\* A step that makes a peer promises that the other side will have it too.
LEMMA StepMutual == ASSUME PeersInv, PeersNext PROVE Mutual'
<1> SUFFICES ASSUME NEW n \in Nodes, NEW x \in peers'[n] PROVE Promise(n, x)'
  BY DEF Mutual, Promise
<1>1. x \in Nodes /\ PeersTypeOK
  BY StepPeersType DEF PeersInv, PeersTypeOK
<1>2. CASE x \in peers[n]
  BY <1>1, <1>2, PromiseKept DEF PeersInv, Mutual, Promise
<1>3. CASE x \notin peers[n]
  <2>1. PICK r \in reqs : AcceptVersion(r) /\ r.to = n /\ r.about = x
    <3>1. PICK r \in reqs : AcceptVersion(r)
      BY <1>3 DEF PeersNext, ConnectToPeer, Return, Expire, BroadcastAddr, PauseNetwork, ResumeNetwork,
                  Deliver, Handle, VersionHandler, SendAddressesHandler, Fail, Version, RejectVersion, SendAddresses
    <3>2. r.to = n /\ r.about = x
      BY <1>1, <1>3, <3>1 DEF AcceptVersion, PeersTypeOK
    <3> QED
      BY <3>1, <3>2
  <2>2. AddsPeer(n, x)
    BY <1>3, <2>1 DEF AcceptVersion, PeersInv, PeersTypeOK
  <2>3. CASE Pending(n, x)
    BY <1>1, <2>3, PromiseKept DEF Pending, PeersInv, Offered
  <2>4. CASE ~Pending(n, x)
    BY <2>1, <2>2, <2>4 DEF AcceptVersion, Promise
  <2> QED
    BY <2>3, <2>4
<1> QED
  BY <1>2, <1>3

\* A step that sets SentVer, or starts a call that will, has sent a Version.
LEMMA StepOffered == ASSUME PeersInv, PeersNext PROVE Offered'
<1> SUFFICES ASSUME NEW n \in Nodes, NEW x \in Nodes, <<n, x>> \in (sent \cup waiting)'
             PROVE  Promise(n, x)'
  BY DEF Offered
<1>1. CASE <<n, x>> \in sent \cup waiting
  BY <1>1, PromiseKept DEF PeersInv, Offered
<1>2. CASE <<n, x>> \notin sent \cup waiting
  <2>1. PICK r \in reqs : SendAddresses(r) /\ r.to = n /\ r.about = x /\ r.about # r.to
    BY <1>2, ZenonT(60) DEF PeersNext, ConnectToPeer, Return, Expire, BroadcastAddr, PauseNetwork, ResumeNetwork, Deliver,
         Handle, VersionHandler, SendAddressesHandler, Fail, Version, RejectVersion, AcceptVersion, SendAddresses, Spread
  <2>2. VersionRPC(n, x) \in reqs'
    BY <2>1 DEF SendAddresses, Spread, Greeting
  <2> QED
    BY <2>2 DEF Promise
<1> QED
  BY <1>1, <1>2

LEMMA NextPeersInv == PeersInv /\ [PeersNext]_peerVars => PeersInv'
<1>1. ASSUME PeersInv, PeersNext PROVE PeersInv'
  BY <1>1, StepPeersType, StepMutual, StepOffered DEF PeersInv
<1>2. ASSUME PeersInv, UNCHANGED peerVars PROVE PeersInv'
  BY <1>2 DEF PeersInv, peerVars, PeersTypeOK, Mutual, Offered, Promise, Known
<1> QED
  BY <1>1, <1>2

LEMMA AlwaysIInv == PeersSpec => []PeersInv
BY InitPeersInv, NextPeersInv, PTL DEF PeersSpec
-----------------------------------------------------------------------------
(* The limits of the databases *)

\* An element more in a finite set that is below its limit.
LEMMA OneMore ==
    ASSUME NEW S, NEW x, NEW lim \in Nat, IsFiniteSet(S), x \notin S, Cardinality(S) < lim
    PROVE  IsFiniteSet(S \cup {x}) /\ Cardinality(S \cup {x}) <= lim
<1>1. IsFiniteSet(S \cup {x}) /\ Cardinality(S \cup {x}) = Cardinality(S) + 1
  BY FS_AddElement, Zenon
<1>2. Cardinality(S) \in Nat
  BY FS_CardinalityType, Zenon
<1> QED
  BY <1>1, <1>2

\* Putting x among the addresses of n when it is known or when there is room.
LEMMA PutAgrees ==
    ASSUME DInv, NEW n \in Nodes, NEW x \in Nodes, NEW s \in 0 .. Word - 1, Put(n, x, s),
           x # n, x \in Known(n) \/ HasRoom(n)
    PROVE  \A m \in Nodes : /\ IsFiniteSet(Known(m)') /\ Cardinality(Known(m)') <= AddrLimit
                            /\ m \notin Known(m)' /\ Known(m) \subseteq Known(m)'
                            /\ (m = n => x \in Known(m)')
<1> TAKE m \in Nodes
<1>1. Known(m)' = IF m = n THEN Known(n) \cup {x} ELSE Known(m)
  BY PutKnown DEF DInv
<1>2. IsFiniteSet(Known(m)) /\ Cardinality(Known(m)) <= AddrLimit /\ m \notin Known(m)
  BY DEF DInv, Finite, DbsAgree
<1>3. CASE m = n /\ x \notin Known(n)
  <2>1. IsFiniteSet(Known(n) \cup {x}) /\ Cardinality(Known(n) \cup {x}) <= AddrLimit
    <3>1. AddrLimit \in Nat /\ IsFiniteSet(Known(n)) /\ x \notin Known(n)
          /\ Cardinality(Known(n)) < AddrLimit
      BY <1>2, <1>3, PeersAssumption DEF HasRoom
    <3> QED
      BY <3>1, OneMore, Zenon
  <2>2. Known(m)' = Known(n) \cup {x}
    BY <1>1, <1>3
  <2> QED
    BY <1>2, <1>3, <2>1, <2>2
<1>4. CASE m = n /\ x \in Known(n)
  <2>1. Known(m)' = Known(m)
    BY <1>1, <1>4
  <2> QED
    BY <1>2, <1>4, <2>1
<1>5. CASE m # n
  BY <1>1, <1>2, <1>5
<1> QED
  BY <1>3, <1>4, <1>5

\* The handler of Version keeps the databases in order.
LEMMA AcceptAgrees ==
    ASSUME DInv, NEW r \in reqs, AcceptVersion(r), r.method = "Version" PROVE (Finite /\ DbsAgree)'
<1> DEFINE n == r.to
           x == r.about
<1>1. n \in Nodes /\ x \in Nodes /\ x # n
  BY DEF DInv, PeersTypeOK, Requests
<1>2. Put(n, x, Stamp) /\ Stamp \in 0 .. Word - 1 /\ (x \in Known(n) \/ HasRoom(n))
  BY StampType DEF DInv, AcceptVersion, Rejects
<1>3. \A m \in Nodes : /\ IsFiniteSet(Known(m)') /\ Cardinality(Known(m)') <= AddrLimit
                       /\ m \notin Known(m)' /\ Known(m) \subseteq Known(m)'
                       /\ (m = n => x \in Known(m)')
  BY <1>1, <1>2, PutAgrees
<1>4. ASSUME NEW m \in Nodes
      PROVE  IsFiniteSet(peers'[m]) /\ Cardinality(peers'[m]) <= PeerLimit /\ peers'[m] \subseteq Known(m)'
  <2>1. IsFiniteSet(peers[m]) /\ Cardinality(peers[m]) <= PeerLimit /\ peers[m] \subseteq Known(m)
    BY DEF DInv, Finite, DbsAgree
  <2>2. CASE m = n /\ AddsPeer(n, x)
    <3>1. peers'[m] = peers[m] \cup {x}
      BY <1>1, <2>2 DEF AcceptVersion, DInv, PeersTypeOK
    <3>2. x \notin peers[m] /\ Cardinality(peers[m]) < PeerLimit
      BY <2>2 DEF AddsPeer
    <3> QED
      <4>1. PeerLimit \in Nat
        BY PeersAssumption
      <4>2. IsFiniteSet(peers[m] \cup {x}) /\ Cardinality(peers[m] \cup {x}) <= PeerLimit
        BY <2>1, <3>2, <4>1, OneMore, Zenon
      <4> QED
        BY <1>3, <2>1, <2>2, <3>1, <4>2
  <2>3. CASE ~(m = n /\ AddsPeer(n, x))
    <3>1. peers'[m] = peers[m]
      BY <1>1, <2>3 DEF AcceptVersion, DInv, PeersTypeOK
    <3> QED
      BY <1>3, <2>1, <3>1
  <2> QED
    BY <2>2, <2>3
<1>5. ASSUME NEW m \in Nodes, NEW y \in Nodes, <<m, y>> \in (sent \cup waiting)'
      PROVE  y \in Known(m)' /\ y \notin peers'[m]
  <2>1. <<m, y>> \in sent \cup waiting /\ (AddsPeer(n, x) => <<m, y>> # <<n, x>>)
    BY <1>5 DEF AcceptVersion
  <2>2. y \in Known(m) /\ y \notin peers[m]
    BY <2>1 DEF DInv, DbsAgree
  <2> QED
    BY <1>1, <1>3, <2>1, <2>2 DEF AcceptVersion, DInv, PeersTypeOK
<1> QED
  BY <1>3, <1>4, <1>5 DEF Finite, DbsAgree

\* So does the handler of SendAddresses.
LEMMA SpreadAgrees ==
    ASSUME DInv, NEW r \in reqs, SendAddresses(r) PROVE (Finite /\ DbsAgree)'
<1> DEFINE n == r.to
           x == r.about
<1>1. n \in Nodes /\ x \in Nodes /\ r.stamp \in 0 .. Word - 1
  BY DEF DInv, PeersTypeOK, Requests
<1>2. CASE UNCHANGED <<addrs, waiting>>
  BY <1>2 DEF SendAddresses, DInv, Finite, DbsAgree, Known
<1>3. CASE x # n /\ Put(n, x, r.stamp) /\ (x \in Known(n) \/ HasRoom(n))
  <2>1. \A m \in Nodes : /\ IsFiniteSet(Known(m)') /\ Cardinality(Known(m)') <= AddrLimit
                         /\ m \notin Known(m)' /\ Known(m) \subseteq Known(m)'
                         /\ (m = n => x \in Known(m)')
    BY <1>1, <1>3, PutAgrees
  <2>2. /\ peers' = peers /\ sent' = sent
        /\ waiting' = waiting \/ (x \notin Known(n) /\ waiting' = waiting \cup {<<n, x>>})
    BY <1>3 DEF SendAddresses, Spread
  <2>3. \A m, y \in Nodes : <<m, y>> \in (sent \cup waiting)' => y \in Known(m)' \ peers'[m]
    BY <1>1, <2>1, <2>2 DEF DInv, DbsAgree
  <2> QED
    BY <2>1, <2>2, <2>3 DEF DInv, Finite, DbsAgree
<1>4. CASE x # n /\ UNCHANGED addrs /\ (x \in Known(n) \/ ~HasRoom(n))
  BY <1>2, <1>4 DEF SendAddresses, Spread
<1> QED
  BY <1>2, <1>3, <1>4 DEF SendAddresses, Spread, Learn

LEMMA NextDInv == DInv /\ [PeersNext]_peerVars => DInv'
<1>1. ASSUME DInv, PeersNext PROVE (Finite /\ DbsAgree)'
  <2>1. CASE UNCHANGED <<addrs, peers, sent, waiting>>
    BY <1>1, <2>1 DEF DInv, Finite, DbsAgree, Known
  <2>2. ASSUME NEW n \in Nodes, NEW x \in Nodes, Return(n, x) \/ Expire(n, x)
        PROVE  (Finite /\ DbsAgree)'
    BY <1>1, <2>2 DEF Return, Expire, DInv, Finite, DbsAgree, Known
  <2> QED
    BY <1>1, <2>1, <2>2, AcceptAgrees, SpreadAgrees
    DEF PeersNext, ConnectToPeer, BroadcastAddr, PauseNetwork, ResumeNetwork, Deliver,
        Handle, VersionHandler, SendAddressesHandler, Fail, Version, RejectVersion
<1>2. ASSUME DInv, UNCHANGED peerVars PROVE DInv'
  BY <1>2 DEF DInv, peerVars, PeersTypeOK, Finite, DbsAgree, Known
<1> QED
  BY <1>1, <1>2, StepPeersType DEF DInv

LEMMA InitDInv == PeersInit => DInv
<1> SUFFICES ASSUME PeersInit PROVE DInv
  OBVIOUS
<1>1. \A n \in Nodes : Known(n) = {} /\ peers[n] = {}
  BY DEF PeersInit, NewAddressDb, NewPeerDb, Known
<1>2. IsFiniteSet({}) /\ Cardinality({}) = 0
  BY FS_EmptySet
<1> QED
  <2>1. PeersTypeOK
    BY InitPeersInv DEF PeersInv
  <2>2. Finite
    BY <1>1, <1>2, Zenon DEF Finite
  <2>3. DbsAgree
    <3>1. \A n \in Nodes : Cardinality(Known(n)) = 0 /\ Cardinality(peers[n]) = 0
      BY <1>1, <1>2, Zenon
    <3> QED
      BY <1>1, <3>1, PeersAssumption DEF DbsAgree, PeersInit, NewAddressDb, NewPeerDb
  <2> QED
    BY <2>1, <2>2, <2>3 DEF DInv
-----------------------------------------------------------------------------
(* Addresses become peers *)

\* A node has sent a Version to every address that it knows, or has turned
\* down the Version that it knows the address from.
Greeted == \A n \in Nodes : \A x \in Known(n) : Promise(n, x) \/ <<x, n>> \in failed

\* No step forgets a failure.
LEMMA FailedStays == ASSUME PeersNext PROVE failed \subseteq failed'
<1>1. ASSUME NEW r \in reqs, Handle(r) \/ Fail(r) PROVE failed \subseteq failed'
  BY <1>1 DEF Handle, Fail, VersionHandler, SendAddressesHandler, Version, RejectVersion,
              AcceptVersion, SendAddresses
<1> QED
  BY <1>1 DEF PeersNext, ConnectToPeer, Return, Expire, BroadcastAddr, PauseNetwork, ResumeNetwork, Deliver

\* What adds an address to a database makes a peer of it or greets it.
LEMMA StepGreeted == ASSUME PeersInv, PeersInv', Greeted, PeersNext PROVE Greeted'
<1> SUFFICES ASSUME NEW n \in Nodes, NEW x \in Known(n)'
             PROVE  (Promise(n, x) \/ <<x, n>> \in failed)'
  BY DEF Greeted
<1>1. x \in Nodes /\ PeersTypeOK
  BY DEF PeersInv, PeersTypeOK
<1>2. CASE x \in Known(n)
  BY <1>1, <1>2, PromiseKept, FailedStays DEF Greeted
<1>3. CASE x \notin Known(n)
  <2>1. PICK r \in reqs : AcceptVersion(r) \/ (SendAddresses(r) /\ r.about # r.to)
    BY <1>3 DEF PeersNext, ConnectToPeer, Return, Expire, BroadcastAddr, PauseNetwork, ResumeNetwork,
                Deliver, Handle, VersionHandler, SendAddressesHandler, Fail, Version, RejectVersion,
                SendAddresses, Known
  <2>2. r.to \in Nodes /\ r.about \in Nodes /\ r.stamp \in 0 .. Word - 1
    BY <1>1 DEF PeersTypeOK, Requests
  <2>3. CASE AcceptVersion(r)
    <3>1. r.to = n /\ r.about = x
      <4>1. Put(r.to, r.about, Stamp)
        BY <2>3 DEF AcceptVersion
      <4> QED
        BY <1>1, <1>3, <2>2, <4>1, PutKnown, StampType
    <3>2. x \in peers'[n] \/ <<x, n>> \in failed'
      BY <2>3, <3>1 DEF AcceptVersion
    <3> QED
      BY <3>2 DEF PeersInv, Mutual, Promise
  <2>4. CASE SendAddresses(r) /\ r.about # r.to
    <3>1. Learn(r.to, r.about, r.stamp) /\ VersionRPC(r.to, r.about) \in reqs'
      BY <2>4 DEF SendAddresses, Spread, Greeting
    <3>2. Put(r.to, r.about, r.stamp)
      BY <1>3, <3>1 DEF Learn, Known
    <3>3. r.to = n /\ r.about = x
      BY <1>1, <1>3, <2>2, <3>2, PutKnown
    <3> QED
      BY <3>1, <3>3 DEF Promise
  <2> QED
    BY <2>1, <2>3, <2>4
<1> QED
  BY <1>2, <1>3
-----------------------------------------------------------------------------
\* Every reachable state of the peering of any nodes is well typed.
THEOREM PeerTypes == PeersSpec => []PeersTypeOK
BY AlwaysIInv, PTL DEF PeersInv

\* Peering is mutual in any network, whatever requests overtake one another,
\* fail or time out (Version, server.go).
THEOREM PeersMutual == PeersSpec => []Mutual
BY AlwaysIInv, PTL DEF PeersInv

\* The two databases of a node agree and stay below their limits, for every
\* limit (Add in addressdb and in peer).
THEOREM DatabasesAgree == PeersSpec => []DbsAgree
<1>1. DInv => DbsAgree
  BY DEF DInv
<1> QED
  BY <1>1, InitDInv, NextDInv, PTL DEF PeersSpec

\* Once nothing is in flight and nothing has failed, the addresses that a node
\* knows are its peers: no way of learning an address skips the handshake, and
\* no answer that Version leaves out was needed.
THEOREM AddressesBecomePeers == PeersSpec => []KnownIsPeer
<1>1. PeersInit => Greeted
  BY DEF PeersInit, NewAddressDb, Greeted, Known
<1>2. PeersInv /\ PeersInv' /\ Greeted /\ [PeersNext]_peerVars => Greeted'
  <2>1. Greeted /\ UNCHANGED peerVars => Greeted'
    BY DEF Greeted, peerVars, Known, Promise
  <2> QED
    BY <2>1, StepGreeted
<1>3. PeersInv /\ DbsAgree /\ Greeted => KnownIsPeer
  <2> SUFFICES ASSUME PeersInv, DbsAgree, Greeted, reqs = {}, failed = {}, NEW n \in Nodes
               PROVE  Known(n) = peers[n]
    BY DEF KnownIsPeer, Settled
  <2>1. peers[n] \subseteq Known(n) /\ Known(n) \subseteq Nodes
    BY DEF DbsAgree, PeersInv, PeersTypeOK
  <2>2. ASSUME NEW x \in Known(n) PROVE x \in peers[n]
    <3>1. n \in peers[x]
      BY DEF Greeted, Promise
    <3> QED
      BY <2>1, <3>1 DEF PeersInv, Mutual
  <2> QED
    BY <2>1, <2>2
<1>4. PeersSpec => []Greeted
  BY <1>1, <1>2, AlwaysIInv, PTL DEF PeersSpec
<1> QED
  BY <1>3, <1>4, AlwaysIInv, DatabasesAgree, PTL
-----------------------------------------------------------------------------
(* The miner *)

\* A searching goroutine that was not told to stop is the one whose context
\* the loop holds, and the loop is not about to start another one.
LiveIsCurrent ==
    \A w \in Workers : pc[w] \in Searching => w \in cancelled \/ (w = cur /\ loop # "got")

\* A goroutine is in the queue of the channel at most once, and waits there.
QueueWaits == /\ \A i \in 1 .. Len(queue) : pc[queue[i]] = "wait"
              /\ \A i, j \in 1 .. Len(queue) : queue[i] = queue[j] => i = j

\* The blocks that the node has or is about to add.
KnownBlks == stored \cup inbox

\* A goroutine between these points has a block that the node knows...
HasKnown == {"chk", "load", "send", "wait", "hash"}

\* ...and between these a block that is built on one.
HasNew == {"nonce", "sendblk"}

\* Every block that the miner builds on, works on or hands over.
BlocksKnown ==
    /\ \A b, c \in inbox : b = c
    /\ prvHsh \in KnownBlks
    /\ \A b \in KnownBlks : b.depth \in Nat
    /\ \A p \in Fwd \cup Workers :
          /\ pc[p] \in HasKnown => blk[p] \in KnownBlks
          /\ pc[p] \in HasNew => blk[p].prev \in KnownBlks /\ blk[p].depth \in Nat
          /\ pc[p] \in {"addmain", "addfork"} => blk[p].depth \in Nat

BlkType == DOMAIN blk = Procs

\* Handlers of transactions and control calls never get to a block.
HandlersOnly == \A p \in Txs \cup Ctl : pc[p] \in {"idle", "load", "send", "wait", "done"}

\* What a step may disturb, in one inductive invariant.
IInv == /\ TypeOK /\ BlkType /\ HandlersOnly
        /\ LiveIsCurrent /\ QueueWaits /\ BlocksKnown /\ OwnNeverOrphan
-----------------------------------------------------------------------------
\* A miner that has just been made satisfies the invariant.
LEMMA InitIInv == Init => IInv
<1> SUFFICES ASSUME Init PROVE IInv
  OBVIOUS
<1> USE MinerAssumption DEF Init
<1>1. active \in BOOLEAN /\ crashed \in BOOLEAN
  BY Zenon
<1>2. TypeOK /\ BlkType
  BY <1>1 DEF TypeOK, BlkType, Genesis
<1>3. LiveIsCurrent /\ QueueWaits /\ HandlersOnly
  BY DEF LiveIsCurrent, QueueWaits, HandlersOnly, Searching, Procs
<1>4. BlocksKnown /\ OwnNeverOrphan
  BY DEF BlocksKnown, OwnNeverOrphan, KnownBlks, HasKnown, HasNew, Genesis, Procs
<1> QED
  BY <1>2, <1>3, <1>4 DEF IInv

\* The worker that the loop starts is one that does not run.
LEMMA FreeWorkerIsFree == Free # {} => FreeWorker \in Workers /\ pc[FreeWorker] \in {"idle", "done"}
BY DEF Free, FreeWorker

\* The goroutine that the loop serves, and those that wait behind it.
LEMMA QueueHead ==
    ASSUME TypeOK, queue # <<>>
    PROVE  /\ Len(queue) \in Nat \ {0}
           /\ Head(queue) = queue[1] /\ queue[1] \in Procs
           /\ Len(Tail(queue)) = Len(queue) - 1
           /\ \A i \in 1 .. Len(queue) - 1 : Tail(queue)[i] = queue[i + 1]
BY DEF TypeOK

\* Every step leads to a state of the right type.
LEMMA StepType == ASSUME IInv, Next PROVE TypeOK' /\ BlkType'
<1> USE MinerAssumption DEF IInv, TypeOK, BlkType, Procs
<1>1. ASSUME NEW p \in Procs, Load(p), UNCHANGED crashed PROVE TypeOK' /\ BlkType'
  BY <1>1 DEF Load, AfterSend, Goto
<1>2. ASSUME NEW p \in Procs, Send(p), UNCHANGED crashed PROVE TypeOK' /\ BlkType'
  BY <1>2 DEF Send, Goto
<1>3. ASSUME NEW p \in Procs, ChkTxs(p), UNCHANGED crashed PROVE TypeOK' /\ BlkType'
  BY <1>3 DEF ChkTxs, Goto
<1>4. ASSUME NEW p \in Procs, SetHash(p), UNCHANGED crashed PROVE TypeOK' /\ BlkType'
  BY <1>4 DEF SetHash, Goto, BlocksKnown, HasKnown, HandlersOnly
<1>5. ASSUME NEW t \in Txs, HndlTx(t), UNCHANGED crashed PROVE TypeOK' /\ BlkType'
  BY <1>5 DEF HndlTx, Goto
<1>6. ASSUME NEW c \in Ctl, Control(c), UNCHANGED crashed PROVE TypeOK' /\ BlkType'
  BY <1>6 DEF Control, StartMiner, Goto
<1>7. ASSUME NEW f \in Fwd, FwdArrives(f), UNCHANGED crashed PROVE TypeOK' /\ BlkType'
  BY <1>7 DEF FwdArrives, Goto
<1>8. ASSUME NEW f \in Fwd, FwdAdds(f), UNCHANGED crashed PROVE TypeOK' /\ BlkType'
  BY <1>8 DEF FwdAdds, AddToChain, Goto
<1>9. ASSUME Receive, UNCHANGED crashed PROVE TypeOK' /\ BlkType'
  BY <1>9 DEF Receive, AfterSend
<1>10. ASSUME Spawn, UNCHANGED crashed PROVE TypeOK' /\ BlkType'
  BY <1>10, FreeWorkerIsFree DEF Spawn, Goto
<1>11. ASSUME NEW w \in Workers, TakeBlk(w), UNCHANGED crashed PROVE TypeOK' /\ BlkType'
  BY <1>11 DEF TakeBlk, Goto
<1>12. ASSUME NEW w \in Workers, CheckPri(w) PROVE TypeOK' /\ BlkType'
  BY <1>12 DEF CheckPri, Ends, Goto
<1>13. ASSUME NEW w \in Workers, Build(w) PROVE TypeOK' /\ BlkType'
  BY <1>13 DEF Build, Goto
<1>14. ASSUME NEW w \in Workers, CalcNonce(w) PROVE TypeOK' /\ BlkType'
  BY <1>14 DEF CalcNonce, Ends, Goto
<1>15. ASSUME HndlMnrBlk PROVE TypeOK' /\ BlkType'
  <2>1. PICK b \in inbox : AddToChain(b) /\ UNCHANGED crashed
    BY <1>15 DEF HndlMnrBlk, OwnNeverOrphan
  <2> QED
    BY <1>15, <2>1 DEF HndlMnrBlk, AddToChain
<1> QED
  BY <1>1, <1>2, <1>3, <1>4, <1>5, <1>6, <1>7, <1>8, <1>9, <1>10,
     <1>11, <1>12, <1>13, <1>14, <1>15
     DEF Next, System, Arrival, Step, WorkerStep

\* Handlers of transactions and control calls stay away from blocks.
LEMMA StepHandlers == ASSUME IInv, Next PROVE HandlersOnly'
<1> USE MinerAssumption DEF IInv, TypeOK, HandlersOnly, Procs
<1>1. ASSUME NEW p \in Procs, Load(p), UNCHANGED crashed PROVE HandlersOnly'
  BY <1>1 DEF Load, AfterSend, Goto
<1>2. ASSUME NEW p \in Procs, Send(p), UNCHANGED crashed PROVE HandlersOnly'
  BY <1>2 DEF Send, Goto
<1>3. ASSUME NEW p \in Procs, ChkTxs(p), UNCHANGED crashed PROVE HandlersOnly'
  BY <1>3 DEF ChkTxs, Goto
<1>4. ASSUME NEW p \in Procs, SetHash(p), UNCHANGED crashed PROVE HandlersOnly'
  BY <1>4 DEF SetHash, Goto
<1>5. ASSUME NEW t \in Txs, HndlTx(t), UNCHANGED crashed PROVE HandlersOnly'
  BY <1>5 DEF HndlTx, Goto
<1>6. ASSUME NEW c \in Ctl, Control(c), UNCHANGED crashed PROVE HandlersOnly'
  BY <1>6 DEF Control, StartMiner, Goto
<1>7. ASSUME NEW f \in Fwd, FwdArrives(f), UNCHANGED crashed PROVE HandlersOnly'
  BY <1>7 DEF FwdArrives, Goto
<1>8. ASSUME NEW f \in Fwd, FwdAdds(f), UNCHANGED crashed PROVE HandlersOnly'
  BY <1>8 DEF FwdAdds, AddToChain, Goto
<1>9. ASSUME Receive, UNCHANGED crashed PROVE HandlersOnly'
  BY <1>9 DEF Receive, AfterSend
<1>10. ASSUME Spawn, UNCHANGED crashed PROVE HandlersOnly'
  BY <1>10, FreeWorkerIsFree DEF Spawn, Goto
<1>11. ASSUME NEW w \in Workers, TakeBlk(w), UNCHANGED crashed PROVE HandlersOnly'
  BY <1>11 DEF TakeBlk, Goto
<1>12. ASSUME NEW w \in Workers, CheckPri(w) PROVE HandlersOnly'
  BY <1>12 DEF CheckPri, Ends, Goto
<1>13. ASSUME NEW w \in Workers, Build(w) PROVE HandlersOnly'
  BY <1>13 DEF Build, Goto
<1>14. ASSUME NEW w \in Workers, CalcNonce(w) PROVE HandlersOnly'
  BY <1>14 DEF CalcNonce, Ends, Goto
<1>15. ASSUME HndlMnrBlk PROVE HandlersOnly'
  BY <1>15 DEF HndlMnrBlk, AddToChain
<1> QED
  BY <1>1, <1>2, <1>3, <1>4, <1>5, <1>6, <1>7, <1>8, <1>9, <1>10,
     <1>11, <1>12, <1>13, <1>14, <1>15
     DEF Next, System, Arrival, Step, WorkerStep

\* The loop cancels before it starts another goroutine.
LEMMA StepLive == ASSUME IInv, Next PROVE LiveIsCurrent'
<1> USE MinerAssumption DEF IInv, TypeOK, LiveIsCurrent, Searching, Procs
<1>1. ASSUME NEW p \in Procs, Load(p), UNCHANGED crashed PROVE LiveIsCurrent'
  BY <1>1 DEF Load, AfterSend, Goto
<1>2. ASSUME NEW p \in Procs, Send(p), UNCHANGED crashed PROVE LiveIsCurrent'
  BY <1>2 DEF Send, Goto
<1>3. ASSUME NEW p \in Procs, ChkTxs(p), UNCHANGED crashed PROVE LiveIsCurrent'
  BY <1>3 DEF ChkTxs, Goto
<1>4. ASSUME NEW p \in Procs, SetHash(p), UNCHANGED crashed PROVE LiveIsCurrent'
  BY <1>4 DEF SetHash, Goto
<1>5. ASSUME NEW t \in Txs, HndlTx(t), UNCHANGED crashed PROVE LiveIsCurrent'
  BY <1>5 DEF HndlTx, Goto
<1>6. ASSUME NEW c \in Ctl, Control(c), UNCHANGED crashed PROVE LiveIsCurrent'
  BY <1>6 DEF Control, StartMiner, Goto
<1>7. ASSUME NEW f \in Fwd, FwdArrives(f), UNCHANGED crashed PROVE LiveIsCurrent'
  BY <1>7 DEF FwdArrives, Goto
<1>8. ASSUME NEW f \in Fwd, FwdAdds(f), UNCHANGED crashed PROVE LiveIsCurrent'
  BY <1>8 DEF FwdAdds, AddToChain, Goto
<1>9. ASSUME Receive, UNCHANGED crashed PROVE LiveIsCurrent'
  BY <1>9 DEF Receive, AfterSend
<1>10. ASSUME Spawn, UNCHANGED crashed PROVE LiveIsCurrent'
  BY <1>10, FreeWorkerIsFree DEF Spawn, Goto
<1>11. ASSUME NEW w \in Workers, TakeBlk(w), UNCHANGED crashed PROVE LiveIsCurrent'
  BY <1>11 DEF TakeBlk, Goto
<1>12. ASSUME NEW w \in Workers, CheckPri(w) PROVE LiveIsCurrent'
  BY <1>12 DEF CheckPri, Ends, Goto
<1>13. ASSUME NEW w \in Workers, Build(w) PROVE LiveIsCurrent'
  BY <1>13 DEF Build, Goto
<1>14. ASSUME NEW w \in Workers, CalcNonce(w) PROVE LiveIsCurrent'
  BY <1>14 DEF CalcNonce, Ends, Goto
<1>15. ASSUME HndlMnrBlk PROVE LiveIsCurrent'
  BY <1>15 DEF HndlMnrBlk, AddToChain
<1> QED
  BY <1>1, <1>2, <1>3, <1>4, <1>5, <1>6, <1>7, <1>8, <1>9, <1>10,
     <1>11, <1>12, <1>13, <1>14, <1>15
     DEF Next, System, Arrival, Step, WorkerStep

\* The channel serves whoever waits, in order.
LEMMA StepQueue == ASSUME IInv, Next PROVE QueueWaits'
<1> USE MinerAssumption DEF IInv, TypeOK, QueueWaits, Procs
<1>1. ASSUME NEW p \in Procs, Load(p), UNCHANGED crashed PROVE QueueWaits'
  BY <1>1 DEF Load, AfterSend, Goto
<1>2. ASSUME NEW p \in Procs, Send(p), UNCHANGED crashed PROVE QueueWaits'
  BY <1>2 DEF Send, Goto
<1>3. ASSUME NEW p \in Procs, ChkTxs(p), UNCHANGED crashed PROVE QueueWaits'
  BY <1>3 DEF ChkTxs, Goto
<1>4. ASSUME NEW p \in Procs, SetHash(p), UNCHANGED crashed PROVE QueueWaits'
  BY <1>4 DEF SetHash, Goto
<1>5. ASSUME NEW t \in Txs, HndlTx(t), UNCHANGED crashed PROVE QueueWaits'
  BY <1>5 DEF HndlTx, Goto
<1>6. ASSUME NEW c \in Ctl, Control(c), UNCHANGED crashed PROVE QueueWaits'
  BY <1>6 DEF Control, StartMiner, Goto
<1>7. ASSUME NEW f \in Fwd, FwdArrives(f), UNCHANGED crashed PROVE QueueWaits'
  BY <1>7 DEF FwdArrives, Goto
<1>8. ASSUME NEW f \in Fwd, FwdAdds(f), UNCHANGED crashed PROVE QueueWaits'
  BY <1>8 DEF FwdAdds, AddToChain, Goto
<1>9. ASSUME Receive, UNCHANGED crashed PROVE QueueWaits'
  <2>1. /\ queue' = Tail(queue)
        /\ pc' = [pc EXCEPT ![queue[1]] = AfterSend(queue[1])]
    BY <1>9, QueueHead DEF Receive
  <2>2. \A i \in 1 .. Len(queue') : /\ i + 1 \in 1 .. Len(queue) /\ i + 1 # 1
                                   /\ queue'[i] = queue[i + 1]
    BY <1>9, <2>1, QueueHead DEF Receive
  <2>3. ASSUME NEW i \in 1 .. Len(queue') PROVE pc'[queue'[i]] = "wait"
    <3>1. queue[i + 1] # queue[1] /\ pc[queue[i + 1]] = "wait" /\ queue[i + 1] \in Procs
      BY <1>9, <2>2, QueueHead DEF Receive
    <3> QED
      BY <2>1, <2>2, <3>1
  <2>4. ASSUME NEW i \in 1 .. Len(queue'), NEW j \in 1 .. Len(queue'), queue'[i] = queue'[j]
        PROVE  i = j
    BY <2>2, <2>4
  <2> QED
    BY <2>3, <2>4
<1>10. ASSUME Spawn, UNCHANGED crashed PROVE QueueWaits'
  BY <1>10, FreeWorkerIsFree DEF Spawn, Goto
<1>11. ASSUME NEW w \in Workers, TakeBlk(w), UNCHANGED crashed PROVE QueueWaits'
  BY <1>11 DEF TakeBlk, Goto
<1>12. ASSUME NEW w \in Workers, CheckPri(w) PROVE QueueWaits'
  BY <1>12 DEF CheckPri, Ends, Goto
<1>13. ASSUME NEW w \in Workers, Build(w) PROVE QueueWaits'
  BY <1>13 DEF Build, Goto
<1>14. ASSUME NEW w \in Workers, CalcNonce(w) PROVE QueueWaits'
  <2>1. PICK l \in {"sendblk", "done"} : Goto(w, l)
    BY <1>14 DEF CalcNonce
  <2>2. pc[w] # "wait" /\ queue' = queue
    BY <1>14 DEF CalcNonce
  <2> QED
    BY <2>1, <2>2 DEF Goto
<1>15. ASSUME HndlMnrBlk PROVE QueueWaits'
  BY <1>15 DEF HndlMnrBlk, AddToChain
<1> QED
  BY <1>1, <1>2, <1>3, <1>4, <1>5, <1>6, <1>7, <1>8, <1>9, <1>10,
     <1>11, <1>12, <1>13, <1>14, <1>15
     DEF Next, System, Arrival, Step, WorkerStep

\* Blocks reach the node before anything is built on them.
LEMMA StepKnown == ASSUME IInv, Next PROVE BlocksKnown' /\ OwnNeverOrphan'
<1> USE MinerAssumption DEF IInv, TypeOK, BlkType, HandlersOnly, BlocksKnown,
          OwnNeverOrphan, KnownBlks, HasKnown, HasNew, Procs
<1>1. ASSUME NEW p \in Procs, Load(p), UNCHANGED crashed PROVE BlocksKnown' /\ OwnNeverOrphan'
  BY <1>1 DEF Load, AfterSend, Goto
<1>2. ASSUME NEW p \in Procs, Send(p), UNCHANGED crashed PROVE BlocksKnown' /\ OwnNeverOrphan'
  BY <1>2 DEF Send, Goto
<1>3. ASSUME NEW p \in Procs, ChkTxs(p), UNCHANGED crashed PROVE BlocksKnown' /\ OwnNeverOrphan'
  BY <1>3 DEF ChkTxs, Goto
<1>4. ASSUME NEW p \in Procs, SetHash(p), UNCHANGED crashed PROVE BlocksKnown' /\ OwnNeverOrphan'
  BY <1>4 DEF SetHash, Goto
<1>5. ASSUME NEW t \in Txs, HndlTx(t), UNCHANGED crashed PROVE BlocksKnown' /\ OwnNeverOrphan'
  BY <1>5 DEF HndlTx, Goto
<1>6. ASSUME NEW c \in Ctl, Control(c), UNCHANGED crashed PROVE BlocksKnown' /\ OwnNeverOrphan'
  BY <1>6 DEF Control, StartMiner, Goto
<1>7. ASSUME NEW f \in Fwd, FwdArrives(f), UNCHANGED crashed PROVE BlocksKnown' /\ OwnNeverOrphan'
  BY <1>7 DEF FwdArrives, Goto, Blk
<1>8. ASSUME NEW f \in Fwd, FwdAdds(f), UNCHANGED crashed PROVE BlocksKnown' /\ OwnNeverOrphan'
  BY <1>8 DEF FwdAdds, AddToChain, Goto
<1>9. ASSUME Receive, UNCHANGED crashed PROVE BlocksKnown' /\ OwnNeverOrphan'
  <2>1. PICK p \in Procs : pc[p] = "wait" /\ pc' = [pc EXCEPT ![p] = AfterSend(p)]
    <3>1. queue # <<>> /\ pc' = [pc EXCEPT ![Head(queue)] = AfterSend(Head(queue))]
      BY <1>9 DEF Receive
    <3>2. Head(queue) \in Procs /\ pc[Head(queue)] = "wait"
      BY <3>1, QueueHead DEF QueueWaits
    <3> QED
      BY <3>1, <3>2, Zenon
  <2> QED
    BY <1>9, <2>1 DEF Receive, AfterSend
<1>10. ASSUME Spawn, UNCHANGED crashed PROVE BlocksKnown' /\ OwnNeverOrphan'
  BY <1>10, FreeWorkerIsFree DEF Spawn, Goto
<1>11. ASSUME NEW w \in Workers, TakeBlk(w), UNCHANGED crashed PROVE BlocksKnown' /\ OwnNeverOrphan'
  BY <1>11 DEF TakeBlk, Goto
<1>12. ASSUME NEW w \in Workers, CheckPri(w) PROVE BlocksKnown' /\ OwnNeverOrphan'
  BY <1>12 DEF CheckPri, Ends, Goto
<1>13. ASSUME NEW w \in Workers, Build(w) PROVE BlocksKnown' /\ OwnNeverOrphan'
  BY <1>13 DEF Build, Goto, Blk
<1>14. ASSUME NEW w \in Workers, CalcNonce(w) PROVE BlocksKnown' /\ OwnNeverOrphan'
  BY <1>14 DEF CalcNonce, Ends, Goto
<1>15. ASSUME HndlMnrBlk PROVE BlocksKnown' /\ OwnNeverOrphan'
  BY <1>15 DEF HndlMnrBlk, AddToChain
<1> QED
  BY <1>1, <1>2, <1>3, <1>4, <1>5, <1>6, <1>7, <1>8, <1>9, <1>10,
     <1>11, <1>12, <1>13, <1>14, <1>15
     DEF Next, System, Arrival, Step, WorkerStep

\* Every step keeps the invariant, and so does a stuttering one.
LEMMA NextIInv == IInv /\ [Next]_minerVars => IInv'
<1>1. IInv /\ Next => IInv'
  BY StepType, StepHandlers, StepLive, StepQueue, StepKnown DEF IInv
<1>2. IInv /\ UNCHANGED minerVars => IInv'
  BY DEF IInv, minerVars, TypeOK, BlkType, HandlersOnly, LiveIsCurrent, QueueWaits,
         BlocksKnown, OwnNeverOrphan, KnownBlks
<1> QED
  BY <1>1, <1>2
-----------------------------------------------------------------------------
\* The inductive invariant holds of every behaviour of the miner.
THEOREM Invariance == Spec => []IInv
BY InitIInv, NextIInv, PTL DEF Spec

\* Type correctness of the miner.
THEOREM TypeCorrect == Spec => []TypeOK
BY Invariance, PTL DEF IInv

\* However many goroutines the loop has started, at most one searches for a
\* nonce without having been told to stop.
THEOREM AtMostOneLive == Spec => []OneLiveWorker
<1>1. IInv => OneLiveWorker
  BY DEF IInv, LiveIsCurrent, OneLiveWorker
<1> QED
  BY <1>1, Invariance, PTL

\* The node's loop always finds the parent of a block that the miner hands
\* over, so Add does not panic on it.
THEOREM ParentsFirst == Spec => []OwnNeverOrphan
BY Invariance, PTL DEF IInv

\* What gets the loop to start another goroutine: a goroutine that sends on
\* PoolUpdated or has a block to hand over, or the loop that was just woken.
Alarm == loop = "got" \/ \E p \in Procs : pc[p] \in {"sendblk", "chk", "load", "send", "wait"}

\* An active miner is about to be woken, or its last goroutine searches and was
\* not told to stop, or that one ended with nothing left to try: the pool was
\* not worth mining, and still is not, or there are no nonces left.
Woken == active /\ loop # "off" =>
             \/ Alarm
             \/ cur \in Workers \ cancelled /\ pc[cur] \in Searching
             \/ outcome = "low" /\ ~PriMet
             \/ outcome = "exhausted"

\* Only searching goroutines are told to stop, and the outcome is that of the
\* last one.
CancelledSearch == /\ \A w \in cancelled : pc[w] \in Searching
                   /\ cur \in Workers /\ pc[cur] \in Searching => outcome = "running"

WInv == IInv /\ Woken /\ CancelledSearch

\* Whoever changes the pool, the flag or the last goroutine raises the alarm,
\* and the alarm goes off only when the loop has started a goroutine.
LEMMA StepWoken == ASSUME WInv, Next PROVE Woken' /\ CancelledSearch'
<1> USE MinerAssumption DEF WInv, IInv, TypeOK, Woken, CancelledSearch, Alarm, Searching, Procs, PriMet
<1>1. ASSUME NEW p \in Procs, Load(p), UNCHANGED crashed PROVE Woken' /\ CancelledSearch'
  BY <1>1 DEF Load, AfterSend, Goto
<1>2. ASSUME NEW p \in Procs, Send(p), UNCHANGED crashed PROVE Woken' /\ CancelledSearch'
  BY <1>2 DEF Send, Goto
<1>3. ASSUME NEW p \in Procs, ChkTxs(p), UNCHANGED crashed PROVE Woken' /\ CancelledSearch'
  BY <1>3 DEF ChkTxs, Goto
<1>4. ASSUME NEW p \in Procs, SetHash(p), UNCHANGED crashed PROVE Woken' /\ CancelledSearch'
  BY <1>4 DEF SetHash, Goto
<1>5. ASSUME NEW t \in Txs, HndlTx(t), UNCHANGED crashed PROVE Woken' /\ CancelledSearch'
  BY <1>5 DEF HndlTx, Goto
<1>6. ASSUME NEW c \in Ctl, Control(c), UNCHANGED crashed PROVE Woken' /\ CancelledSearch'
  BY <1>6 DEF Control, StartMiner, Goto
<1>7. ASSUME NEW f \in Fwd, FwdArrives(f), UNCHANGED crashed PROVE Woken' /\ CancelledSearch'
  BY <1>7 DEF FwdArrives, Goto
<1>8. ASSUME NEW f \in Fwd, FwdAdds(f), UNCHANGED crashed PROVE Woken' /\ CancelledSearch'
  BY <1>8 DEF FwdAdds, AddToChain, Goto
<1>9. ASSUME Receive, UNCHANGED crashed PROVE Woken' /\ CancelledSearch'
  <2>1. PICK p \in Procs : pc[p] = "wait" /\ pc' = [pc EXCEPT ![p] = AfterSend(p)]
    <3>1. queue # <<>> /\ pc' = [pc EXCEPT ![Head(queue)] = AfterSend(Head(queue))]
      BY <1>9 DEF Receive
    <3>2. Head(queue) \in Procs /\ pc[Head(queue)] = "wait"
      BY <3>1, QueueHead DEF QueueWaits
    <3> QED
      BY <3>1, <3>2, Zenon
  <2>2. \A q \in Procs : pc'[q] \in Searching <=> pc[q] \in Searching
    BY <2>1 DEF AfterSend
  <2>3. /\ loop' = "got" /\ UNCHANGED <<cur, outcome>>
        /\ cancelled' = cancelled \cup {w \in {cur} \ {NoBlk} : pc[w] \in Searching}
    BY <1>9 DEF Receive
  <2> QED
    BY <2>2, <2>3
<1>10. ASSUME Spawn, UNCHANGED crashed PROVE Woken' /\ CancelledSearch'
  BY <1>10, FreeWorkerIsFree DEF Spawn, Goto
<1>11. ASSUME NEW w \in Workers, TakeBlk(w), UNCHANGED crashed PROVE Woken' /\ CancelledSearch'
  BY <1>11 DEF TakeBlk, Goto
<1>12. ASSUME NEW w \in Workers, CheckPri(w) PROVE Woken' /\ CancelledSearch'
  BY <1>12 DEF CheckPri, Ends, Goto
<1>13. ASSUME NEW w \in Workers, Build(w) PROVE Woken' /\ CancelledSearch'
  BY <1>13 DEF Build, Goto
<1>14. ASSUME NEW w \in Workers, CalcNonce(w) PROVE Woken' /\ CancelledSearch'
  <2>1. PICK result \in {"cancelled", "mined", "exhausted"} :
              /\ w \in cancelled <=> result = "cancelled"
              /\ Ends(w, result)
              /\ Goto(w, IF result = "mined" THEN "sendblk" ELSE "done")
    BY <1>14 DEF CalcNonce
  <2>2. UNCHANGED <<pool, active, loop, cur>> /\ pc[w] = "nonce"
    BY <1>14 DEF CalcNonce
  <2>3. CASE result = "mined"
    BY <2>1, <2>2, <2>3 DEF Ends, Goto
  <2>4. CASE result # "mined"
    <3>1. CASE w = cur
      <4>1. pc'[w] = "done" /\ \A p \in Procs \ {w} : pc'[p] = pc[p]
        BY <2>1, <2>4 DEF Goto
      <4>2. cancelled' = cancelled \ {w} /\ outcome' = result
        BY <2>1, <3>1 DEF Ends
      <4>3. CancelledSearch'
        BY <2>2, <3>1, <4>1, <4>2
      <4>4. Woken'
        BY <2>1, <2>2, <2>4, <3>1, <4>1, <4>2
      <4> QED
        BY <4>3, <4>4
    <3>2. CASE w # cur
      <4>1. pc'[w] = "done" /\ \A p \in Procs \ {w} : pc'[p] = pc[p]
        BY <2>1, <2>4 DEF Goto
      <4>2. cancelled' = cancelled \ {w} /\ outcome' = outcome
        BY <2>1, <3>2 DEF Ends
      <4>3. CancelledSearch'
        BY <2>2, <3>2, <4>1, <4>2
      <4>4. Woken'
        BY <2>2, <3>2, <4>1, <4>2
      <4> QED
        BY <4>3, <4>4
    <3> QED
      BY <3>1, <3>2
  <2> QED
    BY <2>3, <2>4
<1>15. ASSUME HndlMnrBlk PROVE Woken' /\ CancelledSearch'
  BY <1>15 DEF HndlMnrBlk, AddToChain
<1> QED
  BY <1>1, <1>2, <1>3, <1>4, <1>5, <1>6, <1>7, <1>8, <1>9, <1>10,
     <1>11, <1>12, <1>13, <1>14, <1>15
     DEF Next, System, Arrival, Step, WorkerStep

\* No wakeup is lost, however the goroutines interleave with pauses, resumes
\* and cancellations: once all is quiet, an active miner whose pool is worth
\* mining has tried to the last nonce.
THEOREM WakeupsArrive == Spec => []NoLostWakeup
<1>1. Init => Woken /\ CancelledSearch
  BY MinerAssumption DEF Init, Woken, CancelledSearch
<1>2. WInv /\ [Next]_minerVars => Woken' /\ CancelledSearch'
  <2>1. WInv /\ UNCHANGED minerVars => Woken' /\ CancelledSearch'
    BY DEF WInv, Woken, CancelledSearch, Alarm, PriMet, minerVars
  <2> QED
    BY <2>1, StepWoken
<1>3. Spec => [](Woken /\ CancelledSearch)
  BY <1>1, <1>2, Invariance, PTL DEF Spec, WInv
<1>4. Woken => NoLostWakeup
  BY DEF Woken, Alarm, NoLostWakeup, Quiescent, Searching, Procs
<1> QED
  BY <1>3, <1>4, PTL
=============================================================================
