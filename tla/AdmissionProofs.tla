-------------------------- MODULE AdmissionProofs ---------------------------
(***************************************************************************)
(* Proofs about admission at the host and about the whole mesh, for every  *)
(* set of peers and every cap: the host's admission alone (HostAdmission), *)
(* the admission with its store (HostStore), and the host with its guests, *)
(* the wires and the messages (SessionMesh).                               *)
(*                                                                         *)
(* RosterDeliverable is not inductive: whether the next admission keeps it *)
(* depends on how the roster is made up of peers and held places, and a    *)
(* rejoin turns the saved ids into held ones. HostInv adds exactly that,   *)
(* with the fact that a held place's owner has no transport at the host.   *)
(***************************************************************************)
EXTENDS HostStore, SessionMesh, FiniteSetTheorems, SequenceTheorems, TLAPS

HostInv ==
  /\ HostTypeOK
  /\ RosterAccounted
  /\ RosterDeliverable
  /\ CapableArePresent
  /\ Cardinality(hSaved) <= MaxRemote
  /\ hStatus # "live" => hLinks = {} /\ hPeers = {} /\ hAdmitted = {}
                         /\ hReserved = {}

(* A subset of the peers is finite, and so is counted by a natural.        *)
LEMMA PeerSetsFinite ==
  ASSUME NEW S \in SUBSET Peers
  PROVE  IsFiniteSet(S) /\ Cardinality(S) \in Nat
BY PeersAssumption, FS_Subset, FS_CardinalityType

(* Dropping peers from a set never makes it larger.                        *)
LEMMA SmallerStaysSmall ==
  ASSUME NEW S \in SUBSET Peers, NEW T \in SUBSET S
  PROVE  Cardinality(T) <= Cardinality(S)
BY PeerSetsFinite, FS_Subset

(* A set that lacks a member of another, and is otherwise inside it, is    *)
(* strictly smaller.                                                       *)
LEMMA MissingMember ==
  ASSUME NEW S \in SUBSET Peers, NEW T \in SUBSET S, NEW p \in S, p \notin T
  PROVE  Cardinality(T) < Cardinality(S)
<1>1. T \in SUBSET (S \ {p})
  OBVIOUS
<1>2. IsFiniteSet(S \ {p}) /\ Cardinality(S \ {p}) = Cardinality(S) - 1
  BY PeerSetsFinite, FS_RemoveElement
<1>3. Cardinality(T) <= Cardinality(S \ {p})
  BY <1>1, <1>2, FS_Subset
<1>4. Cardinality(S) \in Nat /\ Cardinality(T) \in Nat
  BY PeerSetsFinite
<1> QED BY <1>2, <1>3, <1>4

LEMMA HostInvInit == HostInit => HostInv
<1> SUFFICES ASSUME HostInit PROVE HostInv
  OBVIOUS
<1> USE DEF HostInit
<1>1. Cardinality(hAdmitted) = 0 /\ Cardinality(hSaved) = 0
  BY FS_EmptySet
<1>2. RosterDeliverable /\ Cardinality(hSaved) <= MaxRemote
  BY <1>1, MaxRemoteAssumption DEF RosterDeliverable
<1>3. HostTypeOK
  <2>1. hRejoins \in 0..MaxRejoins
    BY MaxRejoinsAssumption
  <2>2. hHadPeer \in BOOLEAN
    BY Zenon
  <2> QED BY <2>1, <2>2 DEF HostTypeOK
<1>4. RosterAccounted /\ CapableArePresent
  BY DEF RosterAccounted, CapableArePresent
<1> QED BY <1>2, <1>3, <1>4 DEF HostInv

LEMMA HostInvNext == HostInv /\ [HostNext]_hostVars => HostInv'
<1> SUFFICES ASSUME HostInv, [HostNext]_hostVars PROVE HostInv'
  OBVIOUS
<1> USE MaxRemoteAssumption, MaxRejoinsAssumption
<1> USE DEF HostInv, HostTypeOK, RosterAccounted, RosterDeliverable,
            CapableArePresent
<1>0. Cardinality({}) = 0
  BY FS_EmptySet
<1>1. ASSUME NEW p \in Peers, HostAdmit(p) PROVE HostInv'
  <2> USE DEF HostAdmit
  <2>1. Cardinality(hAdmitted') <= MaxRemote
    <3>1. CASE p \in hReserved
      <4>1. hAdmitted' = hAdmitted
        BY <1>1, <3>1
      <4> QED BY <4>1
    <3>2. CASE p \notin hReserved
      <4>1. hReserved = {} /\ hAdmitted = hPeers
        BY <1>1, <3>2 DEF Admissible, HeldForAnother
      <4>2. Cardinality(hPeers) \in Nat /\ IsFiniteSet(hPeers)
        BY PeerSetsFinite
      <4>3. Cardinality(hPeers) < MaxRemote
        BY <1>1, <4>2 DEF Admissible, Full
      <4>4. Cardinality(hPeers \union {p}) = Cardinality(hPeers) + 1
        BY <1>1, <4>2, FS_AddElement
      <4>5. hAdmitted' = hPeers \union {p}
        BY <1>1, <4>1
      <4> QED BY <4>2, <4>3, <4>4, <4>5
    <3> QED BY <3>1, <3>2
  <2>2. HostTypeOK' /\ hSaved' = hSaved /\ hStatus' = "live"
    BY <1>1
  <2>3. RosterAccounted' /\ CapableArePresent'
    BY <1>1
  <2>4. (hPeers \subseteq hLinks)' /\ (hReserved \intersect hLinks = {})'
    BY <1>1
  <2> QED BY <2>1, <2>2, <2>3, <2>4
<1>2. ASSUME NEW p \in Peers, HostReject(p) PROVE HostInv'
  <2>1. p \notin hReserved
    <3> SUFFICES ASSUME p \in hReserved PROVE FALSE
      OBVIOUS
    <3>1. Cardinality(hPeers) < Cardinality(hAdmitted)
      BY MissingMember
    <3>2. Cardinality(hPeers) \in Nat /\ Cardinality(hAdmitted) \in Nat
      BY PeerSetsFinite
    <3> QED
      BY <1>2, <3>1, <3>2 DEF HostReject, Admissible, HeldForAnother, Full
  <2> QED BY <1>2, <2>1 DEF HostReject
<1>3. ASSUME NEW p \in Peers, HostFlushed(p) PROVE HostInv'
  BY <1>3 DEF HostFlushed
<1>4. ASSUME NEW p \in Peers, HostPeerLeave(p) PROVE HostInv'
  <2> USE DEF HostPeerLeave
  <2>1. hAdmitted' \subseteq hAdmitted
    BY <1>4
  <2>2. Cardinality(hAdmitted') <= Cardinality(hAdmitted)
    BY <2>1, SmallerStaysSmall
  <2>3. hAdmitted' \in SUBSET Peers
    BY <2>1
  <2>4. RosterDeliverable'
    BY <2>2, <2>3, PeerSetsFinite
  <2>5. HostTypeOK' /\ hSaved' = hSaved /\ hStatus' = "live"
    BY <1>4
  <2>6. RosterAccounted' /\ CapableArePresent'
    BY <1>4
  <2>7. (hPeers \subseteq hLinks)' /\ (hReserved \intersect hLinks = {})'
    BY <1>4
  <2> QED BY <2>4, <2>5, <2>6, <2>7
<1>5. ASSUME NEW p \in Peers, HostAck(p) PROVE HostInv'
  BY <1>5 DEF HostAck
<1>6. ASSUME HostReservationExpires PROVE HostInv'
  <2> USE DEF HostReservationExpires
  <2>1. hAdmitted' \subseteq hAdmitted
    BY <1>6
  <2>2. Cardinality(hAdmitted') <= Cardinality(hAdmitted)
    BY <2>1, SmallerStaysSmall
  <2>3. RosterDeliverable'
    BY <2>1, <2>2, PeerSetsFinite
  <2> QED BY <1>6, <2>3
<1>7. ASSUME NEW saved \in Savable, HostLeave(saved) PROVE HostInv'
  BY <1>0, <1>7 DEF HostLeave, Savable
<1>8. ASSUME HostRejoin PROVE HostInv'
  <2> USE DEF HostRejoin
  <2>1. Cardinality(hAdmitted') <= MaxRemote
    BY <1>8
  <2>2. Cardinality(hSaved') = 0
    BY <1>0, <1>8
  <2>3. HostTypeOK'
    <3>1. hRejoins' \in 0..MaxRejoins
      BY <1>8
    <3>2. hHadPeer' \in BOOLEAN
      BY <1>8, Zenon
    <3> QED BY <1>8, <3>1, <3>2
  <2>4. RosterAccounted' /\ CapableArePresent'
    BY <1>8
  <2>5. (hPeers \subseteq hLinks)' /\ (hReserved \intersect hLinks = {})'
        /\ hStatus' = "live"
    BY <1>8
  <2> QED BY <2>1, <2>2, <2>3, <2>4, <2>5
<1>9. ASSUME HostGone PROVE HostInv'
  BY <1>0, <1>9 DEF HostGone
<1>10. ASSUME UNCHANGED hostVars PROVE HostInv'
  BY <1>10 DEF hostVars
<1> QED
  BY <1>1, <1>2, <1>3, <1>4, <1>5, <1>6, <1>7, <1>8, <1>9, <1>10 DEF HostNext

LEMMA HostInvariant == HostSpec => []HostInv
BY HostInvInit, HostInvNext, PTL DEF HostSpec

(* Every state of the host's admission is well typed.                      *)
THEOREM HostTypeCorrect == HostSpec => []HostTypeOK
<1>1. HostInv => HostTypeOK
  BY DEF HostInv
<1> QED BY <1>1, HostInvariant, PTL

(* The roster the host announces always fits the mesh, for every number of *)
(* peers, cap and rejoins: guests never drop it for its size.              *)
THEOREM RosterAlwaysDeliverable == HostSpec => []RosterDeliverable
<1>1. HostInv => RosterDeliverable
  BY DEF HostInv
<1> QED BY <1>1, HostInvariant, PTL

(* The roster is exactly the peers in the mesh and the places held.        *)
THEOREM RosterAlwaysAccounted == HostSpec => []RosterAccounted
<1>1. HostInv => RosterAccounted
  BY DEF HostInv
<1> QED BY <1>1, HostInvariant, PTL

(* A held place leaves room in the mesh for the peer it is held for.        *)
LEMMA HeldIsReachable == HostInv => HeldPlacesReachable
<1>1. ASSUME HostInv, NEW p \in hReserved PROVE Admissible(p)
  <2>1. hAdmitted \in SUBSET Peers /\ hPeers \in SUBSET hAdmitted
        /\ p \in hAdmitted /\ p \notin hPeers
    BY <1>1 DEF HostInv, HostTypeOK, RosterAccounted
  <2>2. Cardinality(hPeers) < Cardinality(hAdmitted)
    BY <2>1, MissingMember
  <2>3. Cardinality(hPeers) \in Nat /\ Cardinality(hAdmitted) \in Nat
    BY <2>1, PeerSetsFinite
  <2>4. Cardinality(hAdmitted) <= MaxRemote
    BY <1>1 DEF HostInv, RosterDeliverable
  <2> QED
    BY <1>1, <2>2, <2>3, <2>4, MaxRemoteAssumption
    DEF Admissible, HeldForAnother, Full
<1> QED BY <1>1 DEF HeldPlacesReachable

(* A reserved peer is never told the session is full when it reconnects.   *)
THEOREM HeldPlacesAlwaysReachable == HostSpec => []HeldPlacesReachable
BY HeldIsReachable, HostInvariant, PTL

(* Roster updates are only ever published to peers that are in the mesh.   *)
THEOREM CapableAlwaysPresent == HostSpec => []CapableArePresent
<1>1. HostInv => CapableArePresent
  BY DEF HostInv
<1> QED BY <1>1, HostInvariant, PTL

(* All of it together: whatever order joins, departures, rejoins, expiries  *)
(* and rejections come in, the host's roster, its places and its transports *)
(* agree, for any peers and cap (completePeerJoin, rejectPeer, onPeerLeave).*)
THEOREM RosterAlwaysSound == HostSpec => []RosterSound
BY RosterAlwaysDeliverable, RosterAlwaysAccounted, HeldPlacesAlwaysReachable,
   CapableAlwaysPresent, PTL DEF RosterSound

----------------------------------------------------------------------------
(* The store. Every step of it is a step of HostAdmission, or leaves the   *)
(* admission alone. What the tiles show is inductive only with what stands *)
(* behind them: a bound tile keeps its shared interval open, and a stub is *)
(* a place that is held.                                                   *)

(* What is left of a sequence without its k-th element.                     *)
LEMMA RemovedAt ==
  ASSUME NEW S, NEW s \in Seq(S), NEW k \in 1..Len(s)
  PROVE  /\ RemoveAt(s, k) \in Seq(S)
         /\ Len(RemoveAt(s, k)) = Len(s) - 1
         /\ \A i \in 1..(Len(s) - 1) :
              RemoveAt(s, k)[i] = IF i < k THEN s[i] ELSE s[i + 1]
<1> DEFINE head == SubSeq(s, 1, k - 1)
           tail == SubSeq(s, k + 1, Len(s))
<1>1. head \in Seq(S) /\ tail \in Seq(S)
  OBVIOUS
<1>2. Len(head) = k - 1 /\ Len(tail) = Len(s) - k
  OBVIOUS
<1>3. \A i \in 1..(k - 1) : head[i] = s[i]
  OBVIOUS
<1>4. \A i \in 1..(Len(s) - k) : tail[i] = s[k + i]
  OBVIOUS
<1>5. RemoveAt(s, k) = head \o tail
  BY DEF RemoveAt
<1> HIDE DEF head, tail
<1>6. /\ head \o tail \in Seq(S) /\ Len(head \o tail) = Len(s) - 1
  BY <1>1, <1>2
<1>7. ASSUME NEW i \in 1..(Len(s) - 1)
      PROVE  (head \o tail)[i] = IF i < k THEN s[i] ELSE s[i + 1]
  <2>1. (head \o tail)[i] = IF i <= k - 1 THEN head[i] ELSE tail[i - (k - 1)]
    BY <1>1, <1>2, ConcatProperties
  <2>2. CASE i < k
    BY <1>3, <2>1, <2>2
  <2>3. CASE ~(i < k)
    <3>1. i - (k - 1) \in 1..(Len(s) - k) /\ k + (i - (k - 1)) = i + 1
      BY <2>3
    <3> QED BY <1>4, <2>1, <2>3, <3>1
  <2> QED BY <2>2, <2>3
<1> QED BY <1>5, <1>6, <1>7

(* The tiles are a sequence without repetition; what removing one leaves.   *)
LEMMA RemoveTile ==
  ASSUME NEW s \in Seq(Peers), IsInjective(s), NEW p \in ToSet(s)
  PROVE  /\ RemoveFirst(s, p) \in Seq(Peers)
         /\ IsInjective(RemoveFirst(s, p))
         /\ ToSet(RemoveFirst(s, p)) = ToSet(s) \ {p}
<1>1. PICK k \in 1..Len(s) : s[k] = p
  BY DEF ToSet
<1>2. \A i \in 1..Len(s) : s[i] = p <=> i = k
  BY <1>1 DEF IsInjective
<1>3. {i \in 1..Len(s) : s[i] = p} = {k}
  BY <1>1, <1>2
<1>4. Min({k}) = k
  BY DEF Min
<1>5. SelectInSeq(s, LAMBDA v : v = p) = k
  BY <1>3, <1>4 DEF SelectInSeq
<1> DEFINE t == RemoveAt(s, k)
<1>6. RemoveFirst(s, p) = t
  BY <1>1, <1>5 DEF RemoveFirst
<1> HIDE DEF t
<1>7. /\ t \in Seq(Peers) /\ Len(t) = Len(s) - 1
      /\ \A i \in 1..(Len(s) - 1) : t[i] = IF i < k THEN s[i] ELSE s[i + 1]
  BY RemovedAt DEF t
<1>8. IsInjective(t)
  <2>1. \A a, b \in 1..Len(s) : s[a] = s[b] => a = b
    BY DEF IsInjective
  <2>2. ASSUME NEW i \in 1..(Len(s) - 1), NEW j \in 1..(Len(s) - 1), t[i] = t[j]
        PROVE  i = j
    <3> DEFINE a == IF i < k THEN i ELSE i + 1
               b == IF j < k THEN j ELSE j + 1
    <3>1. a \in 1..Len(s) /\ b \in 1..Len(s) /\ (a = b => i = j)
      OBVIOUS
    <3>2. s[a] = t[i] /\ s[b] = t[j]
      BY <1>7
    <3> HIDE DEF a, b
    <3> QED BY <2>1, <2>2, <3>1, <3>2
  <2> QED BY <1>7, <2>2 DEF IsInjective
<1>9. ASSUME NEW x \in ToSet(t) PROVE x \in ToSet(s) \ {p}
  <2>1. PICK i \in 1..(Len(s) - 1) : t[i] = x
    BY <1>7 DEF ToSet
  <2>2. PICK j \in 1..Len(s) : s[j] = x /\ j # k
    BY <1>7, <2>1
  <2> QED BY <1>2, <2>2 DEF ToSet
<1>10. ASSUME NEW x \in ToSet(s), x # p PROVE x \in ToSet(t)
  <2>1. PICK i \in 1..Len(s) : s[i] = x /\ i # k
    BY <1>1, <1>10 DEF ToSet
  <2>2. PICK j \in 1..(Len(s) - 1) : t[j] = x
    <3>1. CASE i < k
      BY <1>7, <2>1, <3>1
    <3>2. CASE i > k
      <4>1. i - 1 \in 1..(Len(s) - 1) /\ t[i - 1] = x
        BY <1>7, <2>1, <3>2
      <4> QED BY <4>1
    <3> QED BY <2>1, <3>1, <3>2
  <2> QED BY <1>7, <2>2 DEF ToSet
<1> QED BY <1>6, <1>7, <1>8, <1>9, <1>10

LEMMA AddedTile ==
  ASSUME NEW s \in Seq(Peers), IsInjective(s), NEW p \in Peers
  PROVE  /\ AddTile(s, p) \in Seq(Peers)
         /\ IsInjective(AddTile(s, p))
         /\ ToSet(AddTile(s, p)) = ToSet(s) \union {p}
<1>1. CASE p \in ToSet(s)
  BY <1>1 DEF AddTile
<1>2. CASE p \notin ToSet(s)
  <2> DEFINE t == Append(s, p)
  <2>1. /\ t \in Seq(Peers) /\ Len(t) = Len(s) + 1 /\ t[Len(s) + 1] = p
        /\ \A i \in 1..Len(s) : t[i] = s[i]
    OBVIOUS
  <2>2. AddTile(s, p) = t
    BY <1>2 DEF AddTile
  <2> HIDE DEF t
  <2>3. IsInjective(t)
    BY <1>2, <2>1 DEF IsInjective, ToSet
  <2>4. ToSet(t) = ToSet(s) \union {p}
    BY <2>1 DEF ToSet
  <2> QED BY <2>2, <2>3, <2>4, <2>1
<1> QED BY <1>1, <1>2

LEMMA CountedTo ==
  ASSUME NEW n \in Nat
  PROVE  IsFiniteSet(1..n) /\ Cardinality(1..n) = n
<1>1. n \in Int /\ 1 \in Int
  OBVIOUS
<1>2. /\ IsFiniteSet(1..n)
      /\ Cardinality(1..n) = IF 1 > n THEN 0 ELSE n - 1 + 1
  BY ONLY <1>1, FS_Interval
<1> QED BY <1>2

(* The places kept at a Leave are at most as many as the mesh has, and all *)
(* of the tiles if these are no more.                                      *)
LEMMA PlacesFit ==
  ASSUME sTiles \in Seq(Peers), IsInjective(sTiles)
  PROVE  /\ ReservedPlaces \in Savable
         /\ Cardinality(Tiles) <= MaxRemote => ReservedPlaces = Tiles
<1> DEFINE n == IF Len(sTiles) <= MaxRemote THEN Len(sTiles) ELSE MaxRemote
           f == [i \in 1..n |-> sTiles[i]]
<1>1. n \in Nat /\ n <= MaxRemote /\ n <= Len(sTiles) /\ Len(sTiles) \in Nat
  BY MaxRemoteAssumption
<1>2. ReservedPlaces = {sTiles[i] : i \in 1..n}
  BY <1>1, MaxRemoteAssumption DEF ReservedPlaces
<1> HIDE DEF n
<1>3. f \in Surjection(1..n, ReservedPlaces)
  BY <1>2 DEF Surjection
<1>4. IsFiniteSet(1..n) /\ Cardinality(1..n) = n
  BY <1>1, CountedTo
<1>5. Cardinality(ReservedPlaces) <= n /\ IsFiniteSet(ReservedPlaces)
  BY <1>3, <1>4, FS_Surjection
<1>6. ReservedPlaces \in SUBSET Peers
  BY <1>1, <1>2, ElementOfSeq
<1>7. ReservedPlaces \in Savable
  BY <1>1, <1>5, <1>6, PeerSetsFinite, MaxRemoteAssumption DEF Savable
<1>8. ASSUME Cardinality(Tiles) <= MaxRemote PROVE ReservedPlaces = Tiles
  <2> DEFINE g == [i \in 1..Len(sTiles) |-> sTiles[i]]
  <2>1. g \in Surjection(1..Len(sTiles), Tiles) /\ g \in Injection(1..Len(sTiles), Tiles)
    BY DEF Surjection, Injection, Tiles, ToSet, IsInjective
  <2>2. IsFiniteSet(1..Len(sTiles)) /\ Cardinality(1..Len(sTiles)) = Len(sTiles)
    BY <1>1, CountedTo
  <2>3. Cardinality(Tiles) = Len(sTiles)
    BY <2>1, <2>2, FS_Surjection
  <2>4. n = Len(sTiles)
    BY <1>8, <2>3 DEF n
  <2> QED BY <1>2, <2>4 DEF Tiles, ToSet
<1> QED BY <1>7, <1>8

(* What the store makes of the mesh.  SharedTimeRuns speaks of connected   *)
(* tiles, but one that comes back keeps the binding its stub was given     *)
(* meanwhile: the intervals of all bound tiles have to be open.            *)
StoreInv ==
  /\ hStatus = "live" =>
       /\ sTiles \in Seq(Peers) /\ IsInjective(sTiles)
       /\ Tiles \ sStubs = hPeers
       /\ sStubs \subseteq Tiles
       /\ \A p \in sBound : p \in Peers /\ IdentityOf[p] \in sOpen
  /\ sStubs = sGrace
  /\ hStatus # "live" => sStubs = {}

LEMMA StoreInvInit == StoreInit => StoreInv
<1> SUFFICES ASSUME StoreInit PROVE StoreInv
  OBVIOUS
<1>1. sTiles = <<>> /\ sTiles \in Seq(Peers) /\ IsInjective(sTiles) /\ Tiles = {}
  BY DEF StoreInit, IsInjective, Tiles, ToSet
<1> QED BY <1>1 DEF StoreInit, StoreInv, HostInit

(* Every step of the store is one of the admission, or none.               *)
LEMMA StoreStep == StoreInv /\ [Next]_vars => [HostNext]_hostVars
<1> SUFFICES ASSUME StoreInv, [Next]_vars PROVE [HostNext]_hostVars
  OBVIOUS
<1>1. ASSUME NEW p \in Peers,
             Admit(p) \/ Reject(p) \/ Flushed(p) \/ (\E unclean \in BOOLEAN : Depart(p, unclean))
               \/ RejectedDeparts(p) \/ Ack(p)
      PROVE  HostNext
  BY <1>1 DEF Admit, Reject, Flushed, Depart, RejectedDeparts, Ack, HostNext
<1>2. ASSUME NEW p \in Peers, HelloArrives(p) \/ GraceExpires(p)
      PROVE  UNCHANGED hostVars
  BY <1>2 DEF HelloArrives, GraceExpires
<1>3. ASSUME ReservationExpires \/ Rejoin \/ Gone PROVE HostNext
  BY <1>3 DEF ReservationExpires, Rejoin, Gone, HostNext
<1>4. ASSUME Leave PROVE HostNext
  <2>1. ReservedPlaces \in Savable
    BY <1>4, PlacesFit DEF Leave, HostLeave, StoreInv
  <2> QED BY <1>4, <2>1 DEF Leave, HostNext
<1>5. ASSUME UNCHANGED vars PROVE UNCHANGED hostVars
  BY <1>5 DEF vars
<1> QED BY <1>1, <1>2, <1>3, <1>4, <1>5 DEF Next

LEMMA StoreInvNext == HostInv /\ StoreInv /\ [Next]_vars => StoreInv'
<1> SUFFICES ASSUME HostInv, StoreInv, [Next]_vars PROVE StoreInv'
  OBVIOUS
<1> USE DEF StoreInv
<1>1. ASSUME NEW p \in Peers, Admit(p) PROVE StoreInv'
  <2> USE DEF Admit, HostAdmit
  <2>1. sTiles' \in Seq(Peers) /\ IsInjective(sTiles') /\ Tiles' = Tiles \union {p}
    BY <1>1, AddedTile DEF Tiles
  <2>2. (Tiles \ sStubs = hPeers /\ sStubs \subseteq Tiles)'
    BY <1>1, <2>1
  <2>3. (\A q \in sBound : q \in Peers /\ IdentityOf[q] \in sOpen)'
    BY <1>1 DEF BindHello
  <2> QED BY <1>1, <2>1, <2>2, <2>3
<1>2. ASSUME NEW p \in Peers, NEW unclean \in BOOLEAN, Depart(p, unclean) PROVE StoreInv'
  <2> USE DEF Depart, HostPeerLeave
  <2>1. p \in Tiles /\ p \notin sStubs
    BY <1>2
  <2>2. /\ sTiles' \in Seq(Peers) /\ IsInjective(sTiles')
        /\ Tiles' = IF unclean THEN Tiles ELSE Tiles \ {p}
    BY <1>2, <2>1, RemoveTile DEF Tiles
  <2>3. (Tiles \ sStubs = hPeers /\ sStubs \subseteq Tiles /\ sStubs = sGrace)'
    BY <1>2, <2>1, <2>2
  <2>4. (\A q \in sBound : q \in Peers /\ IdentityOf[q] \in sOpen)'
    BY <1>2 DEF CloseInterval, SharedWith
  <2> QED BY <1>2, <2>2, <2>3, <2>4
<1>3. ASSUME NEW p \in Peers, RejectedDeparts(p) PROVE StoreInv'
  BY <1>3 DEF RejectedDeparts, HostPeerLeave, Tiles
<1>4. ASSUME NEW p \in Peers, HelloArrives(p) PROVE StoreInv'
  BY <1>4 DEF HelloArrives, BindHello, hostVars, Tiles
<1>5. ASSUME NEW p \in Peers, GraceExpires(p) PROVE StoreInv'
  <2> USE DEF GraceExpires, hostVars
  <2>1. p \in Tiles /\ p \in sStubs
    BY <1>5
  <2>2. sTiles' \in Seq(Peers) /\ IsInjective(sTiles') /\ Tiles' = Tiles \ {p}
    BY <1>5, <2>1, RemoveTile DEF Tiles
  <2> QED BY <1>5, <2>1, <2>2
<1>6. ASSUME NEW p \in Peers, Reject(p) \/ Flushed(p) \/ Ack(p) PROVE StoreInv'
  BY <1>6 DEF Reject, HostReject, Flushed, HostFlushed, Ack, HostAck, storeVars, Tiles
<1>7. ASSUME ReservationExpires \/ Gone PROVE StoreInv'
  BY <1>7 DEF ReservationExpires, HostReservationExpires, Gone, HostGone, storeVars, Tiles
<1>8. ASSUME Leave PROVE StoreInv'
  BY <1>8 DEF Leave, HostLeave
<1>9. ASSUME Rejoin PROVE StoreInv'
  <2>1. hPeers' = {} /\ sTiles' = <<>> /\ sBound' = {} /\ sStubs' = {} /\ sGrace' = {}
    BY <1>9 DEF Rejoin, HostRejoin, HostInv
  <2>2. sTiles' \in Seq(Peers) /\ IsInjective(sTiles') /\ Tiles' = {}
    BY <2>1 DEF IsInjective, Tiles, ToSet
  <2> QED BY <1>9, <2>1, <2>2
<1>10. ASSUME UNCHANGED vars PROVE StoreInv'
  BY <1>10 DEF vars, hostVars, storeVars, Tiles
<1> QED
  BY <1>1, <1>2, <1>3, <1>4, <1>5, <1>6, <1>7, <1>8, <1>9, <1>10 DEF Next

LEMMA StoreInvariant == Spec => [](HostInv /\ StoreInv)
<1>1. StoreInit => HostInit
  BY DEF StoreInit
<1> QED BY <1>1, StoreInvInit, HostInvInit, StoreStep, StoreInvNext, HostInvNext, PTL DEF Spec

(* The host with its store does nothing the admission does not allow: each  *)
(* of its steps is one of HostAdmission or leaves it alone, whatever tiles, *)
(* stubs and hellos there are.  Leave keeps no more places than there are.  *)
THEOREM StoreImplementsAdmission == Spec => HostSpec
<1>1. StoreInit => HostInit
  BY DEF StoreInit
<1> QED BY <1>1, StoreInvariant, StoreStep, PTL DEF Spec, HostSpec

(* Hence the host's roster is sound with its store, too.                    *)
THEOREM StoreRosterSound == Spec => []RosterSound
BY StoreImplementsAdmission, RosterAlwaysSound, PTL

(* The tiles are the mesh, the stubs those with a timer, and the shared     *)
(* time of everybody who is connected and bound runs on.                    *)
THEOREM StoreAlwaysFollowsMesh == Spec => []StoreFollowsMesh
<1>1. HostInv /\ StoreInv => StoreFollowsMesh
  BY DEF StoreInv, StoreFollowsMesh, TilesFollowMesh, StubsAwaitTheirTimer, SharedTimeRuns
<1> QED BY <1>1, StoreInvariant, PTL

(* A host that leaves while nobody is reconnecting keeps everybody's place. *)
THEOREM IncumbentsAlwaysKeepPlaces == Spec => IncumbentsKeepPlaces
<1> DEFINE Kept == hStatus = "live" /\ hStatus' = "away" /\ sStubs = {} => hSaved' = hPeers
<1>1. HostInv /\ StoreInv /\ [Next]_vars => [Kept]_vars
  <2> SUFFICES ASSUME HostInv, StoreInv, [Next]_vars, hStatus = "live", hStatus' = "away",
                      sStubs = {}
               PROVE  hSaved' = hPeers
    OBVIOUS
  <2>1. Leave
    BY DEF Next, vars, hostVars, Admit, HostAdmit, Reject, HostReject, Flushed, HostFlushed,
           Depart, HostPeerLeave, RejectedDeparts, HelloArrives, GraceExpires, Ack, HostAck,
           ReservationExpires, HostReservationExpires, Rejoin, HostRejoin, Gone, HostGone
  <2>2. Tiles = hPeers
    BY DEF StoreInv
  <2>3. Cardinality(hPeers) <= MaxRemote
    <3>1. hPeers \in SUBSET hAdmitted /\ hAdmitted \in SUBSET Peers
          /\ Cardinality(hAdmitted) <= MaxRemote
      BY DEF HostInv, HostTypeOK, RosterAccounted, RosterDeliverable
    <3> QED BY <3>1, SmallerStaysSmall, PeerSetsFinite, MaxRemoteAssumption
  <2>4. ReservedPlaces = Tiles
    BY <2>2, <2>3, PlacesFit DEF StoreInv
  <2> QED BY <2>1, <2>2, <2>4 DEF Leave, HostLeave
<1> QED BY <1>1, StoreInvariant, PTL DEF Spec, IncumbentsKeepPlaces

----------------------------------------------------------------------------
(* The mesh. What the handlers of a guest do to its transports is proved   *)
(* of GuestHandlers alone (GuestHandlerProofs); MeshInv says what the      *)
(* wires and the messages between the members add. A wire is up between    *)
(* two members of the room, never across a transport that its end closes,  *)
(* and what is under way is under way over a wire.                         *)

(* What is proved of the handlers of a guest, for the guests of the mesh.   *)
GP == INSTANCE GuestHandlerProofs WITH Guests <- Peers

(* The handlers the mesh uses are those of GuestHandlerProofs.              *)
LEMMA SameOnJoin ==
  ASSUME NEW s, NEW p
  PROVE  G!OnJoin(s, p) = GP!OnJoin(s, p)
BY DEF G!OnJoin, GP!OnJoin, G!Cut, GP!Cut, G!Queue, GP!Queue,
       G!Cardinality, GP!Cardinality, G!Unlisted, GP!Unlisted,
       G!Authority, GP!Authority, G!CompleteJoin, GP!CompleteJoin,
       G!MeshFull, GP!MeshFull, G!AdmitPeer, GP!AdmitPeer

LEMMA SameOnLeave ==
  ASSUME NEW s, NEW p
  PROVE  G!OnLeave(s, p) = GP!OnLeave(s, p)
BY DEF G!OnLeave, GP!OnLeave, G!AuthorityLost, GP!AuthorityLost, G!Cut,
       GP!Cut, G!NoRev, GP!NoRev, G!NoMessage, GP!NoMessage, G!NoRev,
       GP!NoRev, G!HostLostWhileWaiting, GP!HostLostWhileWaiting, G!End,
       GP!End

LEMMA SameOnPendingTimeout ==
  ASSUME NEW s, NEW p
  PROVE  G!OnPendingTimeout(s, p) = GP!OnPendingTimeout(s, p)
BY DEF G!OnPendingTimeout, GP!OnPendingTimeout, G!Cut, GP!Cut, G!End,
       GP!End, G!NoMessage, GP!NoMessage, G!NoRev, GP!NoRev

LEMMA SameOnFallback ==
  ASSUME NEW s
  PROVE  G!OnFallback(s) = GP!OnFallback(s)
BY DEF G!OnFallback, GP!OnFallback, G!End, GP!End, G!NoMessage,
       GP!NoMessage, G!NoRev, GP!NoRev, G!Resolve, GP!Resolve,
       G!CompleteJoin, GP!CompleteJoin, G!Cut, GP!Cut, G!Queue, GP!Queue,
       G!Cardinality, GP!Cardinality, G!Unlisted, GP!Unlisted,
       G!Authority, GP!Authority, G!MeshFull, GP!MeshFull, G!AdmitPeer,
       GP!AdmitPeer, G!FillUp, GP!FillUp, G!FoldSet, GP!FoldSet,
       G!MapThenFoldSet, GP!MapThenFoldSet, G!Crowded, GP!Crowded

LEMMA SameOnHostHello ==
  ASSUME NEW s
  PROVE  G!OnHostHello(s) = GP!OnHostHello(s)
BY DEF G!OnHostHello, GP!OnHostHello, G!End, GP!End, G!NoMessage,
       GP!NoMessage, G!NoRev, GP!NoRev, G!ApplyRoster, GP!ApplyRoster,
       G!Stale, GP!Stale, G!NoRev, GP!NoRev, G!Accept, GP!Accept,
       G!Authority, GP!Authority, G!Cut, GP!Cut, G!ResolveAll,
       GP!ResolveAll, G!Resolve, GP!Resolve, G!CompleteJoin,
       GP!CompleteJoin, G!Queue, GP!Queue, G!Cardinality, GP!Cardinality,
       G!Unlisted, GP!Unlisted, G!MeshFull, GP!MeshFull, G!AdmitPeer,
       GP!AdmitPeer, G!FoldSet, GP!FoldSet, G!MapThenFoldSet,
       GP!MapThenFoldSet

LEMMA SameOnRoster ==
  ASSUME NEW s, NEW m
  PROVE  G!OnRoster(s, m) = GP!OnRoster(s, m)
BY DEF G!OnRoster, GP!OnRoster, G!ApplyRoster, GP!ApplyRoster, G!Stale,
       GP!Stale, G!NoRev, GP!NoRev, G!Accept, GP!Accept, G!Authority,
       GP!Authority, G!Cut, GP!Cut, G!End, GP!End, G!NoMessage,
       GP!NoMessage, G!NoRev, GP!NoRev, G!ResolveAll, GP!ResolveAll,
       G!Resolve, GP!Resolve, G!CompleteJoin, GP!CompleteJoin, G!Queue,
       GP!Queue, G!Cardinality, GP!Cardinality, G!Unlisted, GP!Unlisted,
       G!MeshFull, GP!MeshFull, G!AdmitPeer, GP!AdmitPeer, G!FoldSet,
       GP!FoldSet, G!MapThenFoldSet, GP!MapThenFoldSet

LEMMA SameOnSessionFull ==
  ASSUME NEW s
  PROVE  G!OnSessionFull(s) = GP!OnSessionFull(s)
BY DEF G!OnSessionFull, GP!OnSessionFull, G!End, GP!End, G!NoMessage,
       GP!NoMessage, G!NoRev, GP!NoRev

(* What the constants are assumed to be.                                    *)
LEMMA Finite ==
  /\ IsFiniteSet(Peers) /\ GP!IsFiniteSet(Peers) /\ Host \notin Peers /\ MaxRemote \in Nat \ {0}
  /\ \A S : GP!Cardinality(S) = Cardinality(S)
<1>1. \A S : GP!Cardinality(S) = Cardinality(S)
  BY DEF GP!Cardinality, Cardinality
<1>2. IsFiniteSet(Peers) => GP!IsFiniteSet(Peers)
  BY DEF GP!IsFiniteSet, IsFiniteSet
<1> QED BY <1>1, <1>2, PeersAssumption, MeshAssumption, MaxRemoteAssumption

(* The members of the mesh.                                                 *)
MeshIds == Peers \union {Host}

(* A wire connects two members of the room.                                 *)
WiresOK ==
  \A w \in up : \E x, y \in MeshIds : /\ x # y /\ w = Wire(x, y)
                                      /\ Present(x) /\ Present(y)

(* A transport that is being closed has no wire any more.                   *)
CutsOK ==
  \A g \in Peers : /\ \A p \in guest[g].cut : Wire(g, p) \notin up
                   /\ ~guest[g].live => guest[g].cut = {}

(* What is under way is under way over a wire, and every roster fits.       *)
MessagesOK ==
  /\ rosters \in [Peers -> Seq(SUBSET Peers)]
  /\ \A g \in Peers : g \in hello \union notice \/ rosters[g] # <<>> => Wire(Host, g) \in up
  /\ \A g \in Peers : \A i \in DOMAIN rosters[g] : GP!Fits(rosters[g][i])

(* Every guest is sound.                                                    *)
GuestsOK ==
  /\ guest \in [Peers -> GP!GuestStates]
  /\ \A g \in Peers : guest[g].self = g /\ (guest[g].live => GP!Sound(guest[g]))

(* The inductive invariant.                                                 *)
MeshInv == HostInv /\ GuestsOK /\ WiresOK /\ CutsOK /\ MessagesOK

----------------------------------------------------------------------------
(* A pair the network can connect has two ends.                             *)
LEMMA TwoEnds ==
  ASSUME NEW w \in Reachable
  PROVE  \E x, y \in MeshIds : x # y /\ w = Wire(x, y)
<1>1. Cardinality(w) = 2 /\ w \in SUBSET MeshIds
  BY MeshAssumption DEF MeshIds
<1>2. IsFiniteSet(w)
  BY <1>1, Finite, FS_AddElement, FS_Subset DEF MeshIds
<1>3. PICK x : x \in w
  BY <1>1, <1>2, FS_EmptySet
<1>4. IsFiniteSet(w \ {x}) /\ Cardinality(w \ {x}) = 1
  BY <1>1, <1>2, <1>3, FS_RemoveElement
<1>5. PICK y : y \in w \ {x}
  BY <1>4, FS_EmptySet
<1>6. IsFiniteSet((w \ {x}) \ {y}) /\ Cardinality((w \ {x}) \ {y}) = 0
  BY <1>4, <1>5, FS_RemoveElement
<1>7. (w \ {x}) \ {y} = {}
  BY <1>6, FS_EmptySet
<1> QED BY <1>1, <1>3, <1>5, <1>7 DEF Wire

(* A wire has no other ends.                                                *)
LEMMA WireEnds ==
  ASSUME NEW a, NEW b, NEW x, NEW y, Wire(a, b) = Wire(x, y)
  PROVE  (a = x /\ b = y) \/ (a = y /\ b = x)
BY DEF Wire

(* The guest g becomes After(s), and the wires and messages of up' are      *)
(* among those of before.                                                   *)
LEMMA GuestMoves ==
  ASSUME MeshInv, NEW g \in Peers, NEW s \in GP!GuestStates, s.self = g,
         s.live => GP!Sound(s),
         guest' = [guest EXCEPT ![g] = After(s)], UNCHANGED hostVars,
         up' \subseteq up,
         guest[g].live,
         s.live => \A p \in s.cut : Wire(g, p) \notin up',
         ~s.live => \A w \in up' : g \notin w,
         MessagesOK'
  PROVE  MeshInv'
<1> DEFINE d == [G!FreshGuest(s.self) EXCEPT !.live = FALSE, !.ended = s.ended]
<1>1. /\ d \in GP!GuestStates /\ d.self = g /\ ~d.live /\ d.cut = {}
  <2>1. GP!NoRev = G!NoRev /\ GP!NoMessage = G!NoMessage
    BY DEF GP!NoMessage, G!NoMessage, GP!NoRev, G!NoRev
  <2>2. G!NoMessage \in GP!Messages
    BY <2>1 DEF GP!Messages
  <2>3. s.self \in Peers /\ s.ended \in {"no", "authority", "full", "timeout"}
    BY DEF GP!GuestStates
  <2> DEFINE f == G!FreshGuest(s.self)
  <2>4. f \in GP!GuestStates /\ f.self = g /\ f.cut = {}
    BY <2>1, <2>2, <2>3 DEF GP!GuestStates, G!FreshGuest
  <2>5. d = [f EXCEPT !.live = FALSE, !.ended = s.ended]
    OBVIOUS
  <2> HIDE DEF f, d
  <2> QED BY <2>3, <2>4, <2>5 DEF GP!GuestStates
<1>2. After(s) = IF s.live THEN s ELSE d
  BY DEF After
<1> HIDE DEF d
<1> DEFINE r == After(s)
<1>3. /\ r \in GP!GuestStates /\ r.self = g /\ (r.live <=> s.live)
      /\ r.live => r = s
      /\ ~r.live => r.cut = {}
  BY <1>1, <1>2
<1>4. guest \in [Peers -> GP!GuestStates] /\ guest' = [guest EXCEPT ![g] = r]
  BY DEF MeshInv, GuestsOK
<1> HIDE DEF r
<1>5. GuestsOK'
  BY <1>3, <1>4 DEF MeshInv, GuestsOK
<1>6. HostInv'
  BY HostInvNext DEF MeshInv
<1>7. WiresOK'
  <2> SUFFICES ASSUME NEW w \in up'
               PROVE  \E x, y \in MeshIds : /\ x # y /\ w = Wire(x, y)
                                            /\ Present(x)' /\ Present(y)'
    BY DEF WiresOK
  <2>1. PICK x, y \in MeshIds : x # y /\ w = Wire(x, y) /\ Present(x) /\ Present(y)
    BY DEF MeshInv, WiresOK
  <2>2. ASSUME NEW z \in w PROVE Present(z)'
    <3>1. z \in MeshIds /\ Present(z)
      BY <2>1 DEF Wire
    <3>2. hStatus' = hStatus
      BY DEF hostVars
    <3> QED BY <1>3, <1>4, <3>1, <3>2, Finite DEF Present, MeshIds
  <2> QED BY <2>1, <2>2 DEF Wire
<1>8. CutsOK'
  BY <1>3, <1>4 DEF MeshInv, CutsOK
<1> QED BY <1>5, <1>6, <1>7, <1>8 DEF MeshInv

(* Wires break with what is under way on them.                              *)
LEMMA BreakKeeps ==
  ASSUME MessagesOK, NEW gone, Break(gone)
  PROVE  MessagesOK' /\ up' = up \ gone
<1> DEFINE cutOff == {g \in Peers : Wire(Host, g) \in gone}
<1>1. /\ up' = up \ gone /\ hello' = hello \ cutOff /\ notice' = notice \ cutOff
      /\ rosters' = [g \in Peers |-> IF g \in cutOff THEN <<>> ELSE rosters[g]]
  BY DEF Break
<1>2. ASSUME NEW g \in Peers
      PROVE  /\ g \in cutOff <=> Wire(Host, g) \in gone
             /\ rosters'[g] = IF g \in cutOff THEN <<>> ELSE rosters[g]
  BY <1>1
<1> HIDE DEF cutOff
<1>3. rosters' \in [Peers -> Seq(SUBSET Peers)]
  BY <1>1 DEF MessagesOK
<1>4. ASSUME NEW g \in Peers
      PROVE  g \in hello' \union notice' \/ rosters'[g] # <<>> => Wire(Host, g) \in up'
  BY <1>1, <1>2, <1>4 DEF MessagesOK
<1>5. ASSUME NEW g \in Peers, NEW i \in DOMAIN rosters'[g]
      PROVE  GP!Fits(rosters'[g][i])
  <2>1. CASE g \in cutOff
    <3>1. rosters'[g] = <<>>
      BY <1>2, <2>1
    <3> QED BY <1>5, <3>1
  <2>2. CASE g \notin cutOff
    BY <1>2, <1>5, <2>2 DEF MessagesOK
  <2> QED BY <2>1, <2>2
<1> QED BY <1>1, <1>3, <1>4, <1>5 DEF MessagesOK, GP!Fits

(* A step of a guest that closes transports breaks their wires.             *)
LEMMA BecomesKeeps ==
  ASSUME MeshInv, NEW g \in Peers, guest[g].live, NEW s \in GP!GuestStates, s.self = g,
         s.live => GP!Sound(s), Becomes(g, s), UNCHANGED hostVars
  PROVE  MeshInv'
<1> DEFINE gone == IF s.live THEN {Wire(g, p) : p \in s.cut} \intersect up ELSE Wires(g)
<1>1. Break(gone) /\ guest' = [guest EXCEPT ![g] = After(s)]
  BY DEF Becomes
<1>2. s.live => \A p \in s.cut : Wire(g, p) \in up => Wire(g, p) \in gone
  OBVIOUS
<1>3. ~s.live => \A w \in up : g \in w => w \in gone
  BY DEF Wires
<1> HIDE DEF gone
<1>4. MessagesOK' /\ up' = up \ gone
  BY <1>1, BreakKeeps DEF MeshInv
<1> QED BY <1>1, <1>2, <1>3, <1>4, GuestMoves

(* A live guest of the mesh is sound.                                       *)
LEMMA GuestIs ==
  ASSUME MeshInv, NEW g \in Peers, guest[g].live
  PROVE  guest[g] \in GP!GuestStates /\ guest[g].self = g /\ GP!Sound(guest[g])
BY DEF MeshInv, GuestsOK

(* A handler that keeps a guest sound keeps the mesh in order.              *)
LEMMA GuestBecomes ==
  ASSUME MeshInv, NEW g \in Peers, guest[g].live, NEW s, GP!Reacts(guest[g], s),
         Becomes(g, s), UNCHANGED hostVars
  PROVE  MeshInv'
<1>1. s \in GP!GuestStates /\ s.self = g /\ (s.live => GP!Sound(s))
  BY GuestIs DEF GP!Reacts
<1> QED BY <1>1, BecomesKeeps

(* The ids of the guests are those of the mesh.                             *)
LEMMA SameIds == G!Ids = MeshIds /\ GP!Ids = MeshIds
BY DEF G!Ids, GP!Ids, MeshIds

(* The guests.                                                              *)
LEMMA GuestSeesJoinKeeps ==
  ASSUME MeshInv, NEW g \in Peers, NEW p \in G!Ids, GuestSeesJoin(g, p)
  PROVE  MeshInv'
<1> DEFINE s == guest[g]
           r == G!OnJoin(s, p)
<1>1. /\ Wire(g, p) \in up /\ p \notin s.links /\ s.live /\ Becomes(g, r)
      /\ UNCHANGED hostVars
  BY DEF GuestSeesJoin
<1>2. p # g
  <2>1. PICK x, y \in MeshIds : x # y /\ Wire(g, p) = Wire(x, y)
    BY <1>1 DEF MeshInv, WiresOK
  <2> QED BY <2>1, WireEnds
<1>3. s \in GP!GuestStates /\ s.self = g /\ GP!Sound(s)
  BY <1>1, GuestIs
<1>4. r = GP!OnJoin(s, p)
  BY SameOnJoin
<1> HIDE DEF s, r
<1>5. GP!Reacts(s, r)
  BY <1>1, <1>2, <1>3, <1>4, Finite, SameIds, GP!JoinIs DEF GP!Moves
<1> QED BY <1>1, <1>5, GuestBecomes DEF s

LEMMA GuestSeesLeaveKeeps ==
  ASSUME MeshInv, NEW g \in Peers, NEW p \in G!Ids, GuestSeesLeave(g, p)
  PROVE  MeshInv'
<1> DEFINE s == guest[g]
           r == G!OnLeave(s, p)
<1>1. p \in s.links /\ s.live /\ Becomes(g, r) /\ UNCHANGED hostVars
  BY DEF GuestSeesLeave
<1>3. s \in GP!GuestStates /\ s.self = g /\ GP!Sound(s)
  BY <1>1, GuestIs
<1>4. r = GP!OnLeave(s, p)
  BY SameOnLeave
<1> HIDE DEF s, r
<1>5. GP!Reacts(s, r)
  BY <1>1, <1>3, <1>4, Finite, GP!LeaveIs
<1> QED BY <1>1, <1>5, GuestBecomes DEF s

LEMMA GuestTimesOutKeeps ==
  ASSUME MeshInv, NEW g \in Peers, NEW p \in G!Ids, GuestTimesOut(g, p)
  PROVE  MeshInv'
<1> DEFINE s == guest[g]
           r == G!OnPendingTimeout(s, p)
<1>1. p \in s.pending /\ s.live /\ Becomes(g, r) /\ UNCHANGED hostVars
  BY DEF GuestTimesOut
<1>3. s \in GP!GuestStates /\ s.self = g /\ GP!Sound(s)
  BY <1>1, GuestIs
<1>4. r = GP!OnPendingTimeout(s, p)
  BY SameOnPendingTimeout
<1> HIDE DEF s, r
<1>5. GP!Reacts(s, r)
  BY <1>1, <1>3, <1>4, Finite, GP!TimeoutIs DEF GP!Moves
<1> QED BY <1>1, <1>5, GuestBecomes DEF s

LEMMA GuestFallsBackKeeps ==
  ASSUME MeshInv, NEW g \in Peers, GuestFallsBack(g)
  PROVE  MeshInv'
<1> DEFINE s == guest[g]
           r == G!OnFallback(s)
<1>1. s.live /\ Becomes(g, r) /\ UNCHANGED hostVars
  BY DEF GuestFallsBack
<1>3. s \in GP!GuestStates /\ s.self = g /\ GP!Sound(s)
  BY <1>1, GuestIs
<1>4. r = GP!OnFallback(s)
  BY SameOnFallback
<1> HIDE DEF s, r
<1>5. GP!Reacts(s, r)
  BY <1>1, <1>3, <1>4, Finite, GP!FallbackIs DEF GP!Moves
<1> QED BY <1>1, <1>5, GuestBecomes DEF s

LEMMA GuestQuitsKeeps ==
  ASSUME MeshInv, NEW g \in Peers, GuestQuits(g)
  PROVE  MeshInv'
<1> DEFINE r == [guest[g] EXCEPT !.live = FALSE]
<1>1. guest[g].live /\ Becomes(g, r) /\ UNCHANGED hostVars
  BY DEF GuestQuits
<1>2. r \in GP!GuestStates /\ r.self = g /\ ~r.live
  <2> DEFINE s == guest[g]
  <2>1. s \in GP!GuestStates /\ s.self = g
    BY <1>1, GuestIs
  <2>2. r = [s EXCEPT !.live = FALSE]
    OBVIOUS
  <2> HIDE DEF s, r
  <2> QED BY <2>1, <2>2 DEF GP!GuestStates
<1> HIDE DEF r
<1> QED BY <1>1, <1>2, BecomesKeeps

(* A message reaches a guest over a wire it has not closed.                 *)
LEMMA HeardOverWire ==
  ASSUME MeshInv, NEW g \in Peers, guest[g].live,
         g \in hello \union notice \/ rosters[g] # <<>>
  PROVE  Host \notin guest[g].cut
<1>1. Wire(Host, g) \in up /\ Wire(g, Host) = Wire(Host, g)
  BY DEF MeshInv, MessagesOK, Wire
<1> QED BY <1>1 DEF MeshInv, CutsOK

LEMMA GuestSeesHelloKeeps ==
  ASSUME MeshInv, NEW g \in Peers, GuestSeesHello(g)
  PROVE  MeshInv'
<1> DEFINE s == guest[g]
           r == G!OnHostHello(s)
<1>1. /\ g \in hello /\ s.live /\ guest' = [guest EXCEPT ![g] = After(r)]
      /\ UNCHANGED hostVars
      /\ IF r.live
           THEN /\ hello' = hello \ {g} /\ rosters' = rosters /\ notice' = notice
                /\ up' = up \ {Wire(g, p) : p \in r.cut}
           ELSE Break(Wires(g))
  BY DEF GuestSeesHello, Hears
<1>2. s \in GP!GuestStates /\ s.self = g /\ GP!Sound(s) /\ Host \notin s.cut
  BY <1>1, GuestIs, HeardOverWire
<1>3. r = GP!OnHostHello(s)
  BY SameOnHostHello
<1> HIDE DEF s, r
<1>4. GP!Told(s, s.early, r)
  BY <1>1, <1>2, <1>3, Finite, GP!HelloIs
<1>5. r \in GP!GuestStates /\ r.self = g /\ (r.live => GP!Sound(r) /\ Host \notin r.cut)
  BY <1>2, <1>4 DEF GP!Told
<1>6. CASE r.live
  <2>1. \A p \in r.cut : Wire(g, p) \notin up'
    BY <1>1, <1>6
  <2>2. \A h \in Peers : Wire(Host, h) \in up => Wire(Host, h) \in up'
    <3> SUFFICES ASSUME NEW h \in Peers, Wire(Host, h) \in up, NEW p \in r.cut,
                        Wire(Host, h) = Wire(g, p)
                 PROVE  FALSE
      BY <1>1, <1>6
    <3> QED BY <1>5, <1>6, WireEnds, Finite
  <2>3. MessagesOK'
    BY <1>1, <1>6, <2>2 DEF MeshInv, MessagesOK, GP!Fits
  <2> QED BY <1>1, <1>5, <1>6, <2>1, <2>3, GuestMoves DEF s
<1>7. CASE ~r.live
  <2>1. MessagesOK' /\ up' = up \ Wires(g)
    BY <1>1, <1>7, BreakKeeps DEF MeshInv
  <2>2. \A w \in up' : g \notin w
    BY <2>1 DEF Wires
  <2> QED BY <1>1, <1>5, <1>7, <2>1, <2>2, GuestMoves DEF s
<1> QED BY <1>6, <1>7

LEMMA GuestSeesNoticeKeeps ==
  ASSUME MeshInv, NEW g \in Peers, GuestSeesNotice(g)
  PROVE  MeshInv'
<1> DEFINE s == guest[g]
           r == G!OnSessionFull(s)
<1>1. /\ g \in notice /\ s.live /\ guest' = [guest EXCEPT ![g] = After(r)]
      /\ UNCHANGED hostVars
      /\ IF r.live THEN /\ hello' = hello /\ rosters' = rosters /\ notice' = notice \ {g}
                        /\ up' = up
                   ELSE Break(Wires(g))
  BY DEF GuestSeesNotice, Hears
<1>2. s \in GP!GuestStates /\ s.self = g /\ GP!Sound(s)
  BY <1>1, GuestIs
<1>3. r = GP!OnSessionFull(s)
  BY SameOnSessionFull
<1> HIDE DEF s, r
<1>4. GP!Reacts(s, r) /\ (r.live => r.cut = s.cut)
  BY <1>1, <1>2, <1>3, Finite, GP!NoticeIs
<1>5. r \in GP!GuestStates /\ r.self = g /\ (r.live => GP!Sound(r))
  BY <1>2, <1>4 DEF GP!Reacts
<1>6. CASE r.live
  <2>1. \A p \in r.cut : Wire(g, p) \notin up'
    BY <1>1, <1>4, <1>6 DEF MeshInv, CutsOK, s
  <2>3. MessagesOK'
    BY <1>1, <1>6 DEF MeshInv, MessagesOK, GP!Fits
  <2> QED BY <1>1, <1>5, <1>6, <2>1, <2>3, GuestMoves DEF s
<1>7. CASE ~r.live
  <2>1. MessagesOK' /\ up' = up \ Wires(g)
    BY <1>1, <1>7, BreakKeeps DEF MeshInv
  <2>2. \A w \in up' : g \notin w
    BY <2>1 DEF Wires
  <2> QED BY <1>1, <1>5, <1>7, <2>1, <2>2, GuestMoves DEF s
<1> QED BY <1>6, <1>7

LEMMA GuestSeesRosterKeeps ==
  ASSUME MeshInv, NEW g \in Peers, GuestSeesRoster(g)
  PROVE  MeshInv'
<1> DEFINE s == guest[g]
           m == [rev |-> 0, ids |-> Head(rosters[g])]
           r == G!OnRoster(s, m)
<1>1. /\ rosters[g] # <<>> /\ s.live /\ guest' = [guest EXCEPT ![g] = After(r)]
      /\ UNCHANGED hostVars
      /\ IF r.live
           THEN /\ rosters' = [rosters EXCEPT ![g] = Tail(@)]
                /\ hello' = hello /\ notice' = notice
                /\ up' = up \ {Wire(g, p) : p \in r.cut}
           ELSE Break(Wires(g))
  BY DEF GuestSeesRoster, Hears
<1>2. s \in GP!GuestStates /\ s.self = g /\ GP!Sound(s) /\ Host \notin s.cut
  BY <1>1, GuestIs, HeardOverWire
<1>3. r = GP!OnRoster(s, m)
  BY SameOnRoster
<1>8. /\ rosters \in [Peers -> Seq(SUBSET Peers)] /\ rosters[g] \in Seq(SUBSET Peers)
      /\ Head(rosters[g]) \in SUBSET Peers /\ GP!Fits(Head(rosters[g]))
      /\ Tail(rosters[g]) \in Seq(SUBSET Peers)
      /\ \A i \in DOMAIN Tail(rosters[g]) : GP!Fits(Tail(rosters[g])[i])
  <2>1. rosters \in [Peers -> Seq(SUBSET Peers)] /\ rosters[g] \in Seq(SUBSET Peers)
    BY DEF MeshInv, MessagesOK
  <2>2. \A i \in 1..Len(rosters[g]) : GP!Fits(rosters[g][i])
    BY <2>1 DEF MeshInv, MessagesOK
  <2>3. Len(rosters[g]) \in Nat \ {0} /\ Head(rosters[g]) = rosters[g][1]
        /\ Len(Tail(rosters[g])) = Len(rosters[g]) - 1
        /\ Tail(rosters[g]) \in Seq(SUBSET Peers)
    BY <1>1, <2>1
  <2>4. \A i \in 1..Len(Tail(rosters[g])) : /\ Tail(rosters[g])[i] = rosters[g][i + 1]
                                           /\ i + 1 \in 1..Len(rosters[g])
    BY <1>1, <2>1, <2>3
  <2>5. rosters[g][1] \in SUBSET Peers
    BY <2>1, <2>3
  <2> QED BY <2>1, <2>2, <2>3, <2>4, <2>5
<1>9. m \in GP!Rosters /\ GP!Fits(m.ids)
  BY <1>8 DEF GP!Rosters
<1> HIDE DEF s, r, m
<1>4. GP!Told(s, m, r)
  BY <1>1, <1>2, <1>3, <1>9, Finite, GP!RosterIs
<1>5. r \in GP!GuestStates /\ r.self = g /\ (r.live => GP!Sound(r) /\ Host \notin r.cut)
  BY <1>2, <1>4 DEF GP!Told
<1>6. CASE r.live
  <2>1. \A p \in r.cut : Wire(g, p) \notin up'
    BY <1>1, <1>6
  <2>2. \A h \in Peers : Wire(Host, h) \in up => Wire(Host, h) \in up'
    <3> SUFFICES ASSUME NEW h \in Peers, Wire(Host, h) \in up, NEW p \in r.cut,
                        Wire(Host, h) = Wire(g, p)
                 PROVE  FALSE
      BY <1>1, <1>6
    <3> QED BY <1>5, <1>6, WireEnds, Finite
  <2>3. MessagesOK'
    <3>1. \A h \in Peers : rosters'[h] = IF h = g THEN Tail(rosters[g]) ELSE rosters[h]
      BY <1>1, <1>6, <1>8
    <3>2. rosters' \in [Peers -> Seq(SUBSET Peers)]
      BY <1>1, <1>6, <1>8
    <3>3. ASSUME NEW h \in Peers
          PROVE  h \in hello' \union notice' \/ rosters'[h] # <<>> => Wire(Host, h) \in up'
      BY <1>1, <1>6, <2>2, <3>1 DEF MeshInv, MessagesOK
    <3>4. ASSUME NEW h \in Peers, NEW i \in DOMAIN rosters'[h] PROVE GP!Fits(rosters'[h][i])
      BY <1>8, <3>1, <3>4 DEF MeshInv, MessagesOK
    <3> QED BY <3>2, <3>3, <3>4 DEF MessagesOK, GP!Fits
  <2> QED BY <1>1, <1>5, <1>6, <2>1, <2>3, GuestMoves DEF s
<1>7. CASE ~r.live
  <2>1. MessagesOK' /\ up' = up \ Wires(g)
    BY <1>1, <1>7, BreakKeeps DEF MeshInv
  <2>2. \A w \in up' : g \notin w
    BY <2>1 DEF Wires
  <2> QED BY <1>1, <1>5, <1>7, <2>1, <2>2, GuestMoves DEF s
<1> QED BY <1>6, <1>7

----------------------------------------------------------------------------
(* The host and the wires.                                                  *)
LEMMA HostMoves ==
  ASSUME MeshInv, [HostNext]_hostVars, guest' = guest, up' \subseteq up,
         \/ hStatus' = "live" \/ hStatus' = hStatus
         \/ \A w \in up' : Host \notin w,
         MessagesOK'
  PROVE  MeshInv'
<1>1. HostInv'
  BY HostInvNext DEF MeshInv
<1>2. GuestsOK' /\ CutsOK'
  BY DEF MeshInv, GuestsOK, CutsOK
<1>3. WiresOK'
  <2> SUFFICES ASSUME NEW w \in up'
               PROVE  \E x, y \in MeshIds : /\ x # y /\ w = Wire(x, y)
                                            /\ Present(x)' /\ Present(y)'
    BY DEF WiresOK
  <2>1. PICK x, y \in MeshIds : x # y /\ w = Wire(x, y) /\ Present(x) /\ Present(y)
    BY DEF MeshInv, WiresOK
  <2>2. ASSUME NEW z \in w PROVE Present(z)'
    <3>1. Present(z)
      BY <2>1 DEF Wire
    <3> QED BY <3>1 DEF Present
  <2> QED BY <2>1, <2>2 DEF Wire
<1> QED BY <1>1, <1>2, <1>3 DEF MeshInv

(* An announcement is a roster that fits, over wires that are up.           *)
LEMMA AnnounceKeeps ==
  ASSUME MessagesOK, NEW targets, Announce(targets), HostInv', up' = up,
         \A h \in Peers : h \in hello' \union notice' =>
                            h \in hello \union notice \/ Wire(Host, h) \in up
  PROVE  MessagesOK'
<1>1. hAdmitted' \in SUBSET Peers /\ GP!Fits(hAdmitted')
  BY Finite DEF HostInv, HostTypeOK, RosterDeliverable, GP!Fits
<1>2. ASSUME NEW h \in Peers
      PROVE  /\ rosters[h] \in Seq(SUBSET Peers)
             /\ rosters'[h] = IF h \in targets /\ Wire(Host, h) \in up
                                THEN Append(rosters[h], hAdmitted') ELSE rosters[h]
  BY DEF Announce, MessagesOK
<1>3. rosters' \in [Peers -> Seq(SUBSET Peers)]
  BY <1>1, <1>2 DEF Announce
<1>4. ASSUME NEW h \in Peers
      PROVE  h \in hello' \union notice' \/ rosters'[h] # <<>> => Wire(Host, h) \in up'
  BY <1>2 DEF MessagesOK
<1>5. ASSUME NEW h \in Peers, NEW i \in DOMAIN rosters'[h] PROVE GP!Fits(rosters'[h][i])
  <2>1. CASE rosters'[h] = rosters[h]
    BY <1>5, <2>1 DEF MessagesOK
  <2>2. CASE rosters'[h] = Append(rosters[h], hAdmitted')
    <3>1. i \in 1..Len(rosters[h]) + 1
      BY <1>1, <1>2, <1>5, <2>2
    <3>2. CASE i = Len(rosters[h]) + 1
      BY <1>1, <1>2, <2>2, <3>2
    <3>3. CASE i # Len(rosters[h]) + 1
      <4>1. i \in DOMAIN rosters[h] /\ rosters'[h][i] = rosters[h][i]
        BY <1>1, <1>2, <2>2, <3>1, <3>3
      <4> QED BY <4>1 DEF MessagesOK
    <3> QED BY <3>2, <3>3
  <2> QED BY <1>2, <2>1, <2>2
<1> QED BY <1>3, <1>4, <1>5 DEF MessagesOK, GP!Fits

(* Without wires that break or messages that are sent all is as before.     *)
LEMMA SameMessagesKeep ==
  ASSUME MessagesOK, up' = up, rosters' = rosters, hello' = hello, notice' = notice
  PROVE  MessagesOK'
BY DEF MessagesOK, GP!Fits

(* The steps of the host.                                                   *)
LEMMA HostSeesJoinKeeps ==
  ASSUME MeshInv, NEW g \in Peers, HostSeesJoin(g)
  PROVE  MeshInv'
<1>1. HostAdmit(g) \/ HostReject(g)
  BY DEF HostSeesJoin
<1>2. [HostNext]_hostVars /\ hStatus' = "live" /\ HostInv'
  <2>1. HostNext
    BY <1>1 DEF HostNext
  <2>2. hStatus' = "live"
    BY <1>1 DEF HostAdmit, HostReject
  <2> QED BY <2>1, <2>2, HostInvNext DEF MeshInv
<1>3. /\ Wire(Host, g) \in up /\ guest' = guest /\ up' = up
      /\ hello' = hello \union {g} /\ notice' \subseteq notice \union {g}
      /\ \E targets : Announce(targets)
  BY DEF HostSeesJoin
<1>4. MessagesOK'
  BY <1>2, <1>3, AnnounceKeeps DEF MeshInv
<1> QED BY <1>2, <1>3, <1>4, HostMoves

LEMMA HostSeesLeaveKeeps ==
  ASSUME MeshInv, NEW g \in Peers, HostSeesLeave(g)
  PROVE  MeshInv'
<1>1. HostPeerLeave(g) /\ guest' = guest /\ up' = up /\ hello' = hello /\ notice' = notice
      /\ (rosters' = rosters \/ \E targets : Announce(targets))
  BY DEF HostSeesLeave
<1>2. [HostNext]_hostVars /\ hStatus' = hStatus /\ HostInv'
  <2>1. HostNext
    BY <1>1 DEF HostNext
  <2>2. hStatus' = hStatus
    BY <1>1 DEF HostPeerLeave
  <2> QED BY <2>1, <2>2, HostInvNext DEF MeshInv
<1>3. MessagesOK'
  BY <1>1, <1>2, AnnounceKeeps, SameMessagesKeep DEF MeshInv
<1> QED BY <1>1, <1>2, <1>3, HostMoves

LEMMA HostClosesKeeps ==
  ASSUME MeshInv, NEW g \in Peers, HostCloses(g)
  PROVE  MeshInv'
<1>1. HostFlushed(g) /\ guest' = guest
      /\ (UNCHANGED wireVars \/ Break({Wire(Host, g)} \intersect up))
  BY DEF HostCloses
<1>2. [HostNext]_hostVars /\ hStatus' = hStatus
  <2>1. HostNext
    BY <1>1 DEF HostNext
  <2> QED BY <1>1, <2>1 DEF HostFlushed
<1>3. MessagesOK' /\ up' \subseteq up
  <2>1. CASE UNCHANGED wireVars
    BY <2>1, SameMessagesKeep DEF MeshInv, wireVars
  <2>2. CASE Break({Wire(Host, g)} \intersect up)
    BY <2>2, BreakKeeps DEF MeshInv
  <2> QED BY <1>1, <2>1, <2>2
<1> QED BY <1>1, <1>2, <1>3, HostMoves

LEMMA HostSeesAckKeeps ==
  ASSUME MeshInv, NEW g \in Peers, HostSeesAck(g)
  PROVE  MeshInv'
<1>1. (HostAck(g) \/ UNCHANGED hostVars)
      /\ guest' = guest /\ up' = up /\ hello' = hello /\ notice' = notice
      /\ (rosters' = rosters \/ \E targets : Announce(targets))
  BY DEF HostSeesAck
<1>2. [HostNext]_hostVars /\ hStatus' = hStatus /\ HostInv'
  <2>1. [HostNext]_hostVars
    BY <1>1 DEF HostNext
  <2>2. hStatus' = hStatus
    BY <1>1 DEF HostAck, hostVars
  <2> QED BY <2>1, <2>2, HostInvNext DEF MeshInv
<1>3. MessagesOK'
  BY <1>1, <1>2, AnnounceKeeps, SameMessagesKeep DEF MeshInv
<1> QED BY <1>1, <1>2, <1>3, HostMoves

LEMMA HostExpiresKeeps ==
  ASSUME MeshInv, HostExpires
  PROVE  MeshInv'
<1>1. HostReservationExpires /\ guest' = guest /\ up' = up /\ hello' = hello
      /\ notice' = notice /\ \E targets : Announce(targets)
  BY DEF HostExpires
<1>2. [HostNext]_hostVars /\ hStatus' = hStatus /\ HostInv'
  <2>1. HostNext
    BY <1>1 DEF HostNext
  <2>2. hStatus' = hStatus
    BY <1>1 DEF HostReservationExpires
  <2> QED BY <2>1, <2>2, HostInvNext DEF MeshInv
<1>3. MessagesOK'
  BY <1>1, <1>2, AnnounceKeeps DEF MeshInv
<1> QED BY <1>1, <1>2, <1>3, HostMoves

LEMMA HostLeavesKeeps ==
  ASSUME MeshInv, HostLeaves
  PROVE  MeshInv'
<1>1. HostLeave(hPeers) /\ Break(Wires(Host)) /\ guest' = guest
  BY DEF HostLeaves
<1>2. hPeers \in Savable
  <2>1. hAdmitted \in SUBSET Peers /\ hPeers \in SUBSET hAdmitted
        /\ Cardinality(hAdmitted) <= MaxRemote
    BY DEF MeshInv, HostInv, HostTypeOK, RosterAccounted, RosterDeliverable
  <2> QED BY <2>1, SmallerStaysSmall, PeerSetsFinite, MaxRemoteAssumption DEF Savable
<1>3. [HostNext]_hostVars
  BY <1>1, <1>2 DEF HostNext
<1>4. MessagesOK' /\ up' = up \ Wires(Host)
  BY <1>1, BreakKeeps DEF MeshInv
<1>5. \A w \in up' : Host \notin w
  BY <1>4 DEF Wires
<1> QED BY <1>1, <1>3, <1>4, <1>5, HostMoves

LEMMA HostReturnsKeeps ==
  ASSUME MeshInv, HostReturns
  PROVE  MeshInv'
<1>1. HostRejoin /\ guest' = guest /\ up' = up /\ rosters' = rosters /\ hello' = hello
      /\ notice' = notice
  BY DEF HostReturns, wireVars
<1>2. [HostNext]_hostVars /\ hStatus' = "live"
  BY <1>1 DEF HostNext, HostRejoin
<1>3. MessagesOK'
  BY <1>1, SameMessagesKeep DEF MeshInv
<1> QED BY <1>1, <1>2, <1>3, HostMoves

LEMMA HostIsGoneKeeps ==
  ASSUME MeshInv, HostIsGone
  PROVE  MeshInv'
<1>1. HostGone /\ guest' = guest /\ up' = up /\ rosters' = rosters /\ hello' = hello
      /\ notice' = notice
  BY DEF HostIsGone, wireVars
<1>2. [HostNext]_hostVars /\ hStatus = "away"
  BY <1>1 DEF HostNext, HostGone
<1>3. MessagesOK'
  BY <1>1, SameMessagesKeep DEF MeshInv
<1>4. \A w \in up' : Host \notin w
  <2> SUFFICES ASSUME NEW w \in up, Host \in w PROVE FALSE
    BY <1>1
  <2>1. PICK x, y \in MeshIds : w = Wire(x, y) /\ Present(x) /\ Present(y)
    BY DEF MeshInv, WiresOK
  <2> QED BY <1>2, <2>1 DEF Wire, Present
<1> QED BY <1>1, <1>2, <1>3, <1>4, HostMoves

(* A wire that comes up has no end that runs an earlier one: neither is     *)
(* closing it.                                                              *)
LEMMA ConnectKeeps ==
  ASSUME MeshInv, NEW w \in Reachable, Connect(w)
  PROVE  MeshInv'
<1>1. /\ up' = up \union {w} /\ UNCHANGED hostVars /\ guest' = guest /\ hello' = hello
      /\ rosters' = rosters /\ notice' = notice
      /\ \A x \in w : Present(x) /\ \A y \in w \ {x} : ~Active(x, y)
  BY DEF Connect
<1>2. PICK x, y \in MeshIds : x # y /\ w = Wire(x, y)
  BY TwoEnds
<1>3. HostInv' /\ GuestsOK'
  BY <1>1, HostInvNext DEF MeshInv, GuestsOK
<1>4. WiresOK'
  <2>1. \A z : Present(z)' <=> Present(z)
    BY <1>1 DEF Present, hostVars
  <2>2. Present(x) /\ Present(y)
    BY <1>1, <1>2 DEF Wire
  <2> QED BY <1>1, <1>2, <2>1, <2>2 DEF MeshInv, WiresOK
<1>5. MessagesOK'
  BY <1>1 DEF MeshInv, MessagesOK, GP!Fits
<1>6. CutsOK'
  <2> SUFFICES ASSUME NEW g \in Peers, NEW p \in guest[g].cut, Wire(g, p) = w
               PROVE  FALSE
    BY <1>1 DEF MeshInv, CutsOK
  <2>1. guest[g].live /\ GP!Sound(guest[g])
    BY DEF MeshInv, CutsOK, GuestsOK
  <2>2. p \in guest[g].links /\ p # g
    <3> DEFINE s == guest[g]
    <3>1. s.cut \subseteq s.links /\ s.self \notin s.links /\ s.self = g /\ p \in s.cut
      BY <2>1 DEF GP!Sound, GP!Transports, MeshInv, GuestsOK
    <3> QED BY <3>1
  <2>3. Active(g, p)
    BY <2>2, Finite DEF Active
  <2> QED BY <1>1, <2>2, <2>3 DEF Wire
<1> QED BY <1>3, <1>4, <1>5, <1>6 DEF MeshInv

(* A wire breaks.                                                           *)
LEMMA WireDropsKeeps ==
  ASSUME MeshInv, NEW w \in up, WireDrops(w)
  PROVE  MeshInv'
<1>1. Break({w}) /\ UNCHANGED hostVars /\ guest' = guest
  BY DEF WireDrops
<1>2. MessagesOK' /\ up' = up \ {w}
  BY <1>1, BreakKeeps DEF MeshInv
<1> QED BY <1>1, <1>2, HostMoves DEF hostVars

(* Every step keeps the invariant.                                          *)
LEMMA MeshStep == MeshInv /\ [MeshNext]_meshVars => MeshInv'
<1> SUFFICES ASSUME MeshInv, [MeshNext]_meshVars PROVE MeshInv'
  OBVIOUS
<1>1. CASE UNCHANGED meshVars
  <2>1. /\ UNCHANGED hostVars /\ guest' = guest /\ up' = up /\ rosters' = rosters
        /\ hello' = hello /\ notice' = notice
    BY <1>1 DEF meshVars, wireVars
  <2> QED BY <2>1, HostMoves, SameMessagesKeep DEF MeshInv, hostVars
<1>2. CASE MeshNext
  BY <1>2, ConnectKeeps, WireDropsKeeps, HostSeesJoinKeeps, HostSeesLeaveKeeps,
     HostClosesKeeps, HostSeesAckKeeps, GuestSeesJoinKeeps, GuestSeesLeaveKeeps,
     GuestTimesOutKeeps, GuestSeesHelloKeeps, GuestSeesRosterKeeps,
     GuestSeesNoticeKeeps, GuestFallsBackKeeps, GuestQuitsKeeps, HostExpiresKeeps,
     HostLeavesKeeps, HostReturnsKeeps, HostIsGoneKeeps DEF MeshNext
<1> QED BY <1>1, <1>2

(* A guest starts sound, and so does one that has been through the          *)
(* protocol.                                                                *)
LEMMA FreshIsSound ==
  ASSUME NEW g \in Peers
  PROVE  LET s == G!FreshGuest(g)
         IN  s \in GP!GuestStates /\ s.self = g /\ s.cut = {} /\ GP!Sound(s)
<1> DEFINE s == G!FreshGuest(g)
<1>1. s \in GP!GuestStates /\ s.self = g /\ s.cut = {}
  BY DEF GP!GuestStates, G!FreshGuest, GP!Messages, GP!NoMessage, G!NoMessage, GP!NoRev,
         G!NoRev
<1>2. GP!Fits({})
  BY Finite, FS_EmptySet DEF GP!Fits
<1>3. GP!Sound(s)
  BY <1>2 DEF GP!Sound, GP!Transports, GP!Listed, GP!Door, GP!Announced, G!FreshGuest,
              G!NoMessage, GP!NoRev, G!NoRev
<1> QED BY <1>1, <1>3

LEMMA SettledIsSound ==
  ASSUME NEW g \in Settled
  PROVE  LET s == SettledGuest(g)
         IN  s \in GP!GuestStates /\ s.self = g /\ s.cut = {} /\ GP!Sound(s)
<1> DEFINE f == G!FreshGuest(g)
           others == (Settled \ {g}) \union {Host}
           s == [f EXCEPT !.links = others, !.peers = others, !.bound = TRUE,
                          !.authed = TRUE, !.roster = Settled, !.known = TRUE,
                          !.rev = 0]
<1>0. g \in Peers /\ Settled \in SUBSET Peers
  BY MeshAssumption
<1>1. /\ f \in GP!GuestStates /\ f.self = g /\ f.cut = {} /\ f.pending = {}
      /\ f.ended = "no" /\ ~f.closed /\ GP!Fits(f.early.ids) /\ f.early = GP!NoMessage
  <2>1. f.pending = {} /\ f.ended = "no" /\ ~f.closed /\ f.early = G!NoMessage
        /\ G!NoMessage.ids = {} /\ G!NoMessage = GP!NoMessage
    BY DEF G!FreshGuest, G!NoMessage, GP!NoMessage, G!NoRev, GP!NoRev
  <2>2. GP!Fits({})
    BY Finite, FS_EmptySet DEF GP!Fits
  <2> QED BY <1>0, <2>1, <2>2, FreshIsSound
<1>2. others \in SUBSET GP!Ids /\ g \notin others /\ Host \in others
      /\ others \subseteq Settled \union {Host}
  BY <1>0, Finite DEF GP!Ids
<1>3. GP!Fits(Settled)
  BY Finite, MeshAssumption DEF GP!Fits
<1>4. SettledGuest(g) = s
  BY DEF SettledGuest
<1> HIDE DEF f, others
<1>5. s \in GP!GuestStates
  BY <1>0, <1>1, <1>2 DEF GP!GuestStates
<1>6. /\ s.self = g /\ s.cut = {} /\ s.pending = {} /\ s.ended = "no" /\ ~s.closed
      /\ s.early = f.early /\ s.links = others /\ s.peers = others /\ s.bound /\ s.authed
      /\ s.roster = Settled /\ s.known /\ s.rev = 0
  BY <1>1 DEF GP!GuestStates
<1> HIDE DEF s
<1>7. GP!Sound(s)
  BY <1>1, <1>2, <1>3, <1>6 DEF GP!Sound, GP!Transports, GP!Listed, GP!Door, GP!Announced
<1> QED BY <1>4, <1>5, <1>6, <1>7

(* The first state.                                                         *)
LEMMA InitialMesh == MeshInit => MeshInv
<1> SUFFICES ASSUME MeshInit PROVE MeshInv
  OBVIOUS
<1>0. Settled \in SUBSET Peers /\ Cardinality(Settled) <= MaxRemote
  BY MeshAssumption
<1>1. HostInv
  <2>1. Cardinality(hAdmitted) <= MaxRemote /\ Cardinality(hSaved) <= MaxRemote
    BY <1>0, FS_EmptySet, MaxRemoteAssumption DEF MeshInit
  <2>2. hRejoins \in 0..MaxRejoins /\ hStatus = "live" /\ hReserved = {} /\ hSaved = {}
        /\ hFlush = {} /\ hLinks = Settled /\ hPeers = Settled /\ hAdmitted = Settled
        /\ hCapable = Settled
    BY MaxRejoinsAssumption DEF MeshInit
  <2>3. hHadPeer \in BOOLEAN
    BY Zenon DEF MeshInit
  <2> QED BY <1>0, <2>1, <2>2, <2>3 DEF HostInv, HostTypeOK, RosterAccounted,
                                    RosterDeliverable, CapableArePresent
<1>2. \A g \in Peers : /\ guest[g] \in GP!GuestStates /\ guest[g].self = g
                        /\ guest[g].cut = {} /\ GP!Sound(guest[g])
  BY <1>0, FreshIsSound, SettledIsSound DEF MeshInit
<1>3. GuestsOK /\ CutsOK
  BY <1>2 DEF GuestsOK, CutsOK, MeshInit
<1>4. MessagesOK
  BY DEF MessagesOK, MeshInit
<1>5. \A g \in Settled : guest[g].live
  <2>1. \A g \in Settled : SettledGuest(g).live
    BY DEF SettledGuest, G!FreshGuest
  <2> QED BY <1>0, <2>1 DEF MeshInit
<1>6. WiresOK
  <2> SUFFICES ASSUME NEW w \in up
               PROVE  \E x, y \in MeshIds : /\ x # y /\ w = Wire(x, y)
                                            /\ Present(x) /\ Present(y)
    BY DEF WiresOK
  <2>1. PICK x, y \in Settled \union {Host} : x # y /\ w = Wire(x, y)
    BY DEF MeshInit, Wire
  <2>2. \A z \in Settled \union {Host} : Present(z)
    BY <1>5 DEF Present, MeshInit
  <2> QED BY <1>0, <2>1, <2>2 DEF MeshIds
<1> QED BY <1>1, <1>3, <1>4, <1>6 DEF MeshInv

(* The invariant holds in every state.                                      *)
LEMMA MeshInvariant == MeshSpec => []MeshInv
BY InitialMesh, MeshStep, PTL DEF MeshSpec

(* The mesh that survives its host is closed: once all callbacks have run   *)
(* and nobody waits, each edge is held by both of its ends, and a guest     *)
(* that had a roster of the host shares the mesh only with those on it: for *)
(* every number of guests, every cap and network, whatever wires break and  *)
(* however the messages are interleaved (lifecycle.ts, both branches of     *)
(* wireSessionRoom).                                                        *)
THEOREM NoStrangersEver == MeshSpec => []NoStrangers
<1>1. MeshInv => NoStrangers
  <2> SUFFICES ASSUME MeshInv, hStatus = "done", Quiet,
                      \A g \in Peers : guest[g].pending = {},
                      NEW x \in Peers, NEW y \in Peers,
                      guest[x].live, y \in guest[x].peers
               PROVE  /\ guest[y].live /\ x \in guest[y].peers
                      /\ guest[x].known => y \in guest[x].roster
    BY DEF NoStrangers
  <2>1. GP!Sound(guest[x]) /\ guest[x].self = x
    BY GuestIs
  <2>2. y \in guest[x].links /\ y # x
    BY <2>1 DEF GP!Sound, GP!Transports
  <2>3. Wire(x, y) \in up
    BY <2>2, Finite DEF Quiet, Present, Active, G!Ids
  <2>4. guest[y].live
    <3>1. PICK a, b \in MeshIds : Wire(x, y) = Wire(a, b) /\ Present(a) /\ Present(b)
      BY <2>3 DEF MeshInv, WiresOK
    <3> QED BY <3>1, WireEnds, Finite DEF Present
  <2>5. x \in guest[y].links
    <3>1. Wire(y, x) = Wire(x, y)
      BY DEF Wire
    <3> QED BY <2>2, <2>3, <2>4, <3>1, Finite DEF Quiet, Present, Active, G!Ids
  <2>6. \A a \in Peers : \A b \in guest[a].cut : Wire(a, b) \notin up
    BY DEF MeshInv, CutsOK
  <2>7. x \notin guest[y].cut /\ y \notin guest[x].cut
    <3>1. Wire(y, x) = Wire(x, y)
      BY DEF Wire
    <3> QED BY <2>3, <2>6, <3>1
  <2>8. x \in guest[y].peers
    <3>1. GP!Sound(guest[y])
      BY <2>4, GuestIs
    <3> QED BY <2>5, <2>7, <3>1 DEF GP!Sound, GP!Transports
  <2>9. guest[x].known => y \in guest[x].roster
    BY <2>1, <2>7, Finite DEF GP!Sound, GP!Listed
  <2> QED BY <2>4, <2>8, <2>9
<1> QED BY <1>1, MeshInvariant, PTL

----------------------------------------------------------------------------
(* What the host says over its wires, and what therefore stays formed.      *)

(* The rosters a guest has not applied: on their way, or kept for a host    *)
(* that is not verified yet.                                                *)
Unread(g) ==
  {rosters[g][i] : i \in DOMAIN rosters[g]}
    \union (IF guest[g].early = G!NoMessage THEN {} ELSE {guest[g].early.ids})

(* What a guest keeps for a host that is not verified came over the         *)
(* transport it has; no roster is older than what it holds.                 *)
KeptInOrder(g) ==
  LET s == guest[g] IN
  s.live => /\ s.rev \in {G!NoRev, 0}
            /\ s.early # G!NoMessage => s.early.rev = 0
            /\ s.early # G!NoMessage \/ s.full => Host \in s.links

(* What is said over a wire to the host agrees with what the host holds:    *)
(* every unread roster lists a guest of its mesh, which has been told that  *)
(* it is one and will not be told otherwise, and none lists a guest that    *)
(* was turned away.                                                         *)
WordIsTrue(g) ==
  LET s == guest[g] IN
  Wire(Host, g) \in up =>
    /\ Unread(g) # {} \/ g \in hello \/ g \in notice \/ s.full => g \in hLinks
    /\ g \in hPeers => /\ \A ids \in Unread(g) : g \in ids
                       /\ g \notin notice /\ ~s.full
                       /\ s.known \/ Unread(g) # {}
    /\ g \in hLinks => g \in hello \/ s.authed
    /\ g \in hLinks \ hPeers => \A ids \in Unread(g) : g \notin ids
    /\ g \in notice \/ s.full => Unread(g) # {}

WordInv == drops \in Nat /\ \A g \in Peers : KeptInOrder(g) /\ WordIsTrue(g)

(* A guest nothing happens to, unless its wire to the host breaks.          *)
LEMMA WordOfOthers ==
  ASSUME NEW h \in Peers, KeptInOrder(h), WordIsTrue(h), guest'[h] = guest[h],
         Wire(Host, h) \in up' =>
           /\ Wire(Host, h) \in up /\ rosters'[h] = rosters[h]
           /\ h \in hello' <=> h \in hello
           /\ h \in notice' <=> h \in notice
           /\ h \in hLinks' <=> h \in hLinks
           /\ h \in hPeers' <=> h \in hPeers
  PROVE  KeptInOrder(h)' /\ WordIsTrue(h)'
<1>1. KeptInOrder(h)'
  BY DEF KeptInOrder
<1>2. ASSUME Wire(Host, h) \in up' PROVE Unread(h)' = Unread(h)
  BY <1>2 DEF Unread
<1>3. WordIsTrue(h)'
  BY <1>2 DEF WordIsTrue
<1> QED BY <1>1, <1>3

(* Breaking wires loses what was under way on them, and nothing else.       *)
LEMMA BreakLeaves ==
  ASSUME NEW gone, Break(gone), NEW h \in Peers, Wire(Host, h) \in up'
  PROVE  /\ Wire(Host, h) \in up /\ rosters'[h] = rosters[h]
         /\ h \in hello' <=> h \in hello
         /\ h \in notice' <=> h \in notice
<1>1. Wire(Host, h) \in up /\ Wire(Host, h) \notin gone
  BY DEF Break
<1> QED BY <1>1 DEF Break

(* The guest after its step.                                                *)
LEMMA AfterIs ==
  ASSUME MeshInv, NEW g \in Peers, NEW r, guest' = [guest EXCEPT ![g] = After(r)]
  PROVE  /\ r.live => guest'[g] = r
         /\ ~r.live => ~guest'[g].live /\ guest'[g].ended = r.ended
         /\ \A h \in Peers \ {g} : guest'[h] = guest[h]
<1> DEFINE f == G!FreshGuest(r.self)
<1>1. guest'[g] = After(r) /\ \A h \in Peers \ {g} : guest'[h] = guest[h]
  BY DEF MeshInv, GuestsOK
<1>2. ~r.live => ~After(r).live /\ After(r).ended = r.ended
  BY DEF After, G!FreshGuest
<1> QED BY <1>1, <1>2 DEF After

(* The host did not say anything in the step of g.                          *)
LEMMA GuestMovesWord ==
  ASSUME MeshInv, WordInv, NEW g \in Peers, guest[g].live, NEW r, Becomes(g, r),
         UNCHANGED hostVars, drops' \in Nat,
         r.live =>
           \/ /\ GP!Remembers(guest[g], r) /\ r.early = guest[g].early /\ r.rev = guest[g].rev
              /\ Host \in guest[g].links => Host \in r.links
           \/ /\ Wire(Host, g) \notin up /\ r.early = G!NoMessage /\ ~r.full
              /\ r.rev = G!NoRev
  PROVE  WordInv'
<1> DEFINE s == guest[g]
<1>1. /\ r.live => guest'[g] = r
      /\ ~r.live => ~guest'[g].live
      /\ \A h \in Peers \ {g} : guest'[h] = guest[h]
  BY AfterIs DEF Becomes
<1>2. PICK gone : Break(gone) /\ (~r.live => gone = Wires(g))
  BY DEF Becomes
<1>3. \A h \in Peers : Wire(Host, h) \in up' =>
         /\ Wire(Host, h) \in up /\ rosters'[h] = rosters[h]
         /\ h \in hello' <=> h \in hello
         /\ h \in notice' <=> h \in notice
         /\ h \in hLinks' <=> h \in hLinks
         /\ h \in hPeers' <=> h \in hPeers
  BY <1>2, BreakLeaves DEF hostVars
<1>4. ASSUME NEW h \in Peers \ {g} PROVE KeptInOrder(h)' /\ WordIsTrue(h)'
  BY <1>1, <1>3, WordOfOthers DEF WordInv
<1>5. KeptInOrder(g)'
  BY <1>1 DEF KeptInOrder, WordInv, GP!Remembers
<1>6. WordIsTrue(g)'
  <2> SUFFICES ASSUME Wire(Host, g) \in up' PROVE WordIsTrue(g)'
    BY DEF WordIsTrue
  <2>1. r.live
    BY <1>2 DEF Break, Wires, Wire
  <2>2. guest'[g] = r /\ GP!Remembers(s, r) /\ r.early = s.early
    BY <1>1, <1>3, <2>1
  <2>3. Unread(g)' = Unread(g)
    BY <1>3, <2>2 DEF Unread
  <2> QED BY <1>3, <2>2, <2>3 DEF WordIsTrue, WordInv, GP!Remembers
<1> QED BY <1>4, <1>5, <1>6 DEF WordInv

(* The messages and revisions are those of GuestHandlerProofs.              *)
LEMMA SameNothing == G!NoMessage = GP!NoMessage /\ G!NoRev = GP!NoRev
BY DEF G!NoMessage, GP!NoMessage, G!NoRev, GP!NoRev

(* What EdgesStay says of a step, for a guest: it is not turned away, and   *)
(* closes no transport to another that all its rosters list.                *)
GoesOn(g) ==
  /\ g \in hPeers /\ Wire(Host, g) \in up
  /\ guest[g].live /\ ~TakenForLegacy(g)
  => ~Ended(g)'

IsListed(g, y) ==
  /\ y \in guest[g].peers /\ guest[g].known
  /\ \A ids \in {guest[g].roster} \union Unread(g) : {g, y} \subseteq ids
  /\ Wire(g, y) \in up

KeepsListed(g) ==
  \A y \in Peers : IsListed(g, y) /\ drops' = drops => Wire(g, y) \in up'

(* When a handler leaves a guest as r: it has to live on where the          *)
(* properties speak of it, and not to close what is listed.                 *)
LEMMA GuestStays ==
  ASSUME MeshInv, NEW g \in Peers, NEW r, guest' = [guest EXCEPT ![g] = After(r)],
         r.live => r.ended = "no" /\ up \ {Wire(g, p) : p \in r.cut} \subseteq up',
         g \in hPeers /\ Wire(Host, g) \in up /\ ~TakenForLegacy(g)
           => r.live \/ r.ended = "no",
         \A y \in Peers : IsListed(g, y) /\ drops' = drops => r.live /\ y \notin r.cut
  PROVE  GoesOn(g) /\ KeepsListed(g)
<1>1. /\ r.live => guest'[g] = r
      /\ ~r.live => guest'[g].ended = r.ended
  BY AfterIs
<1>2. GoesOn(g)
  BY <1>1 DEF GoesOn, Ended
<1>3. KeepsListed(g)
  <2> SUFFICES ASSUME NEW y \in Peers, IsListed(g, y), drops' = drops,
                      NEW p \in r.cut, Wire(g, y) = Wire(g, p)
               PROVE  FALSE
    BY DEF KeepsListed, IsListed
  <2> QED BY WireEnds
<1> QED BY <1>2, <1>3

(* A transport that is listed and up is not being closed.                   *)
LEMMA ListedIs ==
  ASSUME MeshInv, NEW g \in Peers, NEW y \in Peers, IsListed(g, y)
  PROVE  LET s == guest[g]
         IN  /\ s.live /\ s.known /\ y \notin s.cut /\ y \in s.links /\ y \notin s.pending
             /\ y \in s.peers /\ y \in s.roster /\ y # g
<1>1. y \notin guest[g].cut
  BY DEF MeshInv, CutsOK, IsListed
<1>2. guest[g].live
  <2>1. PICK a, b \in MeshIds : Wire(g, y) = Wire(a, b) /\ Present(a) /\ Present(b)
    BY DEF MeshInv, WiresOK, IsListed
  <2> QED BY <2>1, WireEnds, Finite DEF Present
<1>3. GP!Sound(guest[g]) /\ guest[g].self = g
  BY <1>2, GuestIs
<1> QED BY <1>1, <1>2, <1>3 DEF IsListed, GP!Sound, GP!Transports

(* What a guest with a wire to its host knows of itself.                    *)
LEMMA WordSays ==
  ASSUME WordInv, NEW g \in Peers
  PROVE  /\ KeptInOrder(g) /\ WordIsTrue(g)
         /\ Wire(Host, g) \in up =>
              /\ g \in hPeers => g \notin notice /\ ~guest[g].full
              /\ \A y \in Peers : IsListed(g, y) => g \notin notice /\ ~guest[g].full
<1>1. KeptInOrder(g) /\ WordIsTrue(g)
  BY DEF WordInv
<1>2. ASSUME Wire(Host, g) \in up, NEW y \in Peers, IsListed(g, y)
      PROVE  g \notin notice /\ ~guest[g].full
  <2>1. \A ids \in Unread(g) : g \in ids
    BY <1>2 DEF IsListed
  <2> QED BY <1>1, <1>2, <2>1 DEF WordIsTrue
<1> QED BY <1>1, <1>2 DEF WordIsTrue

(* A callback that is no message: Becomes.                                  *)
LEMMA BecomesStays ==
  ASSUME MeshInv, NEW g \in Peers, guest[g].live, NEW r, Becomes(g, r),
         GP!Reacts(guest[g], r),
         g \in hPeers /\ Wire(Host, g) \in up /\ ~TakenForLegacy(g) => r.live,
         \A y \in Peers : IsListed(g, y) => r.live /\ y \notin r.cut
  PROVE  GoesOn(g) /\ KeepsListed(g)
<1>1. guest' = [guest EXCEPT ![g] = After(r)]
  BY DEF Becomes
<1>2. ASSUME r.live
      PROVE  r.ended = "no" /\ up \ {Wire(g, p) : p \in r.cut} \subseteq up'
  <2>1. r.ended = "no"
    BY <1>2 DEF GP!Reacts, GP!Sound, GP!Transports
  <2>2. Break({Wire(g, p) : p \in r.cut} \intersect up)
    BY <1>2 DEF Becomes
  <2> QED BY <2>1, <2>2 DEF Break
<1> QED BY <1>1, <1>2, GuestStays

(* The steps of the guests. A transport opens: it closes nothing listed.    *)
LEMMA GuestSeesJoinTells ==
  ASSUME MeshInv, WordInv, NEW g \in Peers, NEW p \in G!Ids, GuestSeesJoin(g, p)
  PROVE  WordInv' /\ GoesOn(g) /\ KeepsListed(g)
<1> DEFINE s == guest[g]
           r == G!OnJoin(s, p)
<1>1. /\ Wire(g, p) \in up /\ p \notin s.links /\ s.live /\ Becomes(g, r)
      /\ UNCHANGED hostVars /\ drops' = drops
  BY DEF GuestSeesJoin
<1>2. p # g
  <2>1. PICK x, y \in MeshIds : x # y /\ Wire(g, p) = Wire(x, y)
    BY <1>1 DEF MeshInv, WiresOK
  <2> QED BY <2>1, WireEnds
<1>3. s \in GP!GuestStates /\ s.self = g /\ GP!Sound(s)
  BY <1>1, GuestIs
<1>4. r = GP!OnJoin(s, p)
  BY SameOnJoin
<1> HIDE DEF r
<1>5. /\ GP!Moves(s, r) /\ r.live /\ r.links = s.links \union {p}
      /\ GP!Remembers(s, r) /\ r.cut \subseteq s.cut \union {p}
  <2> HIDE DEF s
  <2> QED BY <1>1, <1>2, <1>3, <1>4, Finite, SameIds, GP!JoinIs
<1>6. GP!Reacts(s, r) /\ r.rev = s.rev /\ r.early = s.early
  BY <1>5 DEF GP!Moves
<1>7. WordInv'
  BY <1>1, <1>5, <1>6, GuestMovesWord DEF WordInv
<1>8. \A y \in Peers : IsListed(g, y) => r.live /\ y \notin r.cut
  BY <1>1, <1>5, ListedIs
<1> QED BY <1>1, <1>5, <1>6, <1>7, <1>8, BecomesStays

(* A transport is lost; that of the host takes what came over it along.     *)
LEMMA GuestSeesLeaveTells ==
  ASSUME MeshInv, WordInv, NEW g \in Peers, NEW p \in G!Ids, GuestSeesLeave(g, p)
  PROVE  WordInv' /\ GoesOn(g) /\ KeepsListed(g)
<1> DEFINE s == guest[g]
           r == G!OnLeave(s, p)
<1>1. /\ Wire(g, p) \notin up /\ p \in s.links /\ s.live /\ Becomes(g, r)
      /\ UNCHANGED hostVars /\ drops' = drops
  BY DEF GuestSeesLeave
<1>3. s \in GP!GuestStates /\ s.self = g /\ GP!Sound(s)
  BY <1>1, GuestIs
<1>4. r = GP!OnLeave(s, p)
  BY SameOnLeave
<1>2. p = Host => Wire(Host, g) \notin up
  BY <1>1 DEF Wire
<1> HIDE DEF r
<1>5. /\ GP!Reacts(s, r)
      /\ r.live => /\ r.links = s.links \ {p}
                   /\ p = Host => r.rev = GP!NoRev /\ r.early = GP!NoMessage /\ ~r.full
                   /\ p # Host => /\ r.rev = s.rev /\ r.early = s.early
                                  /\ GP!Remembers(s, r) /\ r.cut \subseteq s.cut
      /\ p # Host \/ s.known => r.live
      /\ s.known => r.cut \subseteq s.cut \union ((s.pending \union s.peers) \ s.roster)
  <2> HIDE DEF s
  <2> QED BY <1>1, <1>3, <1>4, Finite, GP!LeaveIs
<1>7. WordInv'
  BY <1>1, <1>2, <1>5, SameNothing, GuestMovesWord DEF WordInv
<1>8. \A y \in Peers : IsListed(g, y) => r.live /\ y \notin r.cut
  BY <1>5, ListedIs
<1> QED BY <1>1, <1>2, <1>5, <1>7, <1>8, BecomesStays

(* Nobody who is listed waits, and an admitted guest is verified in time.   *)
LEMMA GuestTimesOutTells ==
  ASSUME MeshInv, WordInv, NEW g \in Peers, NEW p \in G!Ids, GuestTimesOut(g, p)
  PROVE  WordInv' /\ GoesOn(g) /\ KeepsListed(g)
<1> DEFINE s == guest[g]
           r == G!OnPendingTimeout(s, p)
<1>1. /\ p \in s.pending /\ s.live /\ Becomes(g, r) /\ UNCHANGED hostVars
      /\ drops' = drops /\ hello = {}
  BY DEF GuestTimesOut, TimersMayFire, Quiet
<1>3. s \in GP!GuestStates /\ s.self = g /\ GP!Sound(s)
  BY <1>1, GuestIs
<1>4. r = GP!OnPendingTimeout(s, p)
  BY SameOnPendingTimeout
<1>2. g \in hPeers /\ Wire(Host, g) \in up => s.authed
  <2>1. hPeers \subseteq hLinks
    BY DEF MeshInv, HostInv, HostTypeOK
  <2> QED BY <1>1, <2>1 DEF WordInv, WordIsTrue
<1> HIDE DEF r
<1>5. /\ GP!Moves(s, r) /\ r.links = s.links
      /\ s.known \/ s.authed => r.live
      /\ r.live => GP!Remembers(s, r) /\ r.cut \subseteq s.cut \union {p}
  <2> HIDE DEF s
  <2> QED BY <1>1, <1>3, <1>4, Finite, GP!TimeoutIs
<1>6. GP!Reacts(s, r) /\ (r.live => r.rev = s.rev /\ r.early = s.early)
  BY <1>5 DEF GP!Moves
<1>7. WordInv'
  BY <1>1, <1>5, <1>6, GuestMovesWord DEF WordInv
<1>8. \A y \in Peers : IsListed(g, y) => r.live /\ y \notin r.cut
  BY <1>1, <1>5, ListedIs
<1> QED BY <1>1, <1>2, <1>5, <1>6, <1>7, <1>8, BecomesStays

(* The legacy timer finds the roster here, or takes the guest for legacy.   *)
LEMMA GuestFallsBackTells ==
  ASSUME MeshInv, WordInv, NEW g \in Peers, GuestFallsBack(g)
  PROVE  WordInv' /\ GoesOn(g) /\ KeepsListed(g)
<1> DEFINE s == guest[g]
           r == G!OnFallback(s)
<1>1. /\ s.live /\ s.fallback /\ Becomes(g, r) /\ UNCHANGED hostVars /\ drops' = drops
      /\ SlowRosters \/ rosters[g] = <<>>
  BY DEF GuestFallsBack, Quiet
<1>3. s \in GP!GuestStates /\ s.self = g /\ GP!Sound(s)
  BY <1>1, GuestIs
<1>4. r = GP!OnFallback(s)
  BY SameOnFallback
<1>2. /\ g \in hPeers /\ Wire(Host, g) \in up /\ ~TakenForLegacy(g)
           => s.known \/ ~s.authed \/ ~G!Crowded(s)
      /\ G!Crowded(s) <=> GP!Crowded(s)
  <2>0. G!Crowded(s) <=> GP!Crowded(s)
    BY DEF G!Crowded, GP!Crowded, G!Cardinality, GP!Cardinality
  <2> SUFFICES ASSUME g \in hPeers, Wire(Host, g) \in up, rosters[g] = <<>>, s.authed
               PROVE  s.known
    BY <1>1, <2>0 DEF TakenForLegacy
  <2>1. s.early = G!NoMessage
    BY <1>3, SameNothing DEF GP!Sound, GP!Announced
  <2>2. Unread(g) = {}
    BY <2>1 DEF Unread
  <2> QED BY <2>2 DEF WordInv, WordIsTrue
<1> HIDE DEF r
<1>5. /\ GP!Moves(s, r) /\ r.links = s.links
      /\ r.live => GP!Remembers(s, r)
      /\ s.known \/ ~s.authed => r.live /\ r.cut = s.cut
      /\ r.live \/ GP!Crowded(s)
  <2> HIDE DEF s
  <2> QED BY <1>1, <1>3, <1>4, Finite, GP!FallbackIs
<1>6. GP!Reacts(s, r) /\ (r.live => r.rev = s.rev /\ r.early = s.early)
  BY <1>5 DEF GP!Moves
<1>7. WordInv'
  BY <1>1, <1>5, <1>6, GuestMovesWord DEF WordInv
<1>8. \A y \in Peers : IsListed(g, y) => r.live /\ y \notin r.cut
  BY <1>1, <1>5, ListedIs
<1> QED BY <1>1, <1>2, <1>5, <1>6, <1>7, <1>8, BecomesStays

(* A guest that quits is counted among the drops.                           *)
LEMMA GuestQuitsTells ==
  ASSUME MeshInv, WordInv, NEW g \in Peers, GuestQuits(g)
  PROVE  WordInv' /\ GoesOn(g) /\ KeepsListed(g)
<1> DEFINE r == [guest[g] EXCEPT !.live = FALSE]
<1>1. guest[g].live /\ Becomes(g, r) /\ UNCHANGED hostVars /\ drops' = drops + 1
  BY DEF GuestQuits
<1>2. ~r.live /\ r.ended = "no"
  <2> DEFINE s == guest[g]
  <2>1. s \in GP!GuestStates /\ s.ended = "no"
    BY <1>1, GuestIs DEF GP!Sound, GP!Transports
  <2>2. r = [s EXCEPT !.live = FALSE]
    OBVIOUS
  <2> HIDE DEF s, r
  <2> QED BY <2>1, <2>2 DEF GP!GuestStates
<1> HIDE DEF r
<1>3. drops \in Nat /\ drops' \in Nat /\ drops' # drops
  BY <1>1 DEF WordInv
<1>4. WordInv'
  BY <1>1, <1>2, <1>3, GuestMovesWord
<1>5. guest' = [guest EXCEPT ![g] = After(r)]
  BY <1>1 DEF Becomes
<1> QED BY <1>2, <1>3, <1>4, <1>5, GuestStays

(* A message heard by g: nothing happens to the others, and a guest that it *)
(* ends has no wires left.                                                  *)
LEMMA HeardByOne ==
  ASSUME MeshInv, WordInv, NEW g \in Peers, NEW r, guest' = [guest EXCEPT ![g] = After(r)],
         UNCHANGED hostVars, drops' = drops,
         r.live => /\ up' \subseteq up
                   /\ \A h \in Peers \ {g} : /\ rosters'[h] = rosters[h]
                                             /\ h \in hello' <=> h \in hello
                                             /\ h \in notice' <=> h \in notice
                   /\ KeptInOrder(g)' /\ WordIsTrue(g)',
         ~r.live => Break(Wires(g))
  PROVE  WordInv'
<1>1. /\ ~r.live => ~guest'[g].live
      /\ \A h \in Peers \ {g} : guest'[h] = guest[h]
  BY AfterIs
<1>2. ASSUME NEW h \in Peers \ {g} PROVE KeptInOrder(h)' /\ WordIsTrue(h)'
  <2>1. Wire(Host, h) \in up' =>
         /\ Wire(Host, h) \in up /\ rosters'[h] = rosters[h]
         /\ h \in hello' <=> h \in hello
         /\ h \in notice' <=> h \in notice
         /\ h \in hLinks' <=> h \in hLinks
         /\ h \in hPeers' <=> h \in hPeers
    BY BreakLeaves DEF hostVars
  <2>2. KeptInOrder(h) /\ WordIsTrue(h) /\ guest'[h] = guest[h]
    BY <1>1 DEF WordInv
  <2> QED BY <2>1, <2>2, WordOfOthers
<1>3. KeptInOrder(g)' /\ WordIsTrue(g)'
  <2>1. CASE r.live
    BY <2>1
  <2>2. CASE ~r.live
    <3>1. Wire(Host, g) \notin up'
      BY <2>2 DEF Break, Wires, Wire
    <3> QED BY <1>1, <2>2, <3>1 DEF KeptInOrder, WordIsTrue
  <2> QED BY <2>1, <2>2
<1> QED BY <1>2, <1>3 DEF WordInv

(* A guest that hears from its host, and whose door is closed, has the host *)
(* in its mesh: it does not take the host's roster for another's.           *)
LEMMA DoorKnowsHost ==
  ASSUME MeshInv, NEW g \in Peers, Hears(g),
         g \in hello \union notice \/ rosters[g] # <<>>
  PROVE  /\ Wire(Host, g) \in up /\ Host \notin guest[g].cut
         /\ guest[g].closed => Host \in guest[g].peers
<1>1. Wire(Host, g) \in up /\ Host \notin guest[g].cut
  BY HeardOverWire DEF MeshInv, MessagesOK, Hears
<1>2. GP!Sound(guest[g]) /\ Host \in guest[g].links
  BY GuestIs DEF Hears
<1> QED BY <1>1, <1>2 DEF GP!Sound, GP!Transports, GP!Door

(* A notice goes to no guest that the host has in its mesh.                 *)
LEMMA GuestSeesNoticeTells ==
  ASSUME MeshInv, WordInv, NEW g \in Peers, GuestSeesNotice(g)
  PROVE  WordInv' /\ GoesOn(g) /\ KeepsListed(g)
<1> DEFINE s == guest[g]
           r == G!OnSessionFull(s)
<1>1. /\ g \in notice /\ s.live /\ guest' = [guest EXCEPT ![g] = After(r)]
      /\ Host \in s.links
      /\ UNCHANGED hostVars /\ drops' = drops
      /\ r.live => /\ hello' = hello /\ rosters' = rosters /\ notice' = notice \ {g}
                   /\ up' = up
      /\ ~r.live => Break(Wires(g))
  BY DEF GuestSeesNotice, Hears
<1>2. s \in GP!GuestStates /\ s.self = g /\ GP!Sound(s)
  BY <1>1, GuestIs
<1>3. r = GP!OnSessionFull(s)
  BY SameOnSessionFull
<1> HIDE DEF r
<1>4. /\ GP!Reacts(s, r) /\ (r.live <=> ~s.authed)
      /\ r.live => /\ r.links = s.links /\ r.cut = s.cut /\ r.rev = s.rev
                   /\ r.early = s.early /\ r.full /\ ~r.authed /\ (r.known <=> s.known)
  <2> HIDE DEF s
  <2> QED BY <1>1, <1>2, <1>3, Finite, GP!NoticeIs
<1>5. Wire(Host, g) \in up
  BY <1>1 DEF MeshInv, MessagesOK
<1>6. ASSUME r.live PROVE KeptInOrder(g)' /\ WordIsTrue(g)'
  <2>1. guest'[g] = r
    BY <1>1, <1>6, AfterIs
  <2>2. Unread(g)' = Unread(g)
    BY <1>1, <1>4, <1>6, <2>1 DEF Unread
  <2>3. KeptInOrder(g)'
    BY <1>1, <1>4, <1>6, <2>1 DEF WordInv, KeptInOrder
  <2>4. WordIsTrue(g)'
    BY <1>1, <1>4, <1>5, <1>6, <2>1, <2>2 DEF WordInv, WordIsTrue, hostVars
  <2> QED BY <2>3, <2>4
<1>7. WordInv'
  BY <1>1, <1>6, HeardByOne
<1>8. r.live => r.ended = "no"
  BY <1>4 DEF GP!Reacts, GP!Sound, GP!Transports
<1>9. \A y \in Peers : ~IsListed(g, y)
  BY <1>1, <1>5, WordSays
<1>10. g \notin hPeers
  BY <1>1, <1>5, WordSays
<1> QED BY <1>1, <1>7, <1>8, <1>9, <1>10, GuestStays

(* The hello: a kept roster is applied, and it lists the guest.             *)
LEMMA GuestSeesHelloTells ==
  ASSUME MeshInv, WordInv, NEW g \in Peers, GuestSeesHello(g)
  PROVE  WordInv' /\ GoesOn(g) /\ KeepsListed(g)
<1> DEFINE s == guest[g]
           r == G!OnHostHello(s)
<1>1. /\ g \in hello /\ s.live /\ guest' = [guest EXCEPT ![g] = After(r)]
      /\ Hears(g) /\ Host \in s.links
      /\ UNCHANGED hostVars /\ drops' = drops
      /\ r.live => /\ hello' = hello \ {g} /\ rosters' = rosters /\ notice' = notice
                   /\ up' = up \ {Wire(g, p) : p \in r.cut}
      /\ ~r.live => Break(Wires(g))
  BY DEF GuestSeesHello, Hears
<1>2. /\ s \in GP!GuestStates /\ s.self = g /\ GP!Sound(s) /\ Host \notin s.cut
      /\ Wire(Host, g) \in up /\ (s.closed => Host \in s.peers)
  BY <1>1, GuestIs, DoorKnowsHost
<1>3. r = GP!OnHostHello(s)
  BY SameOnHostHello
<1> HIDE DEF r
<1>4. /\ GP!Told(s, s.early, r) /\ GP!Reacts(s, r) /\ r.authed
      /\ s.authed => r = s
      /\ ~s.authed /\ s.full => ~r.live
      /\ ~s.authed /\ ~s.full /\ s.early # GP!NoMessage => GP!Heeded(s, s.early, r)
      /\ ~s.authed /\ ~s.full /\ s.early = GP!NoMessage
           => r.live /\ r.cut = s.cut /\ (r.known <=> s.known)
  <2> HIDE DEF s
  <2> QED BY <1>1, <1>2, <1>3, Finite, GP!HelloIs
<1>5. /\ s.rev \in {G!NoRev, 0}
      /\ s.early # G!NoMessage => s.early.rev = 0
      /\ s.early = G!NoMessage => s.early.rev = G!NoRev
  <2>1. G!NoMessage.rev = G!NoRev
    BY DEF G!NoMessage
  <2> QED BY <1>1, <2>1 DEF WordInv, KeptInOrder
<1>6. s.early # G!NoMessage => ~GP!Stale(s, s.early)
  BY <1>5, SameNothing DEF GP!Stale, G!NoRev
<1>7. ~s.authed /\ ~s.full /\ s.early # G!NoMessage =>
        /\ r.live <=> g \in s.early.ids
        /\ r.live => /\ r.known
                     /\ r.cut \subseteq s.cut \union s.pending
                                         \union (s.peers \ (s.early.ids \union {Host}))
  BY <1>2, <1>4, <1>6, SameNothing DEF GP!Heeded
<1>8. r.live => /\ r.early = G!NoMessage /\ r.ended = "no" /\ r.full = s.full
                /\ r.links = s.links /\ r.rev \in {G!NoRev, 0}
  BY <1>4, <1>5, SameNothing
     DEF GP!Told, GP!Sound, GP!Announced, GP!Transports
<1>9. ASSUME r.live PROVE KeptInOrder(g)' /\ WordIsTrue(g)'
  <2>1. guest'[g] = r
    BY <1>1, <1>9, AfterIs
  <2>2. Unread(g)' = {rosters[g][i] : i \in DOMAIN rosters[g]}
    BY <1>1, <1>8, <1>9, <2>1 DEF Unread
  <2>3. /\ Unread(g)' \subseteq Unread(g)
        /\ s.early = G!NoMessage => Unread(g)' = Unread(g)
        /\ s.early # G!NoMessage => s.early.ids \in Unread(g)
    BY <2>2 DEF Unread
  <2>4. KeptInOrder(g)'
    BY <1>1, <1>8, <1>9, <2>1 DEF KeptInOrder
  <2>5. s.authed => s.early = G!NoMessage
    BY <1>2, SameNothing DEF GP!Sound, GP!Announced
  <2>6. s.early # G!NoMessage => r.known /\ g \in s.early.ids /\ ~s.full
    BY <1>4, <1>7, <1>9, <2>5
  <2>7. s.early = G!NoMessage => (r.known <=> s.known)
    BY <1>4, <1>9, SameNothing
  <2>8. /\ g \in hLinks' <=> g \in hLinks
        /\ g \in hPeers' <=> g \in hPeers
        /\ g \in notice' <=> g \in notice
    BY <1>1, <1>9 DEF hostVars
  <2>9. WordIsTrue(g)
    BY DEF WordInv
  <2>10. WordIsTrue(g)'
    BY <1>2, <1>4, <1>8, <1>9, <2>1, <2>3, <2>6, <2>7, <2>8, <2>9, <1>1 DEF WordIsTrue
  <2> QED BY <2>4, <2>10
<1>10. WordInv'
  BY <1>1, <1>9, HeardByOne
<1>11. s.early # G!NoMessage => s.early.ids \in Unread(g)
  BY DEF Unread
<1>12. g \in hPeers => r.live
  <2> SUFFICES ASSUME g \in hPeers PROVE r.live
    OBVIOUS
  <2>1. ~s.full /\ (s.early # G!NoMessage => g \in s.early.ids)
    BY <1>2, <1>11 DEF WordInv, WordIsTrue
  <2> QED BY <1>1, <1>4, <1>7, <2>1, SameNothing
<1>13. ASSUME NEW y \in Peers, IsListed(g, y) PROVE r.live /\ y \notin r.cut
  <2>1. ~s.full
    BY <1>2, <1>13, WordSays
  <2>2. s.early # G!NoMessage => g \in s.early.ids /\ y \in s.early.ids
    BY <1>11, <1>13 DEF IsListed
  <2>3. y \notin s.cut /\ y \notin s.pending
    BY <1>13, ListedIs
  <2> QED BY <1>1, <1>4, <1>7, <2>1, <2>2, <2>3, SameNothing
<1> QED BY <1>1, <1>8, <1>10, <1>12, <1>13, GuestStays

(* A roster is applied, or kept; every one lists a guest of the mesh.       *)
LEMMA GuestSeesRosterTells ==
  ASSUME MeshInv, WordInv, NEW g \in Peers, GuestSeesRoster(g)
  PROVE  WordInv' /\ GoesOn(g) /\ KeepsListed(g)
<1> DEFINE s == guest[g]
           m == [rev |-> 0, ids |-> Head(rosters[g])]
           r == G!OnRoster(s, m)
<1>1. /\ rosters[g] # <<>> /\ s.live /\ guest' = [guest EXCEPT ![g] = After(r)]
      /\ Hears(g) /\ Host \in s.links
      /\ UNCHANGED hostVars /\ drops' = drops
      /\ r.live => /\ rosters' = [rosters EXCEPT ![g] = Tail(@)]
                   /\ hello' = hello /\ notice' = notice
                   /\ up' = up \ {Wire(g, p) : p \in r.cut}
      /\ ~r.live => Break(Wires(g))
  BY DEF GuestSeesRoster, Hears
<1>2. /\ s \in GP!GuestStates /\ s.self = g /\ GP!Sound(s) /\ Host \notin s.cut
      /\ Wire(Host, g) \in up /\ (s.closed => Host \in s.peers)
  BY <1>1, GuestIs, DoorKnowsHost
<1>3. r = GP!OnRoster(s, m)
  BY SameOnRoster
<1>4. /\ rosters[g] \in Seq(SUBSET Peers) /\ 1 \in DOMAIN rosters[g]
      /\ Head(rosters[g]) = rosters[g][1] /\ Head(rosters[g]) \in SUBSET Peers
      /\ GP!Fits(Head(rosters[g]))
      /\ \A i \in DOMAIN Tail(rosters[g]) : /\ i + 1 \in DOMAIN rosters[g]
                                            /\ Tail(rosters[g])[i] = rosters[g][i + 1]
  <2>1. rosters[g] \in Seq(SUBSET Peers)
    BY DEF MeshInv, MessagesOK
  <2>2. /\ Len(rosters[g]) \in Nat \ {0} /\ Head(rosters[g]) = rosters[g][1]
        /\ Len(Tail(rosters[g])) = Len(rosters[g]) - 1
    BY <1>1, <2>1
  <2>3. 1 \in DOMAIN rosters[g] /\ rosters[g][1] \in SUBSET Peers
    BY <2>1, <2>2
  <2>4. GP!Fits(rosters[g][1])
    BY <2>3 DEF MeshInv, MessagesOK
  <2>5. \A i \in 1..Len(Tail(rosters[g])) : /\ i + 1 \in 1..Len(rosters[g])
                                            /\ Tail(rosters[g])[i] = rosters[g][i + 1]
    BY <1>1, <2>1, <2>2
  <2> QED BY <2>1, <2>2, <2>3, <2>4, <2>5
<1>5. m \in GP!Rosters /\ GP!Fits(m.ids) /\ m.rev = 0 /\ m.ids = Head(rosters[g])
      /\ m # G!NoMessage
  BY <1>4 DEF GP!Rosters, G!NoMessage, G!NoRev
<1> HIDE DEF m, r
<1>6. /\ GP!Told(s, m, r) /\ GP!Reacts(s, r) /\ (r.authed <=> s.authed)
      /\ s.authed => GP!Heeded(s, m, r)
      /\ ~s.authed => r.live /\ r.early = m /\ r.cut = s.cut /\ (r.known <=> s.known)
  <2> HIDE DEF s
  <2> QED BY <1>1, <1>2, <1>3, <1>5, Finite, GP!RosterIs
<1>7. s.rev \in {G!NoRev, 0}
  BY <1>1 DEF WordInv, KeptInOrder
<1>8. s.authed => /\ r.live <=> g \in m.ids
                  /\ r.live => /\ r.known /\ r.early = G!NoMessage
                               /\ r.cut \subseteq s.cut \union s.pending
                                                   \union (s.peers \ (m.ids \union {Host}))
  <2>1. ~GP!Stale(s, m)
    BY <1>5, <1>7, SameNothing DEF GP!Stale, G!NoRev
  <2>2. r.live /\ r.authed => r.early = G!NoMessage
    BY <1>6, SameNothing DEF GP!Told, GP!Sound, GP!Announced
  <2> QED BY <1>2, <1>6, <2>1, <2>2 DEF GP!Heeded
<1>9. r.live => /\ r.ended = "no" /\ r.full = s.full
                /\ r.links = s.links /\ r.rev \in {G!NoRev, 0}
  BY <1>5, <1>6, <1>7 DEF GP!Told, GP!Sound, GP!Transports
<1>10. m.ids \in Unread(g)
  BY <1>4, <1>5 DEF Unread
<1>11. ASSUME r.live PROVE KeptInOrder(g)' /\ WordIsTrue(g)'
  <2>1. guest'[g] = r
    BY <1>1, <1>11, AfterIs
  <2>2. rosters'[g] = Tail(rosters[g])
    BY <1>1, <1>11 DEF MeshInv, MessagesOK
  <2>3. {rosters'[g][i] : i \in DOMAIN rosters'[g]} \subseteq Unread(g)
    BY <1>4, <2>2 DEF Unread
  <2>4. Unread(g)' \subseteq Unread(g)
    <3>1. Unread(g)' = {rosters'[g][i] : i \in DOMAIN rosters'[g]}
                        \union (IF r.early = G!NoMessage THEN {} ELSE {r.early.ids})
      BY <2>1 DEF Unread
    <3> QED BY <1>6, <1>8, <1>10, <1>11, <2>3, <3>1
  <2>5. ~s.authed => Unread(g)' # {}
    BY <1>5, <1>6, <2>1 DEF Unread
  <2>6. s.authed => r.known /\ g \in m.ids
    BY <1>8, <1>11
  <2>7. KeptInOrder(g)'
    BY <1>1, <1>5, <1>6, <1>8, <1>9, <1>11, <2>1 DEF KeptInOrder
  <2>8. /\ g \in hLinks' <=> g \in hLinks
        /\ g \in hPeers' <=> g \in hPeers
        /\ g \in notice' <=> g \in notice
        /\ g \in hello' <=> g \in hello
    BY <1>1, <1>11 DEF hostVars
  <2>9. WordIsTrue(g)
    BY DEF WordInv
  <2>10. WordIsTrue(g)'
    <3>1. CASE s.authed
      BY <1>2, <1>6, <1>9, <1>10, <1>11, <2>1, <2>4, <2>6, <2>8, <2>9, <3>1 DEF WordIsTrue
    <3>2. CASE ~s.authed
      BY <1>2, <1>6, <1>9, <1>10, <1>11, <2>1, <2>4, <2>5, <2>8, <2>9, <3>2 DEF WordIsTrue
    <3> QED BY <3>1, <3>2
  <2> QED BY <2>7, <2>10
<1>12. WordInv'
  <2>1. ASSUME r.live PROVE \A h \in Peers \ {g} : rosters'[h] = rosters[h]
    BY <1>1, <2>1 DEF MeshInv, MessagesOK
  <2> QED BY <1>1, <1>11, <2>1, HeardByOne
<1>13. g \in hPeers => r.live
  BY <1>2, <1>6, <1>8, <1>10 DEF WordInv, WordIsTrue
<1>14. ASSUME NEW y \in Peers, IsListed(g, y) PROVE r.live /\ y \notin r.cut
  <2>1. g \in m.ids /\ y \in m.ids
    BY <1>10, <1>14 DEF IsListed
  <2>2. y \notin s.cut /\ y \notin s.pending
    BY <1>14, ListedIs
  <2> QED BY <1>6, <1>8, <2>1, <2>2
<1> QED BY <1>1, <1>9, <1>12, <1>13, <1>14, GuestStays

----------------------------------------------------------------------------
(* The host's roster reaches the targets that have a wire.                  *)
LEMMA AnnounceIs ==
  ASSUME MeshInv, NEW targets, Announce(targets), guest' = guest, NEW h \in Peers
  PROVE  /\ h \in targets /\ Wire(Host, h) \in up
              => Unread(h)' = Unread(h) \union {hAdmitted'}
         /\ ~(h \in targets /\ Wire(Host, h) \in up) => rosters'[h] = rosters[h]
<1> DEFINE old == rosters[h]
           new == rosters'[h]
<1>1. old \in Seq(SUBSET Peers)
  BY DEF MeshInv, MessagesOK
<1>2. new = IF h \in targets /\ Wire(Host, h) \in up THEN Append(old, hAdmitted') ELSE old
  BY DEF Announce
<1>3. ASSUME h \in targets, Wire(Host, h) \in up
      PROVE  {new[i] : i \in DOMAIN new} = {old[i] : i \in DOMAIN old} \union {hAdmitted'}
  <2>1. DOMAIN old = 1..Len(old) /\ Len(old) \in Nat
    BY <1>1
  <2>2. /\ DOMAIN new = 1..Len(old) + 1
        /\ \A i \in 1..Len(old) : new[i] = old[i]
        /\ new[Len(old) + 1] = hAdmitted'
    BY <1>1, <1>2, <1>3
  <2> HIDE DEF old, new
  <2> QED BY <2>1, <2>2
<1> QED BY <1>2, <1>3 DEF Unread

(* A roster that lists the mesh is true for every guest of it, and nobody   *)
(* else hears of it.                                                        *)
LEMMA AnnounceTells ==
  ASSUME MeshInv, WordInv, NEW targets, Announce(targets), guest' = guest, up' = up,
         hello' = hello, notice' = notice, NEW h \in Peers,
         hPeers' \subseteq hAdmitted',
         Wire(Host, h) \in up => /\ h \in hLinks' <=> h \in hLinks
                                 /\ h \in hPeers' <=> h \in hPeers
                                 /\ h \in targets => h \in hPeers
  PROVE  KeptInOrder(h)' /\ WordIsTrue(h)'
<1>0. KeptInOrder(h) /\ WordIsTrue(h) /\ hPeers \subseteq hLinks
  BY DEF WordInv, MeshInv, HostInv, HostTypeOK
<1>1. CASE h \in targets /\ Wire(Host, h) \in up
  <2>1. Unread(h)' = Unread(h) \union {hAdmitted'}
    BY <1>1, AnnounceIs
  <2>2. h \in hAdmitted' /\ h \in hPeers /\ h \in hLinks
    BY <1>0, <1>1
  <2> QED BY <1>0, <1>1, <2>1, <2>2 DEF KeptInOrder, WordIsTrue
<1>2. CASE ~(h \in targets /\ Wire(Host, h) \in up)
  <2>1. rosters'[h] = rosters[h]
    BY <1>2, AnnounceIs
  <2> QED BY <1>0, <1>2, <2>1, WordOfOthers
<1> QED BY <1>1, <1>2

(* The host does nothing to the guests and to the wires between them.       *)
LEMMA HostStays ==
  ASSUME MeshInv, guest' = guest, NEW g \in Peers,
         \A w \in up \ up' : Host \in w
  PROVE  GoesOn(g) /\ KeepsListed(g)
<1>1. GoesOn(g)
  <2>1. guest[g].live => guest[g].ended = "no"
    BY GuestIs DEF GP!Sound, GP!Transports
  <2> QED BY <2>1 DEF GoesOn, Ended
<1>2. KeepsListed(g)
  BY Finite DEF KeepsListed, IsListed, Wire
<1> QED BY <1>1, <1>2

(* The steps of the host. Only a guest turned away hears it is not listed.  *)
LEMMA HostSeesJoinTells ==
  ASSUME MeshInv, WordInv, NEW g \in Peers, HostSeesJoin(g)
  PROVE  WordInv' /\ \A h \in Peers : GoesOn(h) /\ KeepsListed(h)
<1>1. /\ Wire(Host, g) \in up /\ guest' = guest /\ up' = up /\ drops' = drops
      /\ hello' = hello \union {g}
      /\ \/ HostAdmit(g) /\ Announce(hCapable \union {g}) /\ notice' = notice
         \/ HostReject(g) /\ Announce({g}) /\ notice' = notice \union {g}
  BY DEF HostSeesJoin
<1>2. /\ hPeers \subseteq hLinks /\ hCapable \subseteq hPeers
      /\ hAdmitted = hPeers \union hReserved
  BY DEF MeshInv, HostInv, HostTypeOK, RosterAccounted, CapableArePresent
<1>3. g \notin hLinks /\ g \notin hPeers
  BY <1>1 DEF HostAdmit, HostReject
<1>4. Unread(g) = {} /\ g \notin hello /\ g \notin notice /\ ~guest[g].full
  BY <1>1, <1>3 DEF WordInv, WordIsTrue
<1>5. ASSUME NEW h \in Peers \ {g} PROVE KeptInOrder(h)' /\ WordIsTrue(h)'
  <2>1. PICK targets : Announce(targets) /\ (h \in targets => h \in hPeers)
    BY <1>1, <1>2
  <2>2. hPeers' \subseteq hAdmitted' /\ (h \in hPeers' <=> h \in hPeers)
        /\ (h \in hLinks' <=> h \in hLinks)
    BY <1>1, <1>2 DEF HostAdmit, HostReject
  <2>3. /\ h \in hello' <=> h \in hello
        /\ h \in notice' <=> h \in notice
    BY <1>1
  <2>4. KeptInOrder(h) /\ WordIsTrue(h)
    BY DEF WordInv
  <2>5. CASE h \in targets /\ Wire(Host, h) \in up
    <3>1. Unread(h)' = Unread(h) \union {hAdmitted'}
      BY <1>1, <2>1, <2>5, AnnounceIs
    <3>2. h \in hAdmitted' /\ h \in hPeers /\ h \in hLinks
      BY <1>2, <2>1, <2>2, <2>5
    <3> QED BY <1>1, <2>2, <2>3, <2>4, <3>1, <3>2 DEF KeptInOrder, WordIsTrue
  <2>6. CASE ~(h \in targets /\ Wire(Host, h) \in up)
    <3>1. rosters'[h] = rosters[h]
      BY <1>1, <2>1, <2>6, AnnounceIs
    <3> QED BY <1>1, <2>2, <2>3, <2>4, <3>1, WordOfOthers
  <2> QED BY <2>5, <2>6
<1>6. KeptInOrder(g)'
  BY <1>1 DEF KeptInOrder, WordInv
<1>7. Unread(g)' = {hAdmitted'}
  <2>1. PICK targets : Announce(targets) /\ g \in targets
    BY <1>1
  <2> QED BY <1>1, <1>4, <2>1, AnnounceIs
<1>8. WordIsTrue(g)'
  <2>1. CASE HostAdmit(g) /\ notice' = notice
    <3>1. g \in hLinks' /\ g \in hPeers' /\ g \in hAdmitted'
      BY <1>3, <2>1 DEF HostAdmit
    <3> QED BY <1>1, <1>4, <1>7, <2>1, <3>1 DEF WordIsTrue
  <2>2. CASE HostReject(g)
    <3>1. g \in hLinks' /\ g \notin hPeers' /\ hAdmitted' = hAdmitted /\ ~Admissible(g)
      BY <1>3, <2>2 DEF HostReject
    <3>2. g \notin hReserved
      BY <3>1, HeldIsReachable DEF MeshInv, HeldPlacesReachable
    <3>3. g \notin hAdmitted'
      BY <1>2, <1>3, <3>1, <3>2
    <3> QED BY <1>1, <1>7, <3>1, <3>3 DEF WordIsTrue
  <2> QED BY <1>1, <2>1, <2>2
<1>9. WordInv'
  BY <1>1, <1>5, <1>6, <1>8 DEF WordInv
<1> QED BY <1>1, <1>9, HostStays

(* A guest that left has no wire left to be told over.                      *)
LEMMA HostSeesLeaveTells ==
  ASSUME MeshInv, WordInv, NEW g \in Peers, HostSeesLeave(g)
  PROVE  WordInv' /\ \A h \in Peers : GoesOn(h) /\ KeepsListed(h)
<1>1. /\ Wire(Host, g) \notin up /\ guest' = guest /\ up' = up /\ drops' = drops
      /\ hello' = hello /\ notice' = notice /\ HostPeerLeave(g)
      /\ rosters' = rosters \/ (g \in hPeers /\ Announce(hCapable'))
  BY DEF HostSeesLeave
<1>2. /\ hPeers \subseteq hLinks /\ hCapable \subseteq hPeers
      /\ hAdmitted = hPeers \union hReserved /\ hPeers \intersect hReserved = {}
  BY DEF MeshInv, HostInv, HostTypeOK, RosterAccounted, CapableArePresent
<1>3. ASSUME NEW h \in Peers PROVE KeptInOrder(h)' /\ WordIsTrue(h)'
  <2>1. Wire(Host, h) \in up => h # g
    BY <1>1
  <2>2. h # g => (h \in hPeers' <=> h \in hPeers) /\ (h \in hLinks' <=> h \in hLinks)
    BY <1>1 DEF HostPeerLeave
  <2>3. CASE rosters' = rosters
    BY <1>1, <2>1, <2>2, <2>3, WordOfOthers DEF WordInv
  <2>4. CASE g \in hPeers /\ Announce(hCapable')
    <3>1. hCapable' \subseteq hPeers /\ hPeers' \subseteq hAdmitted'
      BY <1>1, <1>2, <2>4 DEF HostPeerLeave
    <3> QED BY <1>1, <2>1, <2>2, <2>4, <3>1, AnnounceTells
  <2> QED BY <1>1, <2>3, <2>4
<1>4. WordInv'
  BY <1>1, <1>3 DEF WordInv
<1> QED BY <1>1, <1>4, HostStays

(* The flushed rejection says nothing, and may only break the wire.         *)
LEMMA HostClosesTells ==
  ASSUME MeshInv, WordInv, NEW g \in Peers, HostCloses(g)
  PROVE  WordInv' /\ \A h \in Peers : GoesOn(h) /\ KeepsListed(h)
<1>1. /\ guest' = guest /\ drops' = drops /\ hLinks' = hLinks /\ hPeers' = hPeers
      /\ UNCHANGED wireVars \/ Break({Wire(Host, g)} \intersect up)
  BY DEF HostCloses, HostFlushed
<1>2. \A w \in up \ up' : Host \in w
  BY <1>1 DEF wireVars, Break, Wire
<1>3. ASSUME NEW h \in Peers PROVE KeptInOrder(h)' /\ WordIsTrue(h)'
  <2>1. Wire(Host, h) \in up' =>
          /\ Wire(Host, h) \in up /\ rosters'[h] = rosters[h]
          /\ h \in hello' <=> h \in hello
          /\ h \in notice' <=> h \in notice
    BY <1>1, BreakLeaves DEF wireVars
  <2> QED BY <1>1, <2>1, WordOfOthers DEF WordInv
<1>4. WordInv'
  BY <1>1, <1>3 DEF WordInv
<1> QED BY <1>1, <1>2, <1>4, HostStays

(* The catch-up roster goes to a guest of the mesh.                         *)
LEMMA HostSeesAckTells ==
  ASSUME MeshInv, WordInv, NEW g \in Peers, HostSeesAck(g)
  PROVE  WordInv' /\ \A h \in Peers : GoesOn(h) /\ KeepsListed(h)
<1>1. /\ guest' = guest /\ up' = up /\ drops' = drops /\ hello' = hello /\ notice' = notice
      /\ HostAck(g) \/ (g \in hLinks \ hAdmitted /\ UNCHANGED hostVars)
      /\ IF g \in hAdmitted \ hCapable THEN Announce({g}) ELSE rosters' = rosters
  BY DEF HostSeesAck
<1>2. /\ hLinks' = hLinks /\ hPeers' = hPeers /\ hAdmitted' = hAdmitted
      /\ g \in hLinks
  BY <1>1 DEF HostAck, hostVars
<1>3. hAdmitted = hPeers \union hReserved /\ hReserved \intersect hLinks = {}
  BY DEF MeshInv, HostInv, HostTypeOK, RosterAccounted
<1>4. ASSUME NEW h \in Peers PROVE KeptInOrder(h)' /\ WordIsTrue(h)'
  <2>1. CASE g \in hAdmitted \ hCapable
    <3>1. g \in hPeers /\ Announce({g})
      BY <1>1, <1>2, <1>3, <2>1
    <3> QED BY <1>1, <1>2, <1>3, <3>1, AnnounceTells
  <2>2. CASE g \notin hAdmitted \ hCapable
    BY <1>1, <1>2, <2>2, WordOfOthers DEF WordInv
  <2> QED BY <2>1, <2>2
<1>5. WordInv'
  BY <1>1, <1>4 DEF WordInv
<1> QED BY <1>1, <1>5, HostStays

(* The roster without the held places still lists the mesh.                 *)
LEMMA HostExpiresTells ==
  ASSUME MeshInv, WordInv, HostExpires
  PROVE  WordInv' /\ \A h \in Peers : GoesOn(h) /\ KeepsListed(h)
<1>1. /\ guest' = guest /\ up' = up /\ drops' = drops /\ hello' = hello /\ notice' = notice
      /\ Announce(hCapable)
      /\ hLinks' = hLinks /\ hPeers' = hPeers /\ hAdmitted' = hAdmitted \ hReserved
  BY DEF HostExpires, HostReservationExpires
<1>2. /\ hAdmitted = hPeers \union hReserved /\ hPeers \intersect hReserved = {}
      /\ hCapable \subseteq hPeers
  BY DEF MeshInv, HostInv, RosterAccounted, CapableArePresent
<1>3. ASSUME NEW h \in Peers PROVE KeptInOrder(h)' /\ WordIsTrue(h)'
  <2>1. hPeers' \subseteq hAdmitted' /\ (h \in hCapable => h \in hPeers)
    BY <1>1, <1>2
  <2> QED BY <1>1, <2>1, AnnounceTells
<1>4. WordInv'
  BY <1>1, <1>3 DEF WordInv
<1> QED BY <1>1, <1>4, HostStays

(* A host that leaves breaks all its wires.                                 *)
LEMMA HostLeavesTells ==
  ASSUME MeshInv, WordInv, HostLeaves
  PROVE  WordInv' /\ \A h \in Peers : GoesOn(h) /\ KeepsListed(h)
<1>1. guest' = guest /\ drops' = drops /\ Break(Wires(Host))
  BY DEF HostLeaves
<1>2. (\A w \in up \ up' : Host \in w) /\ (\A w \in up' : Host \notin w)
  BY <1>1 DEF Break, Wires
<1>3. ASSUME NEW h \in Peers PROVE KeptInOrder(h)' /\ WordIsTrue(h)'
  <2>1. Wire(Host, h) \notin up'
    BY <1>2 DEF Wire
  <2> QED BY <1>1, <2>1, WordOfOthers DEF WordInv
<1>4. WordInv'
  BY <1>1, <1>3 DEF WordInv
<1> QED BY <1>1, <1>2, <1>4, HostStays

(* Nothing that the word to the guests is about has changed.                *)
LEMMA NobodyTells ==
  ASSUME MeshInv, WordInv, guest' = guest, UNCHANGED wireVars, drops' = drops,
         hLinks' = hLinks, hPeers' = hPeers
  PROVE  WordInv' /\ \A h \in Peers : GoesOn(h) /\ KeepsListed(h)
<1>1. up' = up /\ rosters' = rosters /\ hello' = hello /\ notice' = notice
  BY DEF wireVars
<1>2. ASSUME NEW h \in Peers PROVE KeptInOrder(h)' /\ WordIsTrue(h)'
  BY <1>1, WordOfOthers DEF WordInv
<1>3. WordInv'
  BY <1>2 DEF WordInv
<1> QED BY <1>1, <1>3, HostStays

(* A wire that comes up carries nothing yet, and its ends keep nothing of   *)
(* an earlier one.                                                          *)
LEMMA ConnectTells ==
  ASSUME MeshInv, WordInv, NEW w \in Reachable, Connect(w)
  PROVE  WordInv' /\ \A h \in Peers : GoesOn(h) /\ KeepsListed(h)
<1>1. /\ up' = up \union {w} /\ w \notin up /\ guest' = guest /\ drops' = drops
      /\ hello' = hello /\ rosters' = rosters /\ notice' = notice
      /\ hLinks' = hLinks /\ hPeers' = hPeers
      /\ \A x \in w : Present(x) /\ \A y \in w \ {x} : ~Active(x, y)
  BY DEF Connect, hostVars
<1>2. ASSUME NEW h \in Peers PROVE KeptInOrder(h)' /\ WordIsTrue(h)'
  <2>1. CASE w # Wire(Host, h)
    <3>1. Wire(Host, h) \in up' => Wire(Host, h) \in up
      BY <1>1, <2>1
    <3> QED BY <1>1, <3>1, WordOfOthers DEF WordInv
  <2>2. CASE w = Wire(Host, h)
    <3>1. h # Host /\ Host \in w /\ h \in w
      BY <2>2, Finite DEF Wire
    <3>2. guest[h].live /\ h \notin hLinks /\ Host \notin guest[h].links
      BY <1>1, <3>1 DEF Present, Active
    <3>3. h \notin hello /\ h \notin notice /\ rosters[h] = <<>>
      BY <1>1, <2>2 DEF MeshInv, MessagesOK
    <3>4. KeptInOrder(h) /\ guest[h].early = G!NoMessage /\ ~guest[h].full
      BY <3>2 DEF WordInv, KeptInOrder
    <3>5. Unread(h) = {} /\ Unread(h)' = Unread(h)
      BY <1>1, <3>3, <3>4 DEF Unread
    <3>6. h \notin hPeers
      BY <3>2 DEF MeshInv, HostInv, HostTypeOK
    <3>7. KeptInOrder(h)'
      BY <1>1, <3>4 DEF KeptInOrder
    <3>8. WordIsTrue(h)'
      BY <1>1, <3>2, <3>3, <3>4, <3>5, <3>6 DEF WordIsTrue
    <3> QED BY <3>7, <3>8
  <2> QED BY <2>1, <2>2
<1>3. WordInv'
  BY <1>1, <1>2 DEF WordInv
<1> QED BY <1>1, <1>3, HostStays

(* A wire that breaks by itself is counted among the drops.                 *)
LEMMA WireDropsTells ==
  ASSUME MeshInv, WordInv, NEW w \in up, WireDrops(w)
  PROVE  WordInv' /\ \A h \in Peers : GoesOn(h) /\ KeepsListed(h)
<1>1. Break({w}) /\ guest' = guest /\ drops' = drops + 1
      /\ hLinks' = hLinks /\ hPeers' = hPeers
  BY DEF WireDrops, hostVars
<1>2. drops \in Nat /\ drops' \in Nat /\ drops' # drops
  BY <1>1 DEF WordInv
<1>3. ASSUME NEW h \in Peers PROVE KeptInOrder(h)' /\ WordIsTrue(h)'
  <2>1. Wire(Host, h) \in up' =>
          /\ Wire(Host, h) \in up /\ rosters'[h] = rosters[h]
          /\ h \in hello' <=> h \in hello
          /\ h \in notice' <=> h \in notice
    BY <1>1, BreakLeaves
  <2> QED BY <1>1, <2>1, WordOfOthers DEF WordInv
<1>4. WordInv'
  BY <1>2, <1>3 DEF WordInv
<1>5. ASSUME NEW h \in Peers PROVE GoesOn(h) /\ KeepsListed(h)
  <2>1. guest[h].live => guest[h].ended = "no"
    BY GuestIs DEF GP!Sound, GP!Transports
  <2> QED BY <1>1, <1>2, <2>1 DEF GoesOn, Ended, KeepsListed
<1> QED BY <1>4, <1>5

----------------------------------------------------------------------------
(* An edge is kept when one of its ends keeps what is listed.               *)
EdgeStays(x, y) ==
  /\ MeshEdge(x, y) /\ ListedForBoth(x, y) /\ Wire(x, y) \in up
  /\ drops' = drops
  => Wire(x, y) \in up'

StaysFormed ==
  /\ \A g \in Peers : GoesOn(g)
  /\ \A x, y \in Peers : EdgeStays(x, y)

(* What is listed for both is listed for each of the two ends.              *)
LEMMA ListedFromBoth ==
  ASSUME NEW x \in Peers, NEW y \in Peers, Wire(x, y) \in up,
         MeshEdge(x, y), ListedForBoth(x, y)
  PROVE  IsListed(x, y) /\ IsListed(y, x) /\ Wire(y, x) = Wire(x, y)
<1>1. \A g \in {x, y} : RostersKnownTo(g) = {guest[g].roster} \union Unread(g)
  BY DEF RostersKnownTo, Unread
<1>2. Wire(y, x) = Wire(x, y)
  BY DEF Wire
<1> QED BY <1>1, <1>2 DEF IsListed, MeshEdge, ListedForBoth

(* If everybody keeps what is listed, all edges stay.                       *)
LEMMA AllStay ==
  ASSUME \A h \in Peers : GoesOn(h) /\ KeepsListed(h)
  PROVE  StaysFormed
BY ListedFromBoth DEF StaysFormed, EdgeStays, KeepsListed

(* A step of g touches neither another guest nor a wire between others.     *)
LEMMA GuestTouches ==
  ASSUME MeshInv, NEW g \in Peers,
         \/ \E p \in G!Ids : \/ GuestSeesJoin(g, p) \/ GuestSeesLeave(g, p)
                             \/ GuestTimesOut(g, p)
         \/ GuestSeesHello(g) \/ GuestSeesRoster(g) \/ GuestSeesNotice(g)
         \/ GuestFallsBack(g) \/ GuestQuits(g),
         GoesOn(g), KeepsListed(g)
  PROVE  StaysFormed
<1>1. \A w \in Wires(g) : g \in w
  BY DEF Wires
<1>2. \A p : g \in Wire(g, p)
  BY DEF Wire
<1>3. \A r : Becomes(g, r) => /\ \A h \in Peers \ {g} : guest'[h] = guest[h]
                              /\ \A w \in up \ up' : g \in w
  <2> SUFFICES ASSUME NEW r, Becomes(g, r)
               PROVE  /\ \A h \in Peers \ {g} : guest'[h] = guest[h]
                      /\ \A w \in up \ up' : g \in w
    OBVIOUS
  <2>1. guest' = [guest EXCEPT ![g] = After(r)]
    BY DEF Becomes
  <2>2. PICK gone : Break(gone) /\ \A w \in gone : g \in w
    <3>1. CASE r.live
      BY <1>2, <3>1 DEF Becomes
    <3>2. CASE ~r.live
      BY <1>1, <3>2 DEF Becomes
    <3> QED BY <3>1, <3>2
  <2>3. \A w \in up \ up' : g \in w
    BY <2>2 DEF Break
  <2> QED BY <2>1, <2>3, AfterIs
<1>4. /\ \A h \in Peers \ {g} : guest'[h] = guest[h]
      /\ \A w \in up \ up' : g \in w
  <2>1. CASE \E r : Becomes(g, r)
    BY <1>3, <2>1
  <2>2. CASE GuestSeesHello(g) \/ GuestSeesRoster(g) \/ GuestSeesNotice(g)
    <3>1. \E r : guest' = [guest EXCEPT ![g] = After(r)]
      BY <2>2 DEF GuestSeesHello, GuestSeesRoster, GuestSeesNotice
    <3>2. \A w \in up \ up' : g \in w
      <4>1. CASE GuestSeesHello(g)
        BY <1>1, <1>2, <4>1 DEF GuestSeesHello, Break
      <4>2. CASE GuestSeesRoster(g)
        BY <1>1, <1>2, <4>2 DEF GuestSeesRoster, Break
      <4>3. CASE GuestSeesNotice(g)
        BY <1>1, <4>3 DEF GuestSeesNotice, Break
      <4> QED BY <2>2, <4>1, <4>2, <4>3
    <3> QED BY <3>1, <3>2, AfterIs
  <2> QED
    BY <2>1, <2>2 DEF GuestSeesJoin, GuestSeesLeave, GuestTimesOut, GuestFallsBack, GuestQuits
<1>5. ASSUME NEW h \in Peers PROVE GoesOn(h)
  <2>1. guest[h].live => guest[h].ended = "no"
    BY GuestIs DEF GP!Sound, GP!Transports
  <2> QED BY <1>4, <2>1 DEF GoesOn, Ended
<1>6. ASSUME NEW x \in Peers, NEW y \in Peers PROVE EdgeStays(x, y)
  <2> SUFFICES ASSUME MeshEdge(x, y), ListedForBoth(x, y), Wire(x, y) \in up,
                      drops' = drops, Wire(x, y) \notin up'
               PROVE  FALSE
    BY DEF EdgeStays
  <2>1. g = x \/ g = y
    BY <1>4 DEF Wire
  <2> QED BY <2>1, ListedFromBoth DEF KeepsListed
<1> QED BY <1>5, <1>6 DEF StaysFormed

(* Every step keeps what is said true, and what is formed.                  *)
LEMMA WordStep ==
  ASSUME MeshInv, WordInv, [MeshNext]_meshVars
  PROVE  WordInv' /\ StaysFormed
<1>1. CASE UNCHANGED meshVars
  BY <1>1, NobodyTells, AllStay DEF meshVars, hostVars
<1>2. CASE \E w \in Reachable : Connect(w)
  BY <1>2, ConnectTells, AllStay
<1>3. CASE \E w \in up : WireDrops(w)
  BY <1>3, WireDropsTells, AllStay
<1>4. ASSUME NEW g \in Peers,
             HostSeesJoin(g) \/ HostSeesLeave(g) \/ HostCloses(g) \/ HostSeesAck(g)
      PROVE  WordInv' /\ StaysFormed
  BY <1>4, HostSeesJoinTells, HostSeesLeaveTells, HostClosesTells, HostSeesAckTells, AllStay
<1>5. ASSUME NEW g \in Peers,
             \/ \E p \in G!Ids : \/ GuestSeesJoin(g, p) \/ GuestSeesLeave(g, p)
                                 \/ GuestTimesOut(g, p)
             \/ GuestSeesHello(g) \/ GuestSeesRoster(g) \/ GuestSeesNotice(g)
             \/ GuestFallsBack(g) \/ GuestQuits(g)
      PROVE  WordInv' /\ StaysFormed
  <2>1. WordInv' /\ GoesOn(g) /\ KeepsListed(g)
    BY <1>5, GuestSeesJoinTells, GuestSeesLeaveTells, GuestTimesOutTells,
       GuestSeesHelloTells, GuestSeesRosterTells, GuestSeesNoticeTells,
       GuestFallsBackTells, GuestQuitsTells
  <2> QED BY <1>5, <2>1, GuestTouches
<1>6. CASE HostExpires
  BY <1>6, HostExpiresTells, AllStay
<1>7. CASE HostLeaves
  BY <1>7, HostLeavesTells, AllStay
<1>8. CASE HostReturns
  BY <1>8, NobodyTells, AllStay DEF HostReturns, HostRejoin
<1>9. CASE HostIsGone
  BY <1>9, NobodyTells, AllStay DEF HostIsGone, HostGone
<1> QED
  BY <1>1, <1>2, <1>3, <1>4, <1>5, <1>6, <1>7, <1>8, <1>9 DEF MeshNext

(* Nothing has been said when the observation starts.                       *)
LEMMA InitialWord == MeshInit => WordInv
<1> SUFFICES ASSUME MeshInit PROVE WordInv
  OBVIOUS
<1>1. \A g \in Peers : guest[g] = IF g \in Settled THEN SettledGuest(g)
                                                   ELSE G!FreshGuest(g)
  BY DEF MeshInit
<1>2. \A g \in Peers : LET f == G!FreshGuest(g)
                       IN  f.early = G!NoMessage /\ ~f.full /\ f.rev = G!NoRev
  BY DEF G!FreshGuest
<1>3. ASSUME NEW g \in Peers
      PROVE  LET s == SettledGuest(g)
             IN  /\ s.early = G!NoMessage /\ ~s.full /\ s.rev = 0 /\ s.known /\ s.authed
  BY DEF SettledGuest, G!FreshGuest
<1>4. ASSUME NEW g \in Peers PROVE KeptInOrder(g)
  BY <1>1, <1>2, <1>3 DEF KeptInOrder
<1>5. ASSUME NEW g \in Peers PROVE WordIsTrue(g)
  <2> SUFFICES ASSUME Wire(Host, g) \in up PROVE WordIsTrue(g)
    BY DEF WordIsTrue
  <2>1. g \in Settled
    <3>1. PICK x, y \in Settled \union {Host} : Wire(Host, g) = Wire(x, y)
      BY DEF MeshInit, Wire
    <3> QED BY <3>1, WireEnds, Finite
  <2>2. guest[g].early = G!NoMessage /\ ~guest[g].full /\ guest[g].known /\ guest[g].authed
    BY <1>1, <1>3, <2>1
  <2>3. rosters[g] = <<>> /\ g \notin hello /\ g \notin notice /\ hLinks = hPeers
    BY DEF MeshInit
  <2>4. Unread(g) = {}
    BY <2>2, <2>3 DEF Unread
  <2> QED BY <2>2, <2>3, <2>4 DEF WordIsTrue
<1>6. drops \in Nat
  BY DEF MeshInit
<1> QED BY <1>4, <1>5, <1>6 DEF WordInv

(* What is said between the host and its guests is true in every state.     *)
LEMMA WordInvariant == MeshSpec => [](MeshInv /\ WordInv)
<1>1. MeshInit => MeshInv /\ WordInv
  BY InitialMesh, InitialWord
<1>2. MeshInv /\ WordInv /\ [MeshNext]_meshVars => (MeshInv /\ WordInv)'
  BY MeshStep, WordStep
<1> QED BY <1>1, <1>2, PTL DEF MeshSpec

(* What was formed stays. While the host has a guest in its mesh and their  *)
(* wire is up, no roster, notice, hello, callback or timer turns the guest  *)
(* away but the legacy timer of one that has no roster yet, and two guests  *)
(* that every roster they know of lists keep the transport between them,    *)
(* whatever the host, newcomers and other wires do (lifecycle.ts, both      *)
(* branches of wireSessionRoom).                                            *)
THEOREM EdgesAlwaysStay == MeshSpec => EdgesStay
<1>1. MeshInv /\ WordInv /\ [MeshNext]_meshVars
        => [\A g \in Peers :
              /\ g \in hPeers /\ g \in hPeers' /\ Wire(Host, g) \in up
              /\ guest[g].live /\ ~TakenForLegacy(g)
              => ~Ended(g)']_meshVars
  BY WordStep DEF StaysFormed, GoesOn
<1>2. MeshInv /\ WordInv /\ [MeshNext]_meshVars
        => [\A x, y \in Peers :
              /\ MeshEdge(x, y) /\ ListedForBoth(x, y) /\ Wire(x, y) \in up
              /\ drops' = drops
              => Wire(x, y) \in up']_meshVars
  BY WordStep DEF StaysFormed, EdgeStays
<1> QED
  BY <1>1, <1>2, WordInvariant, PTL DEF MeshSpec, EdgesStay, AdmittedStays, ListedEdgesStay
=============================================================================
