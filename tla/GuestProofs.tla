---------------------------- MODULE GuestProofs -----------------------------
(***************************************************************************)
(* Proofs about GuestAdmission: one guest and whatever its host, the other *)
(* guests and the network do, for every set of guests and every cap.       *)
(*                                                                         *)
(* MeshIsTheRoster is inductive only with what the handlers keep (Sound)   *)
(* and with what is under way: it belongs to the host's present lifecycle, *)
(* so that a revision is never ahead of the host nor outlives it, and      *)
(* every roster fits.                                                      *)
(***************************************************************************)
EXTENDS GuestAdmission, GuestHandlerProofs

(* The guest keeps what its handlers keep.                                  *)
GuestOK == guest.live => Sound(guest)

(* The wire: what is under way belongs to the host's present lifecycle.     *)
WireOK ==
  /\ \A m \in flying : m.rev < nextRev /\ Fits(m.ids)
  /\ flying # {} \/ hello => hostUp
  /\ guest.live /\ hostUp =>
       /\ Host \notin guest.cut
       /\ guest.rev < nextRev
       /\ guest.early.rev < nextRev
  /\ guest.live /\ ~hostUp /\ Host \notin guest.links =>
       guest.rev = NoRev /\ guest.early = NoMessage

(* The roster a rejoin starts from fits, and names the guest.               *)
FrozenOK == Fits(frozen) /\ (frozen # {} => Self \in frozen)

(* The types of the variables.                                              *)
Typed ==
  /\ guest \in GuestStates /\ guest.self = Self /\ frozen \in SUBSET Guests
  /\ hostUp \in BOOLEAN /\ nextRev \in Nat /\ hello \in BOOLEAN
  /\ flying \in SUBSET [rev : Nat, ids : SUBSET Guests]

(* The inductive invariant.                                                 *)
GuestInv == Typed /\ GuestOK /\ WireOK /\ FrozenOK

----------------------------------------------------------------------------
(* The steps.                                                               *)

(* The first state.                                                         *)
LEMMA InitialGuest == Init => GuestInv
<1> SUFFICES ASSUME Init PROVE GuestInv
  OBVIOUS
<1>1. Self \in Ids /\ Self \notin {}
  BY SelfAssumption DEF Ids
<1>2. NoMessage \in Messages /\ NoMessage.rev = NoRev /\ Fits(NoMessage.ids) /\ Fits({})
  BY NoMessageTyped DEF NoMessage
<1>3. Typed
  BY <1>2, SelfAssumption DEF Typed, Init, FreshGuest, GuestStates
<1>4. GuestOK
  BY <1>2 DEF GuestOK, Init, FreshGuest, Sound, Transports, Listed, Door, Announced
<1>5. WireOK
  BY <1>2 DEF WireOK, Init, FreshGuest, NoRev
<1>6. FrozenOK
  BY <1>2 DEF FrozenOK, Init
<1> QED BY <1>3, <1>4, <1>5, <1>6 DEF GuestInv

(* A handler of the guest that leaves the revisions alone, or drops them    *)
(* with the transport of the host.                                          *)
LEMMA BecomesKeeps ==
  ASSUME GuestInv, guest.live, NEW r, Reacts(guest, r), Becomes(r),
         r.live => /\ r.rev \in {guest.rev, NoRev}
                   /\ r.early \in {guest.early, NoMessage}
                   /\ Host \in guest.links /\ Host \notin r.links
                        => r.rev = NoRev /\ r.early = NoMessage
  PROVE  GuestInv'
<1>1. guest' = r /\ frozen' = frozen /\ nextRev' = nextRev
  BY DEF Becomes, WireFollows, envVars
<1>2. \/ /\ Host \in r.cut
         /\ ~hostUp' /\ ~hello' /\ flying' = {} /\ hostUp' \in BOOLEAN /\ hello' \in BOOLEAN
      \/ /\ Host \notin r.cut
         /\ hostUp' = hostUp /\ hello' = hello /\ flying' = flying
  BY DEF Becomes, WireFollows, envVars
<1>3. Typed'
  BY <1>1, <1>2 DEF GuestInv, Typed, Reacts
<1>4. GuestOK'
  BY <1>1 DEF GuestOK, Reacts
<1>5. FrozenOK'
  BY <1>1 DEF GuestInv, FrozenOK
<1>6. r.live /\ Host \in r.cut => Host \in r.links
  BY DEF Reacts, Sound, Transports
<1>7. nextRev \in Nat /\ NoRev = -1 /\ NoMessage.rev = NoRev
  BY NoMessageTyped DEF GuestInv, Typed, NoRev
<1>8. WireOK'
  BY <1>1, <1>2, <1>6, <1>7 DEF GuestInv, WireOK
<1> QED BY <1>3, <1>4, <1>5, <1>8 DEF GuestInv

(* A live guest is sound.                                                   *)
LEMMA LiveSound ==
  ASSUME GuestInv, guest.live
  PROVE  guest \in GuestStates /\ guest.self = Self /\ Sound(guest)
BY DEF GuestInv, Typed, GuestOK

(* The guest: transports that come up, go down or wait too long, the        *)
(* fallback and the messages.                                               *)
LEMMA JoinsKeeps ==
  ASSUME GuestInv, NEW p \in Ids, Joins(p)
  PROVE  GuestInv' /\ Reacts(guest, guest')
<1> DEFINE r == OnJoin(guest, p)
<1>1. guest.live /\ p \notin guest.links /\ p # Self /\ Becomes(r)
  BY DEF Joins
<1>2. Moves(guest, r) /\ r.live /\ r.links = guest.links \union {p}
  BY <1>1, LiveSound, JoinIs
<1> HIDE DEF r
<1>3. GuestInv'
  BY <1>1, <1>2, BecomesKeeps DEF Moves
<1> QED BY <1>1, <1>2, <1>3 DEF Moves, Becomes

LEMMA LeavesKeeps ==
  ASSUME GuestInv, NEW p \in Ids, Leaves(p)
  PROVE  GuestInv' /\ Reacts(guest, guest')
<1> DEFINE r == OnLeave(guest, p)
<1>1. guest.live /\ p \in guest.links /\ Becomes(r)
  BY DEF Leaves
<1>2. /\ Reacts(guest, r)
      /\ r.live => /\ r.links = guest.links \ {p}
                   /\ p = Host => r.rev = NoRev /\ r.early = NoMessage
                   /\ p # Host => r.rev = guest.rev /\ r.early = guest.early
  BY <1>1, LiveSound, LeaveIs
<1> HIDE DEF r
<1>3. GuestInv'
  BY <1>1, <1>2, BecomesKeeps
<1> QED BY <1>1, <1>2, <1>3 DEF Becomes

LEMMA PendingTimesOutKeeps ==
  ASSUME GuestInv, NEW p \in Ids, PendingTimesOut(p)
  PROVE  GuestInv' /\ Reacts(guest, guest')
<1> DEFINE r == OnPendingTimeout(guest, p)
<1>1. guest.live /\ p \in guest.pending /\ Becomes(r)
  BY DEF PendingTimesOut
<1>2. Moves(guest, r) /\ r.links = guest.links
  BY <1>1, LiveSound, TimeoutIs
<1> HIDE DEF r
<1>3. GuestInv'
  BY <1>1, <1>2, BecomesKeeps DEF Moves
<1> QED BY <1>1, <1>2, <1>3 DEF Moves, Becomes

LEMMA FallbackFiresKeeps ==
  ASSUME GuestInv, FallbackFires
  PROVE  GuestInv' /\ Reacts(guest, guest')
<1> DEFINE r == OnFallback(guest)
<1>1. guest.live /\ Becomes(r)
  BY DEF FallbackFires
<1>2. Moves(guest, r) /\ r.links = guest.links
  BY <1>1, LiveSound, FallbackIs
<1> HIDE DEF r
<1>3. GuestInv'
  BY <1>1, <1>2, BecomesKeeps DEF Moves
<1> QED BY <1>1, <1>2, <1>3 DEF Moves, Becomes

LEMMA HelloArrivesKeeps ==
  ASSUME GuestInv, HelloArrives
  PROVE  GuestInv' /\ Reacts(guest, guest')
<1> DEFINE r == OnHostHello(guest)
<1>1. /\ hello /\ guest.live /\ guest' = r /\ ~hello' /\ hello' \in BOOLEAN
      /\ frozen' = frozen /\ hostUp' = hostUp /\ nextRev' = nextRev /\ flying' = flying
  BY DEF HelloArrives
<1>2. hostUp /\ Host \notin guest.cut /\ guest.rev < nextRev /\ guest.early.rev < nextRev
  BY <1>1 DEF GuestInv, WireOK
<1>3. Told(guest, guest.early, r) /\ Reacts(guest, r)
  BY <1>1, <1>2, LiveSound, HelloIs
<1> HIDE DEF r
<1>4. Typed' /\ GuestOK' /\ FrozenOK'
  BY <1>1, <1>3 DEF GuestInv, Typed, GuestOK, FrozenOK, Reacts
<1>5. nextRev \in Nat /\ NoRev = -1 /\ NoMessage.rev = NoRev
  BY NoMessageTyped DEF GuestInv, Typed, NoRev
<1>6. WireOK'
  BY <1>1, <1>2, <1>3, <1>5 DEF GuestInv, WireOK, Told
<1> QED BY <1>1, <1>3, <1>4, <1>6 DEF GuestInv

LEMMA RosterArrivesKeeps ==
  ASSUME GuestInv, NEW m \in flying, RosterArrives(m)
  PROVE  GuestInv' /\ Reacts(guest, guest')
<1> DEFINE r == OnRoster(guest, m)
<1>1. /\ guest.live /\ guest' = r /\ hello' = hello /\ flying' = flying \ {m}
      /\ frozen' = frozen /\ hostUp' = hostUp /\ nextRev' = nextRev
  BY DEF RosterArrives
<1>2. /\ hostUp /\ Host \notin guest.cut /\ guest.rev < nextRev
      /\ guest.early.rev < nextRev /\ m.rev < nextRev /\ Fits(m.ids) /\ m \in Rosters
  BY <1>1 DEF GuestInv, WireOK, Typed, Rosters
<1>3. Told(guest, m, r) /\ Reacts(guest, r)
  BY <1>1, <1>2, LiveSound, RosterIs
<1> HIDE DEF r
<1>4. Typed' /\ GuestOK' /\ FrozenOK'
  BY <1>1, <1>3 DEF GuestInv, Typed, GuestOK, FrozenOK, Reacts
<1>5. nextRev \in Nat /\ NoRev = -1 /\ NoMessage.rev = NoRev
  BY NoMessageTyped DEF GuestInv, Typed, NoRev
<1>6. WireOK'
  BY <1>1, <1>2, <1>3, <1>5 DEF GuestInv, WireOK, Told
<1> QED BY <1>1, <1>3, <1>4, <1>6 DEF GuestInv

LEMMA NoticeArrivesKeeps ==
  ASSUME GuestInv, NoticeArrives
  PROVE  GuestInv' /\ Reacts(guest, guest')
<1> DEFINE r == OnSessionFull(guest)
<1>1. /\ guest.live /\ guest' = r /\ hello' = hello /\ flying' = flying
      /\ frozen' = frozen /\ hostUp' = hostUp /\ nextRev' = nextRev
  BY DEF NoticeArrives
<1>2. /\ Reacts(guest, r)
      /\ r.live => /\ r.links = guest.links /\ r.cut = guest.cut /\ r.rev = guest.rev
                   /\ r.early = guest.early
  BY <1>1, LiveSound, NoticeIs
<1> HIDE DEF r
<1>4. Typed' /\ GuestOK' /\ FrozenOK'
  BY <1>1, <1>2 DEF GuestInv, Typed, GuestOK, FrozenOK, Reacts
<1>6. WireOK'
  BY <1>1, <1>2 DEF GuestInv, WireOK
<1> QED BY <1>1, <1>2, <1>4, <1>6 DEF GuestInv

(* A rejoin starts from a sound guest.                                      *)
LEMMA FrozenIsSound ==
  ASSUME GuestInv, guest.live, NEW T \in FrozenIds(guest)
  PROVE  T \in SUBSET Guests /\ Fits(T) /\ (T # {} => Self \in T)
<1> DEFINE ids == IF guest.known THEN guest.roster
                  ELSE {guest.self} \union (guest.peers \ {Host})
           kept == {U \in SUBSET ids : guest.self \in U /\ Cardinality(U) <= MaxRemote}
<1>1. guest.self = Self /\ ids \in SUBSET Guests
  BY SelfAssumption, LiveSound DEF GuestStates, Ids
<1>2. T = {} \/ T \in kept
  BY DEF FrozenIds
<1>3. Fits({})
  BY NoMessageTyped DEF NoMessage
<1> HIDE DEF ids
<1> QED BY <1>1, <1>2, <1>3 DEF Fits

(* The user: Leave, and Rejoin.                                             *)
LEMMA UserLeavesKeeps ==
  ASSUME GuestInv, UserLeaves
  PROVE  GuestInv'
<1> DEFINE r == [FreshGuest(Self) EXCEPT !.live = FALSE]
<1>1. /\ guest.live /\ frozen' \in FrozenIds(guest) /\ guest' = r /\ nextRev' = nextRev
      /\ hostUp' = FALSE /\ hello' = FALSE /\ flying' = {}
  BY DEF UserLeaves
<1>2. r \in GuestStates /\ r.self = Self /\ ~r.live
  BY NoMessageTyped, SelfAssumption DEF FreshGuest, GuestStates
<1> HIDE DEF r
<1>3. frozen' \in SUBSET Guests /\ Fits(frozen') /\ (frozen' # {} => Self \in frozen')
  BY <1>1, FrozenIsSound
<1>4. Typed'
  BY <1>1, <1>2, <1>3 DEF GuestInv, Typed
<1>5. GuestOK' /\ WireOK'
  BY <1>1, <1>2 DEF GuestOK, WireOK
<1>6. FrozenOK'
  BY <1>3 DEF FrozenOK, Fits
<1> QED BY <1>4, <1>5, <1>6 DEF GuestInv

LEMMA RejoinsKeeps ==
  ASSUME GuestInv, Rejoins
  PROVE  GuestInv'
<1> DEFINE f == FreshGuest(Self)
           b == RejoinedGuest(Self, frozen)
<1>1. /\ guest' = IF frozen = {} THEN f ELSE b
      /\ frozen' = {} /\ hostUp' = hostUp /\ hello' = hello /\ flying' = flying
      /\ nextRev' = nextRev
  BY DEF Rejoins, envVars
<1>2. NoMessage \in Messages /\ NoMessage.rev = NoRev /\ Fits(NoMessage.ids) /\ Fits({})
  BY NoMessageTyped DEF NoMessage
<1>3. /\ frozen \in SUBSET Guests /\ Fits(frozen) /\ (frozen # {} => Self \in frozen)
      /\ nextRev \in Nat /\ NoRev = -1
  BY DEF GuestInv, Typed, FrozenOK, NoRev
<1>4. frozen \union {Host} \in SUBSET Ids /\ SUBSET Guests \subseteq SUBSET Ids
  BY <1>3 DEF Ids
<1>5. /\ f \in GuestStates /\ f.links = {} /\ f.cut = {} /\ f.peers = {} /\ f.pending = {}
      /\ ~f.authed /\ ~f.known /\ f.rev = NoRev /\ ~f.closed /\ f.early = NoMessage
      /\ f.ended = "no" /\ f.self = Self /\ f.live
  BY <1>2, SelfAssumption DEF FreshGuest, GuestStates
<1>6. /\ b \in GuestStates /\ b.links = {} /\ b.cut = {} /\ b.peers = {} /\ b.pending = {}
      /\ ~b.authed /\ b.known /\ b.rev = NoRev /\ b.closed /\ b.early = NoMessage
      /\ b.ended = "no" /\ b.roster = frozen /\ b.back = frozen \union {Host} /\ b.bound
      /\ b.self = Self
  <2>1. b = [f EXCEPT !.bound = TRUE, !.roster = frozen, !.known = TRUE,
                      !.closed = TRUE, !.back = frozen \union {Host}]
    BY DEF RejoinedGuest
  <2> HIDE DEF f, b
  <2> QED BY <1>3, <1>4, <1>5, <2>1 DEF GuestStates
<1> HIDE DEF f, b
<1>7. Sound(f)
  BY <1>2, <1>5 DEF Sound, Transports, Listed, Door, Announced
<1>8. frozen # {} => Sound(b)
  BY <1>2, <1>3, <1>6 DEF Sound, Transports, Listed, Door, Announced
<1>9. Typed'
  BY <1>1, <1>5, <1>6 DEF GuestInv, Typed
<1>10. GuestOK'
  BY <1>1, <1>7, <1>8 DEF GuestOK
<1>11. WireOK'
  BY <1>1, <1>2, <1>3, <1>5, <1>6 DEF GuestInv, WireOK
<1>12. FrozenOK'
  BY <1>1, <1>2 DEF FrozenOK
<1> QED BY <1>9, <1>10, <1>11, <1>12 DEF GuestInv

(* The host and the wire.                                                   *)
LEMMA WireKeeps ==
  ASSUME GuestInv,
         \/ HostConnects \/ HostLinkDrops \/ HostRestarts
         \/ \E ids \in RosterIds : HostAnnounces(ids) \/ HostTurnsAway(ids)
  PROVE  GuestInv' /\ guest' = guest
<1>0. /\ guest' = guest /\ frozen' = frozen
  BY DEF HostConnects, HostLinkDrops, HostRestarts, HostAnnounces, HostTurnsAway
<1>1. FrozenOK' /\ GuestOK'
  BY <1>0 DEF GuestInv, FrozenOK, GuestOK
<1>2. nextRev \in Nat /\ NoRev = -1 /\ NoMessage.rev = NoRev
  BY NoMessageTyped DEF GuestInv, Typed, NoRev
<1>3. CASE HostConnects
  <2>1. /\ ~hostUp /\ guest.live /\ Host \notin guest.links /\ hostUp' = TRUE
        /\ hello' = TRUE /\ nextRev' = nextRev /\ flying' = flying
    BY <1>3 DEF HostConnects
  <2>2. Typed'
    BY <1>0, <2>1 DEF GuestInv, Typed
  <2>3. Host \notin guest.cut
    BY <2>1, LiveSound DEF Sound, Transports
  <2>4. guest.rev < nextRev /\ guest.early.rev < nextRev
    BY <1>2, <2>1 DEF GuestInv, WireOK
  <2>5. WireOK'
    BY <1>0, <2>1, <2>3, <2>4 DEF GuestInv, WireOK
  <2> QED BY <1>0, <1>1, <2>2, <2>5 DEF GuestInv
<1>4. CASE HostLinkDrops
  <2>1. /\ AheadOfJoin => ~guest.live
        /\ hostUp' = FALSE /\ hello' = FALSE /\ flying' = {} /\ nextRev' = nextRev
    BY <1>4 DEF HostLinkDrops
  <2>2. Typed'
    BY <1>0, <2>1 DEF GuestInv, Typed
  <2>3. guest.live /\ Host \notin guest.links => guest.rev = NoRev /\ guest.early = NoMessage
    BY <2>1, LiveSound DEF AheadOfJoin, Sound, Announced
  <2>4. WireOK'
    BY <1>0, <2>1, <2>3 DEF WireOK
  <2> QED BY <1>0, <1>1, <2>2, <2>4 DEF GuestInv
<1>5. CASE HostRestarts
  <2>1. /\ ~hostUp /\ hostUp' = hostUp /\ hello' = hello /\ flying' = flying /\ nextRev' = 0
    BY <1>5 DEF HostRestarts
  <2>2. Typed'
    BY <1>0, <2>1 DEF GuestInv, Typed
  <2>3. WireOK'
    BY <1>0, <2>1 DEF GuestInv, WireOK
  <2> QED BY <1>0, <1>1, <2>2, <2>3 DEF GuestInv
<1>6. ASSUME NEW ids \in RosterIds, HostAnnounces(ids) \/ HostTurnsAway(ids)
      PROVE  GuestInv' /\ guest' = guest
  <2> DEFINE m == [rev |-> nextRev, ids |-> ids]
  <2>1. /\ hostUp /\ hostUp' = hostUp /\ hello' = hello /\ flying' = flying \union {m}
        /\ nextRev' = nextRev + 1
    BY <1>6 DEF HostAnnounces, HostTurnsAway
  <2>2. m \in [rev : Nat, ids : SUBSET Guests] /\ m.rev = nextRev /\ Fits(m.ids)
    BY <1>2 DEF RosterIds, Fits
  <2> HIDE DEF m
  <2>3. Typed'
    BY <1>0, <2>1, <2>2 DEF GuestInv, Typed
  <2>4. \A x \in flying : x.rev \in Nat
    BY DEF GuestInv, Typed
  <2>5. guest.rev \in Nat \union {NoRev} /\ guest.early.rev \in Nat \union {NoRev}
    BY NoMessageTyped DEF GuestInv, Typed, GuestStates, Messages, Rosters
  <2>6. WireOK'
    BY <1>0, <1>2, <2>1, <2>2, <2>4, <2>5 DEF GuestInv, WireOK
  <2> QED BY <1>0, <1>1, <2>3, <2>6 DEF GuestInv
<1> QED BY <1>3, <1>4, <1>5, <1>6

(* Every step keeps the invariant.                                          *)
LEMMA GuestStep ==
  ASSUME GuestInv, [Next]_vars
  PROVE  GuestInv'
<1>1. CASE UNCHANGED vars
  BY <1>1 DEF vars, envVars, GuestInv, Typed, GuestOK, WireOK, FrozenOK
<1>2. CASE Next
  BY <1>2, WireKeeps, JoinsKeeps, LeavesKeeps, PendingTimesOutKeeps, HelloArrivesKeeps,
     RosterArrivesKeeps, NoticeArrivesKeeps, FallbackFiresKeeps, UserLeavesKeeps,
     RejoinsKeeps DEF Next
<1> QED BY <1>1, <1>2

(* The invariant holds in every state.                                      *)
LEMMA GuestAlways == Spec => []GuestInv
BY InitialGuest, GuestStep, PTL DEF Spec

(* The invariant says what is promised. The mesh fits the cap because the   *)
(* roster does and names the guest itself.                                  *)
LEMMA MeshFromInv == GuestInv => MeshIsTheRoster
<1> SUFFICES ASSUME GuestInv PROVE MeshIsTheRoster
  OBVIOUS
<1>1. MeshFollowsRoster
  BY LiveSound DEF MeshFollowsRoster, Sound, Listed
<1>2. MeshWithinCap
  <2> SUFFICES ASSUME guest.live PROVE Cardinality(guest.peers \ guest.cut) <= MaxRemote
    BY DEF MeshWithinCap
  <2>1. guest \in GuestStates /\ Sound(guest)
    BY LiveSound
  <2>2. guest.peers \in SUBSET Ids /\ Self \notin guest.peers /\ guest.roster \in SUBSET Ids
    BY <2>1, LiveSound DEF GuestStates, Sound, Transports, Ids
  <2>3. CASE ~guest.known
    <3>1. Fits(guest.peers) /\ guest.peers \ guest.cut \in SUBSET guest.peers
      BY <2>1, <2>3 DEF Sound, Listed
    <3>2. Fits(guest.peers \ guest.cut)
      BY <2>2, <3>1, FitsSmaller
    <3> QED BY <3>2 DEF Fits
  <2>4. CASE guest.known
    <3> DEFINE others == guest.roster \ {Self}
               mesh == guest.peers \ guest.cut
    <3>1. /\ mesh \subseteq others \union {Host} /\ Self \in guest.roster
          /\ Cardinality(guest.roster) <= MaxRemote
      BY <2>1, <2>2, <2>4, LiveSound DEF Sound, Listed, Fits
    <3>2. /\ IsFiniteSet(guest.roster) /\ Cardinality(guest.roster) \in Nat
          /\ IsFiniteSet(others) /\ Cardinality(others) \in Nat
      BY <2>2, IdsFinite
    <3>3. Cardinality(others) = Cardinality(guest.roster) - 1
      BY <3>1, <3>2, FS_RemoveElement
    <3>4. others \union {Host} \in SUBSET Ids
      BY <2>2 DEF Ids
    <3> HIDE DEF mesh, others
    <3>5. ~(Cardinality(others) >= MaxRemote)
      BY <3>1, <3>2, <3>3, GuestRemoteAssumption
    <3>6. Fits(others \union {Host})
      BY <3>4, <3>5, FitsOneMore DEF Ids
    <3>7. Fits(mesh)
      BY <3>1, <3>4, <3>6, FitsSmaller
    <3> QED BY <3>7 DEF Fits, mesh
  <2> QED BY <2>3, <2>4
<1>3. RevisionIsCurrent
  BY DEF GuestInv, WireOK, RevisionIsCurrent
<1> QED BY <1>1, <1>2, <1>3 DEF MeshIsTheRoster

(* The mesh of a guest is never more than the roster of its host, nor than  *)
(* the cap while it has none, and the revision it goes by is that of its    *)
(* host: for every cap and set of guests, whatever is delivered, lost, late *)
(* or repeated, and however often the host comes and goes (lifecycle.ts,    *)
(* the guest branch of wireSessionRoom).                                    *)
THEOREM MeshAlwaysTheRoster == Spec => []MeshIsTheRoster
BY GuestAlways, MeshFromInv, PTL

(* The two halves of HostDecides, of one step.                              *)
NobodyNew ==
  guest.live /\ guest'.live /\ guest.closed /\ guest.known /\ ~guest.authed
    => guest'.peers \ guest.peers \subseteq guest.roster \union {Host}

HostsWord ==
  guest.live /\ guest'.ended # "no" /\ guest.known
    => guest.bound /\ (guest.authed \/ guest'.authed)

(* Every step is as the host has it: a step of a handler by what the        *)
(* handler lemmas say of it, a Leave or a Rejoin by its own shape.          *)
LEMMA StepIsTheHosts ==
  ASSUME GuestInv, [Next]_vars
  PROVE  NobodyNew /\ HostsWord
<1>1. guest.live => guest.ended = "no" /\ (guest.known => guest.bound)
  BY LiveSound DEF Sound, Transports, Listed
<1>2. CASE guest' = guest
  BY <1>1, <1>2 DEF NobodyNew, HostsWord
<1>3. CASE Reacts(guest, guest')
  BY <1>1, <1>3 DEF NobodyNew, HostsWord, Reacts
<1>4. CASE UserLeaves
  BY <1>4 DEF UserLeaves, FreshGuest, NobodyNew, HostsWord
<1>5. CASE Rejoins
  BY <1>5 DEF Rejoins, NobodyNew, HostsWord
<1>6. CASE UNCHANGED vars
  BY <1>2, <1>6 DEF vars
<1>7. CASE Next
  BY <1>2, <1>3, <1>4, <1>5, <1>7, WireKeeps, JoinsKeeps, LeavesKeeps, PendingTimesOutKeeps,
     HelloArrivesKeeps, RosterArrivesKeeps, NoticeArrivesKeeps, FallbackFiresKeeps DEF Next
<1> QED BY <1>6, <1>7

(* While the host is gone nobody it did not name enters the mesh, and only  *)
(* a verified host turns a guest away: an action property, for every cap    *)
(* and set of guests.                                                       *)
THEOREM HostAlwaysDecides == Spec => HostDecides
<1>1. GuestInv /\ [Next]_vars => [NobodyNew]_vars /\ [HostsWord]_vars
  BY StepIsTheHosts
<1>2. Spec => [][NobodyNew]_vars /\ [][HostsWord]_vars
  BY <1>1, GuestAlways, PTL DEF Spec
<1> QED BY <1>2 DEF HostDecides, HostlessAdmitsNobodyNew, OnlyHostTurnsAway, NobodyNew, HostsWord
=============================================================================
