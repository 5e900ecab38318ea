--------------------------- MODULE GuestAdmission --------------------------
(***************************************************************************)
(* One guest of a study session among a host and other guests that behave   *)
(* in every way the wire allows: transports come and go at any time, the    *)
(* host's hello, rosters and session-full notices arrive late, reordered,   *)
(* before the join callback or never, the host leaves and comes back with a *)
(* fresh revision counter, and the guest itself leaves and rejoins.         *)
(* The guest's own reactions are those of GuestHandlers.                    *)
(***************************************************************************)
EXTENDS GuestHandlers

CONSTANTS
  Self,         \* the guest whose state this is
  MaxRev,       \* bound: rosters per lifecycle of the host
  MaxStints     \* bound: lifecycles of the host, and stints of the guest

ASSUME SelfAssumption == Self \in Guests
ASSUME BoundsAssumption == MaxRev \in Nat /\ MaxStints \in Nat \ {0}

VARIABLES
  guest,        \* the guest's record
  frozen,       \* what its Leave saved for a rejoin, while it is away
  stint,        \* its current stint
  hostUp,       \* is there a live transport between host and guest?
  hostStint,    \* the host's current lifecycle
  nextRev,      \* nextAuthorityRosterRevision of that lifecycle
  hello,        \* the host's hello is under way on this transport
  flying,       \* rosters under way
  notice,       \* a session-full notice is under way
  seen          \* newest roster revision that reached the guest, this lifecycle

envVars == <<hostUp, hostStint, nextRev, hello, flying, notice>>
vars == <<guest, frozen, stint, seen, envVars>>

GuestTypeOK ==
  /\ guest \in [self : {Self}, live : BOOLEAN, links : SUBSET Ids,
                cut : SUBSET Ids, peers : SUBSET Ids, pending : SUBSET Ids,
                bound : BOOLEAN, authed : BOOLEAN, claimed : BOOLEAN,
                roster : SUBSET Guests, known : BOOLEAN,
                rev : {NoRev} \union 0..MaxRev, closed : BOOLEAN,
                back : SUBSET Ids, fallback : BOOLEAN, overflow : BOOLEAN,
                early : [rev : {NoRev} \union 0..MaxRev, ids : SUBSET Guests],
                full : BOOLEAN,
                ended : {"no", "authority", "full", "timeout"}]
  /\ guest.live => /\ guest.peers \union guest.pending \subseteq guest.links
                   /\ guest.peers \intersect guest.pending = {}
  /\ frozen \in SUBSET Guests
  /\ stint \in 1..MaxStints
  /\ hostUp \in BOOLEAN
  /\ hostStint \in 1..MaxStints
  /\ nextRev \in 0..MaxRev
  /\ hello \in BOOLEAN
  /\ flying \subseteq [rev : 0..MaxRev, ids : SUBSET Guests]
  /\ notice \in BOOLEAN
  /\ seen \in {NoRev} \union 0..MaxRev

Init ==
  /\ guest = FreshGuest(Self)
  /\ frozen = {}
  /\ stint = 1
  /\ hostUp = FALSE
  /\ hostStint = 1
  /\ nextRev = 0
  /\ hello = FALSE
  /\ flying = {}
  /\ notice = FALSE
  /\ seen = NoRev

----------------------------------------------------------------------------
(* The host's end and the wire.                                             *)

HostConnects ==
  /\ ~hostUp /\ guest.live /\ Host \notin guest.links
  /\ hostUp' = TRUE
  /\ hello' = TRUE
  /\ UNCHANGED <<guest, frozen, stint, seen, hostStint, nextRev, flying, notice>>

(* announceAdmissionRoster, to this guest.  The host never lists more ids   *)
(* than fit (HostAdmission, RosterDeliverable).                             *)
HostAnnounces(ids) ==
  /\ hostUp /\ nextRev < MaxRev
  /\ flying' = flying \union {[rev |-> nextRev, ids |-> ids]}
  /\ nextRev' = nextRev + 1
  /\ UNCHANGED <<guest, frozen, stint, seen, hostUp, hostStint, hello, notice>>

(* rejectPeer: a roster without this guest, then the notice.                *)
HostTurnsAway(ids) ==
  /\ hostUp /\ nextRev < MaxRev /\ Self \notin ids
  /\ flying' = flying \union {[rev |-> nextRev, ids |-> ids]}
  /\ nextRev' = nextRev + 1
  /\ notice' = TRUE
  /\ UNCHANGED <<guest, frozen, stint, seen, hostUp, hostStint, hello>>

(* Has this transport delivered anything before its join callback?          *)
AheadOfJoin ==
  /\ Host \notin guest.links
  /\ guest.authed \/ guest.early # NoMessage \/ guest.full

(* The link breaks: what was under way is lost.  Trystero runs the join     *)
(* callback of a transport whose actions it delivers, so a transport that   *)
(* was ahead of its callback gets it before it can leave.                   *)
HostLinkDrops ==
  /\ hostUp /\ (AheadOfJoin => ~guest.live)
  /\ hostUp' = FALSE /\ hello' = FALSE /\ flying' = {} /\ notice' = FALSE
  /\ UNCHANGED <<guest, frozen, stint, seen, hostStint, nextRev>>

(* The host left and rejoined: a fresh lifecycle counts revisions from 0.   *)
HostRestarts ==
  /\ ~hostUp /\ hostStint < MaxStints
  /\ hostStint' = hostStint + 1
  /\ nextRev' = 0
  /\ seen' = NoRev
  /\ UNCHANGED <<guest, frozen, stint, hostUp, hello, flying, notice>>

----------------------------------------------------------------------------
(* The guest.  Closing its transport to the host also ends what the wire    *)
(* carries.                                                                 *)

WireFollows(s) ==
  IF Host \in s.cut
    THEN /\ hostUp' = FALSE /\ hello' = FALSE /\ flying' = {}
         /\ notice' = FALSE
         /\ UNCHANGED <<hostStint, nextRev>>
    ELSE UNCHANGED envVars

Becomes(s) == guest' = s /\ WireFollows(s) /\ UNCHANGED <<frozen, stint, seen>>

Joins(p) ==
  /\ guest.live /\ p \notin guest.links /\ p # Self
  /\ p = Host => hostUp
  /\ Becomes(OnJoin(guest, p))

Leaves(p) ==
  /\ guest.live /\ p \in guest.links
  /\ p = Host => ~hostUp
  /\ Becomes(OnLeave(guest, p))

HelloArrives ==
  /\ hello /\ guest.live
  /\ guest' = OnHostHello(guest)
  /\ hello' = FALSE
  /\ UNCHANGED <<frozen, stint, seen, hostUp, hostStint, nextRev, flying, notice>>

RosterArrives(m) ==
  /\ m \in flying /\ guest.live
  /\ guest' = OnRoster(guest, m)
  /\ flying' = flying \ {m}
  /\ seen' = IF m.rev > seen THEN m.rev ELSE seen
  /\ UNCHANGED <<frozen, stint, hostUp, hostStint, nextRev, hello, notice>>

NoticeArrives ==
  /\ notice /\ guest.live
  /\ guest' = OnSessionFull(guest)
  /\ notice' = FALSE
  /\ UNCHANGED <<frozen, stint, seen, hostUp, hostStint, nextRev, hello, flying>>

PendingTimesOut(p) ==
  /\ guest.live /\ p \in guest.pending
  /\ Becomes(OnPendingTimeout(guest, p))

FallbackFires ==
  /\ guest.live /\ guest.fallback
  /\ Becomes(OnFallback(guest))

(* The user's Leave: the frozen roster is taken before the teardown.        *)
UserLeaves ==
  /\ guest.live
  /\ frozen' \in FrozenIds(guest)
  /\ guest' = [FreshGuest(Self) EXCEPT !.live = FALSE]
  /\ hostUp' = FALSE /\ hello' = FALSE /\ flying' = {} /\ notice' = FALSE
  /\ UNCHANGED <<stint, seen, hostStint, nextRev>>

(* Rejoin from the report, with or without a frozen roster.  A guest that   *)
(* was turned away has no rejoin.                                           *)
Rejoins ==
  /\ ~guest.live /\ guest.ended = "no" /\ stint < MaxStints
  /\ guest' = IF frozen = {} THEN FreshGuest(Self)
                             ELSE RejoinedGuest(Self, frozen)
  /\ frozen' = {}
  /\ stint' = stint + 1
  /\ seen' = NoRev
  /\ UNCHANGED envVars

RosterIds == {ids \in SUBSET Guests : Cardinality(ids) <= MaxRemote}

Next ==
  \/ HostConnects
  \/ \E ids \in RosterIds : HostAnnounces(ids) \/ HostTurnsAway(ids)
  \/ HostLinkDrops
  \/ HostRestarts
  \/ \E p \in Ids : Joins(p) \/ Leaves(p) \/ PendingTimesOut(p)
  \/ HelloArrives
  \/ \E m \in flying : RosterArrives(m)
  \/ NoticeArrives
  \/ FallbackFires
  \/ UserLeaves
  \/ Rejoins

Spec == Init /\ [][Next]_vars

----------------------------------------------------------------------------
(* Property: once a roster is known, the mesh holds nobody it excludes.     *)
(* Whichever way a transport got in (legacy fallback, an older roster,      *)
(* another order of callbacks), it is the host, on the roster, or being     *)
(* closed.                                                                  *)
MeshFollowsRoster ==
  guest.live /\ guest.known =>
    guest.peers \subseteq guest.roster \union {Host} \union guest.cut

(* Property: a guest never keeps more transports in its mesh than the       *)
(* session's cap, counting those it is not already closing.                 *)
MeshWithinCap ==
  guest.live => Cardinality(guest.peers \ guest.cut) <= MaxRemote

(* Action property: while the host is gone nobody gets in who was not in    *)
(* the session when it went: not on the frozen roster, or, if it never sent *)
(* one, not in the mesh.  Only the host's own return reopens the door.      *)
HostlessAdmitsNobodyNew ==
  [][guest.live /\ guest'.live /\ guest.closed /\ guest.known /\ ~guest.authed
      => guest'.peers \ guest.peers \subseteq guest.roster \union {Host}]_vars

(* Action property: a guest is turned away by the session only on the word  *)
(* of a host whose identity it verified, or because no host proved itself   *)
(* in time; a host that vanished cannot end a guest that has its roster.    *)
OnlyHostTurnsAway ==
  [][guest.live /\ guest'.ended # "no" /\ guest.known
      => guest.bound /\ (guest.authed \/ guest'.authed)]_vars

(* Property: the roster revision a guest compares with is one of the        *)
(* lifecycle the host is in: a host that came back starts to count anew,    *)
(* and its rosters must not be taken for old ones.                          *)
RevisionIsCurrent ==
  guest.live /\ hostUp /\ guest.authed => guest.rev < nextRev \/ guest.rev = NoRev

(* Property: the mesh of a guest is what the host's latest roster says.     *)
MeshIsTheRoster == MeshFollowsRoster /\ MeshWithinCap /\ RevisionIsCurrent

(* Action property: the host alone lets newcomers in and turns guests away. *)
HostDecides == HostlessAdmitsNobodyNew /\ OnlyHostTurnsAway
=============================================================================
