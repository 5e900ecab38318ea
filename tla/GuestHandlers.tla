--------------------------- MODULE GuestHandlers ---------------------------
(***************************************************************************)
(* The guest branch of wireSessionRoom (features/session/lifecycle.ts): the *)
(* callbacks of one participant that joined with a signed invite, as        *)
(* functions from its state to its next state.                              *)
(*                                                                          *)
(* A guest holds transports to the host and to other guests.  The host's    *)
(* roster, once the host's identity is verified, says which of them belong  *)
(* to the session; until then transports wait in `pending`.  When the host  *)
(* goes away the last roster is frozen and nobody new gets in.              *)
(*                                                                          *)
(* A guest is a record: self, its id; live, until it is disposed; links,    *)
(* the transports active at its end; cut, those of them it has closed and   *)
(* whose leave callback has yet to come; peers and pending, the transports  *)
(* in the mesh and those that wait; bound and authed, whether               *)
(* authorityPeerId and authenticatedAuthorityPeerId are the host's id;      *)
(* claimed, the same for pendingAuthorityPeerId; roster, known and rev, the *)
(* announced ids, hasAuthenticatedRoster and the announced revision;        *)
(* closed, admissionsClosed; back, reconnectPeerIds; fallback, whether the  *)
(* legacy timer runs; overflow, pendingLegacyMeshOverflow; early and full,  *)
(* the roster and session-full notice kept for an unverified host; ended,   *)
(* the reason it was turned away, if it was.                                *)
(***************************************************************************)
EXTENDS Integers, FiniteSets, FiniteSetsExt

CONSTANTS
  Host,         \* transport id of the original host
  Guests,       \* transport ids of everyone else
  MaxRemote     \* MAX_REMOTE_PEERS

ASSUME HostAssumption == Host \notin Guests
ASSUME GuestsAssumption == IsFiniteSet(Guests)
ASSUME GuestRemoteAssumption == MaxRemote \in Nat \ {0}

Ids == Guests \union {Host}
NoRev == -1
Rosters == [rev : Nat, ids : SUBSET Guests]
NoMessage == [rev |-> NoRev, ids |-> {}]

FreshGuest(g) ==
  [self |-> g, live |-> TRUE, links |-> {}, cut |-> {}, peers |-> {},
   pending |-> {}, bound |-> FALSE, authed |-> FALSE, claimed |-> FALSE,
   roster |-> {}, known |-> FALSE, rev |-> NoRev, closed |-> FALSE,
   back |-> {}, fallback |-> FALSE, overflow |-> FALSE, early |-> NoMessage,
   full |-> FALSE, ended |-> "no"]

(* A rejoin after the host had left: the frozen roster of the last stint.   *)
RejoinedGuest(g, frozen) ==
  [FreshGuest(g) EXCEPT !.bound = TRUE, !.roster = frozen, !.known = TRUE,
                        !.closed = TRUE, !.back = frozen \union {Host}]

(* getFrozenGuestAdmission: what may be kept over the guest's own short     *)
(* rejoin window.  {} stands for null; of a mesh that is too large the      *)
(* guest itself and the first of its peers are kept.                        *)
FrozenIds(s) ==
  LET ids == IF s.known THEN s.roster
                        ELSE {s.self} \union (s.peers \ {Host})
      kept == {T \in SUBSET ids : /\ s.self \in T
                                  /\ Cardinality(T) <= MaxRemote}
  IN  IF ~s.bound \/ s.self \notin ids THEN {{}}
      ELSE {T \in kept : \A U \in kept : Cardinality(U) <= Cardinality(T)}

Authority(s) == IF s.bound THEN {Host} ELSE {}

----------------------------------------------------------------------------
(* Closing transports: the leave callback comes later.                      *)

Cut(s, ids) == [s EXCEPT !.cut = @ \union (ids \intersect s.links)]

(* endRejectedGuest and the session-full notice: the whole stint is left.   *)
EndStaysInRoom(s, reason) ==         \* slip: tell the user, keep the room
  [s EXCEPT !.ended = reason, !.pending = {}, !.fallback = FALSE,
            !.early = NoMessage, !.full = FALSE]

End(s, reason) ==
  [s EXCEPT !.live = FALSE, !.ended = reason, !.pending = {},
            !.fallback = FALSE, !.early = NoMessage, !.full = FALSE]

Queue(s, p) ==
  IF p \in s.pending \union s.peers THEN s
  ELSE IF Cardinality(s.pending) >= MaxRemote
       THEN Cut([s EXCEPT !.overflow = @ \/ ~s.known], {p})
       ELSE [s EXCEPT !.pending = @ \union {p}]

(* A transport that the roster, once there is one, does not name.           *)
Unlisted(s, p) ==
  /\ s.known /\ p \notin s.roster
  /\ p \notin Authority(s) /\ ~(s.claimed /\ p = Host)

MeshFull(s) == ~s.known /\ Cardinality(s.peers) >= MaxRemote

AdmitPeer(s, p) ==
  LET bound == s.bound \/ (s.claimed /\ p = Host)
  IN  [s EXCEPT !.peers = @ \union {p},
                !.bound = bound,
                !.claimed = @ /\ p # Host,
                !.closed = @ /\ ~(p = Host /\ bound /\ s.authed)]

(* completePeerJoin on the guest side.                                      *)
CompleteJoin(s, p) ==
  IF p \in s.peers THEN s
  ELSE IF s.closed /\ p \notin s.back THEN Cut(s, {p})
  ELSE IF Unlisted(s, p) THEN Queue(s, p)
  ELSE IF MeshFull(s) THEN Cut(s, {p})
  ELSE AdmitPeer(s, p)

Resolve(p, s) ==
  IF p \in s.pending THEN CompleteJoin([s EXCEPT !.pending = @ \ {p}], p)
                     ELSE s

ResolveAll(s, ids) == FoldSet(Resolve, s, ids)

----------------------------------------------------------------------------
(* Rosters.                                                                 *)

Stale(s, m) == s.rev # NoRev /\ m.rev < s.rev

AcceptWithoutClosing(s, m) ==        \* slip: excluded transports stay open
  LET t == [s EXCEPT !.roster = m.ids, !.rev = m.rev, !.known = TRUE]
  IN  IF s.self \notin m.ids THEN End(t, "authority")
      ELSE ResolveAll(t, t.pending \intersect (m.ids \union {Host}))

(* acceptRoster: a roster without this guest ends it; otherwise transports  *)
(* it excludes are closed and those it names leave the waiting room.        *)
Accept(s, m) ==
  LET t == [s EXCEPT !.roster = m.ids, !.rev = m.rev, !.known = TRUE]
  IN  IF s.self \notin m.ids THEN End(t, "authority")
      ELSE ResolveAll(Cut(t, t.peers \ (m.ids \union Authority(t))),
                      t.pending \intersect (m.ids \union {Host}))

(* applyAuthorityAnnouncement.                                              *)
ApplyRoster(s, m) ==
  LET t == [s EXCEPT !.fallback = FALSE] IN
  IF Host \in s.peers
    THEN IF Stale(s, m) THEN t
         ELSE LET u == Accept([t EXCEPT !.bound = TRUE], m)
              IN  [u EXCEPT !.closed = @ /\ ~(u.live /\ u.authed)]
  ELSE IF s.closed THEN t
  ELSE IF Stale(s, m) THEN [t EXCEPT !.claimed = TRUE]
  ELSE Accept([t EXCEPT !.claimed = TRUE], m)

(* admissionAuthority.receive: rosters of an unverified host wait.          *)
OnRoster(s, m) ==
  IF ~s.live THEN s
  ELSE IF s.authed THEN ApplyRoster(s, m)
  ELSE [s EXCEPT !.early = m]

Acknowledges(s, m) ==                \* does the roster draw an ACK?
  /\ s.live /\ s.authed /\ s.self \in m.ids /\ ~Stale(s, m)
  /\ Host \in s.peers \/ ~s.closed

FullNoticeTrusted(s) == IF s.live THEN End(s, "full") ELSE s
                                     \* slip: no verified host needed

(* sessionFull.receive, from the host.                                      *)
OnSessionFull(s) ==
  IF ~s.live THEN s
  ELSE IF s.authed THEN End(s, "full")
  ELSE [s EXCEPT !.full = TRUE]

(* authenticateAuthority: the host's signed hello was verified.             *)
OnHostHello(s) ==
  LET t == [s EXCEPT !.bound = TRUE, !.authed = TRUE] IN
  IF ~s.live \/ s.authed THEN s
  ELSE IF s.full THEN End(t, "authority")
  ELSE IF s.early # NoMessage
    THEN ApplyRoster([t EXCEPT !.early = NoMessage], s.early)
  ELSE IF s.known /\ s.closed /\ Host \in s.peers
    THEN [t EXCEPT !.closed = FALSE]
  ELSE [t EXCEPT !.fallback = TRUE]

(* More transports than a session with a legacy host has: the guest is one  *)
(* too many itself.                                                         *)
Crowded(s) ==
  s.overflow \/ Cardinality(s.peers) + Cardinality(s.pending) > MaxRemote

FillUp(p, s) ==
  IF Cardinality(s.peers) >= MaxRemote
    THEN Cut([s EXCEPT !.pending = @ \ {p}], {p})
    ELSE Resolve(p, s)

(* The legacy fallback timer: a verified host that sent no roster for 350ms *)
(* is taken for one that never will.                                        *)
OnFallback(s) ==
  LET t == [s EXCEPT !.fallback = FALSE]
      u == FoldSet(FillUp, Resolve(Host, [t EXCEPT !.claimed = TRUE]),
                   s.pending \ {Host})
  IN
  IF ~s.authed \/ s.known THEN t
  ELSE IF Crowded(s) THEN End(t, "authority")
  ELSE [u EXCEPT !.closed = FALSE]

----------------------------------------------------------------------------
(* Transports.                                                              *)

OnJoin(s, p) ==
  LET t == [s EXCEPT !.links = @ \union {p}] IN
  IF ~s.live \/ p \in s.peers \union s.pending THEN t
  ELSE IF s.closed /\ p \notin s.back THEN Cut(t, {p})
  ELSE IF p = Host /\ s.authed
    THEN IF ~s.known /\ ~s.closed THEN Queue(t, p)
         ELSE CompleteJoin([t EXCEPT !.claimed = TRUE], p)
  ELSE IF Unlisted(s, p) \/ (~s.closed /\ ~s.bound /\ ~s.claimed)
    THEN Queue(t, p)
  ELSE CompleteJoin(t, p)

(* The host's transport is gone: the last roster, or the mesh if there was  *)
(* none, is frozen; transports outside it are closed.                       *)
AuthorityLost(s) ==
  LET back == (IF s.known THEN s.roster ELSE s.peers) \union {Host} IN
  Cut([s EXCEPT !.authed = FALSE, !.early = NoMessage, !.back = back,
                !.rev = NoRev, !.closed = TRUE,
                !.pending = @ \intersect back],
      (s.pending \union s.peers) \ back)

(* A host that vanishes before this guest was admitted by it.               *)
HostLostWhileWaiting(s) ==
  LET t == [s EXCEPT !.authed = FALSE, !.back = {}]
  IN  IF s.known THEN t ELSE End(t, "authority")

OnLeaveKeepsListed(s, p) ==          \* slip: a listed guest stays in the mesh
  LET t == [s EXCEPT !.links = @ \ {p}, !.cut = @ \ {p},
                     !.peers = IF s.closed THEN @ ELSE @ \ {p},
                     !.pending = @ \ {p},
                     !.early = IF p = Host THEN NoMessage ELSE @,
                     !.full = @ /\ p # Host]
  IN
  IF ~s.live THEN t
  ELSE IF p = Host /\ p \in s.pending /\ s.bound THEN HostLostWhileWaiting(t)
  ELSE IF p = Host /\ p \in s.peers /\ s.bound THEN AuthorityLost(t)
  ELSE t

OnLeave(s, p) ==
  LET t == [s EXCEPT !.links = @ \ {p}, !.cut = @ \ {p},
                     !.peers = @ \ {p}, !.pending = @ \ {p},
                     !.early = IF p = Host THEN NoMessage ELSE @,
                     !.full = @ /\ p # Host]
  IN
  IF ~s.live THEN t
  ELSE IF p = Host /\ p \in s.pending /\ s.bound THEN HostLostWhileWaiting(t)
  ELSE IF p = Host /\ p \in s.peers /\ s.bound THEN AuthorityLost(t)
  ELSE t

(* The 3 s timer of a waiting transport.  Without a verified host there is  *)
(* no mesh to stay in; with one, only the transport is closed.              *)
OnPendingTimeout(s, p) ==
  LET t == Cut([s EXCEPT !.pending = @ \ {p}], {p})
  IN  IF ~s.known /\ ~(s.bound /\ s.authed) THEN End(t, "timeout") ELSE t
=============================================================================
