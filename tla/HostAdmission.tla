--------------------------- MODULE HostAdmission ---------------------------
(***************************************************************************)
(* Admission at the original host of a study session: the host branch of   *)
(* wireSessionRoom (src/src/features/session/lifecycle.ts).                *)
(*                                                                         *)
(* The host is the only admission authority of its room.  It admits at     *)
(* most MaxRemote transports, publishes the roster of admitted ids, and    *)
(* when it leaves and comes back with the same id it first keeps the       *)
(* places of the peers it had, so that a delayed newcomer cannot take one. *)
(*                                                                         *)
(* Guests and the network are the environment here: a transport comes up   *)
(* or goes down at any time, an acknowledgement arrives at any time.       *)
(* SessionMesh closes the system with the guests and the messages, and     *)
(* HostStore adds the tiles and the study time the host's store keeps.     *)
(***************************************************************************)
EXTENDS Integers, FiniteSets

CONSTANTS
  Peers,        \* transport ids that may ever connect to the host
  MaxRemote,    \* MAX_REMOTE_PEERS
  MaxRejoins    \* bound: how often the host leaves and comes back

ASSUME PeersAssumption == IsFiniteSet(Peers)
ASSUME MaxRemoteAssumption == MaxRemote \in Nat \ {0}
ASSUME MaxRejoinsAssumption == MaxRejoins \in Nat

VARIABLES
  hStatus,      \* "live" in the room, "away" inside its rejoin window, "done"
  hLinks,       \* transports active at the host (room.getPeers())
  hPeers,       \* `peers`: the admitted transports
  hAdmitted,    \* `hostAdmittedPeerIds`: the roster it announces
  hReserved,    \* `reservedReconnectPeerIds` of the current lifecycle
  hSaved,       \* the store's `reservedReconnectPeerIds`, captured by Leave
  hCapable,     \* `rosterCapablePeerIds`: peers that acknowledged a roster
  hFlush,       \* rejected peers whose notice is being flushed before closing
  hHadPeer,     \* the store's `hadAnyPeer`
  hRejoins      \* number of rejoins so far (for the bound)

hostVars == <<hStatus, hLinks, hPeers, hAdmitted, hReserved, hSaved,
              hCapable, hFlush, hHadPeer, hRejoins>>

(* The type invariant, with the facts the handlers take for granted: an    *)
(* admitted peer has a transport, a held place has none.                   *)
HostTypeOK ==
  /\ hStatus \in {"live", "away", "done"}
  /\ hLinks \in SUBSET Peers
  /\ hPeers \in SUBSET Peers
  /\ hAdmitted \in SUBSET Peers
  /\ hReserved \in SUBSET Peers
  /\ hSaved \in SUBSET Peers
  /\ hCapable \in SUBSET Peers
  /\ hFlush \in SUBSET Peers
  /\ hHadPeer \in BOOLEAN
  /\ hRejoins \in 0..MaxRejoins
  /\ hPeers \subseteq hLinks
  /\ hReserved \intersect hLinks = {}

----------------------------------------------------------------------------
(* completePeerJoin's two reasons to turn a transport away at the host.    *)

Full == Cardinality(hPeers) >= MaxRemote

HeldForAnother(p) == hReserved # {} /\ p \notin hReserved

AdmissibleUncapped(p) == ~HeldForAnother(p)       \* slip: no cap check

Admissible(p) == ~HeldForAnother(p) /\ ~Full

HostInit ==
  /\ hStatus = "live"
  /\ hLinks = {}
  /\ hPeers = {}
  /\ hAdmitted = {}
  /\ hReserved = {}
  /\ hSaved = {}
  /\ hCapable = {}
  /\ hFlush = {}
  /\ hHadPeer = FALSE
  /\ hRejoins = 0

(* A transport becomes active; onPeerJoin runs in the same turn.  The      *)
(* admitted peer joins the roster and gives up its reservation.            *)
HostAdmit(p) ==
  /\ hStatus = "live" /\ p \notin hLinks
  /\ p \notin hPeers /\ Admissible(p)
  /\ hLinks' = hLinks \union {p}
  /\ hPeers' = hPeers \union {p}
  /\ hAdmitted' = hAdmitted \union {p}
  /\ hReserved' = hReserved \ {p}
  /\ hHadPeer' = TRUE
  /\ UNCHANGED <<hStatus, hSaved, hCapable, hFlush, hRejoins>>

(* rejectPeer: the roster and session-full are sent to the newcomer, the   *)
(* transport stays up until they have been flushed.                        *)
HostReject(p) ==
  /\ hStatus = "live" /\ p \notin hLinks
  /\ p \notin hPeers /\ ~Admissible(p)
  /\ hLinks' = hLinks \union {p}
  /\ hFlush' = hFlush \union {p}
  /\ UNCHANGED <<hStatus, hPeers, hAdmitted, hReserved, hSaved, hCapable,
                 hHadPeer, hRejoins>>

(* The flush timer of a rejection: closePeerTransport looks the transport  *)
(* up by id, so it closes whatever transport that id has by now.           *)
HostFlushed(p) ==
  /\ hStatus = "live" /\ p \in hFlush
  /\ hFlush' = hFlush \ {p}
  /\ UNCHANGED <<hStatus, hLinks, hPeers, hAdmitted, hReserved, hSaved,
                 hCapable, hHadPeer, hRejoins>>

(* onPeerLeave.  A transport that was never admitted changes nothing.      *)
HostPeerLeave(p) ==
  /\ hStatus = "live" /\ p \in hLinks
  /\ hLinks' = hLinks \ {p}
  /\ IF p \in hPeers
       THEN /\ hPeers' = hPeers \ {p}
            /\ hAdmitted' = hAdmitted \ {p}
            /\ hReserved' = hReserved \ {p}
            /\ hCapable' = hCapable \ {p}
       ELSE UNCHANGED <<hPeers, hAdmitted, hReserved, hCapable>>
  /\ UNCHANGED <<hStatus, hSaved, hFlush, hHadPeer, hRejoins>>

(* The capability acknowledgement of a guest that understood a roster; it  *)
(* travels on an active transport, and counts only from an admitted id.    *)
HostAck(p) ==
  /\ hStatus = "live" /\ p \in hLinks /\ p \in hAdmitted
  /\ hCapable' = hCapable \union {p}
  /\ UNCHANGED <<hStatus, hLinks, hPeers, hAdmitted, hReserved, hSaved,
                 hFlush, hHadPeer, hRejoins>>

(* clearExpiredReservations: the places nobody came back for are given up. *)
HostReservationExpires ==
  /\ hStatus = "live" /\ hReserved # {}
  /\ hAdmitted' = hAdmitted \ hReserved
  /\ hReserved' = {}
  /\ UNCHANGED <<hStatus, hLinks, hPeers, hSaved, hCapable, hFlush, hHadPeer,
                 hRejoins>>

(* The host's own Leave.  `saved` are the ids whose places a rejoin keeps. *)
(* Without any peer in this stint there is no rejoin window.               *)
HostLeave(saved) ==
  /\ hStatus = "live"
  /\ hStatus' = IF hHadPeer THEN "away" ELSE "done"
  /\ hSaved' = IF hHadPeer THEN saved ELSE {}
  /\ hLinks' = {} /\ hPeers' = {} /\ hAdmitted' = {} /\ hReserved' = {}
  /\ hCapable' = {} /\ hFlush' = {}
  /\ UNCHANGED <<hHadPeer, hRejoins>>

(* Rejoin from the report: a fresh lifecycle with the saved reservations.  *)
HostRejoin ==
  /\ hStatus = "away" /\ hRejoins < MaxRejoins
  /\ hStatus' = "live"
  /\ hReserved' = hSaved
  /\ hAdmitted' = hSaved
  /\ hSaved' = {}
  /\ hHadPeer' = FALSE
  /\ hRejoins' = hRejoins + 1
  /\ UNCHANGED <<hLinks, hPeers, hCapable, hFlush>>

(* The rejoin deadline passes, or the report is closed.                    *)
HostGone ==
  /\ hStatus = "away"
  /\ hStatus' = "done"
  /\ hSaved' = {}
  /\ UNCHANGED <<hLinks, hPeers, hAdmitted, hReserved, hCapable, hFlush,
                 hHadPeer, hRejoins>>

(* What a Leave may keep: the store slices the ids it is given.            *)
Savable == {saved \in SUBSET Peers : Cardinality(saved) <= MaxRemote}

HostNext ==
  \/ \E p \in Peers : \/ HostAdmit(p) \/ HostReject(p) \/ HostFlushed(p)
                      \/ HostPeerLeave(p) \/ HostAck(p)
  \/ HostReservationExpires
  \/ \E saved \in Savable : HostLeave(saved)
  \/ HostRejoin
  \/ HostGone

HostSpec == HostInit /\ [][HostNext]_hostVars

----------------------------------------------------------------------------
(* Property: what the host announces can always be received.  A roster of  *)
(* more than MAX_REMOTE_PEERS ids is dropped by every guest                *)
(* (isAdmissionAuthorityPayload), so reservations and admissions together  *)
(* may never outgrow the mesh, whatever the order of joins, departures,    *)
(* rejoins and expiries.                                                   *)
RosterDeliverable == Cardinality(hAdmitted) <= MaxRemote

(* Property: every place on the roster is either taken or held for one     *)
(* peer that left with the host, never both; a peer that is in the mesh is *)
(* always on the roster the guests are told.                               *)
RosterAccounted ==
  /\ hAdmitted = hPeers \union hReserved
  /\ hPeers \intersect hReserved = {}

(* Property: a peer whose place is held always gets it back.  However many *)
(* newcomers knocked meanwhile, a reserved id that reconnects before the   *)
(* reservation expires is never told that the session is full.             *)
HeldPlacesReachable == \A p \in hReserved : Admissible(p)

(* Property: roster updates go only to peers of this lifecycle that are    *)
(* admitted and connected; a departed or rejected peer is never published  *)
(* to as if it were still in the room.                                     *)
CapableArePresent == hCapable \subseteq hPeers

(* Property: the roster the guests are told can be kept: it fits, it is the *)
(* mesh and the held places, and those can be taken again.                  *)
RosterSound ==
  RosterDeliverable /\ RosterAccounted /\ HeldPlacesReachable /\ CapableArePresent
=============================================================================
