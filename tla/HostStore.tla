----------------------------- MODULE HostStore -----------------------------
(***************************************************************************)
(* The host's admission together with what its session store keeps of the  *)
(* room: one tile per peer, the identity a signed hello bound to it, and   *)
(* for each identity whether an interval of shared study time is open      *)
(* (src/src/stores/sessionStore.ts, and the hello cache of SessionView).   *)
(*                                                                         *)
(* HostAdmission decides who is in the mesh.  The store is told of every   *)
(* such decision, but it also keeps the tile of a peer whose link broke    *)
(* for a grace period, and hellos arrive on their own time: before the     *)
(* peer is admitted, after it, or on a transport that is being rejected.   *)
(***************************************************************************)
EXTENDS HostAdmission, Sequences, SequencesExt

CONSTANTS
  Identities,   \* Ed25519 keys
  IdentityOf    \* the key behind a transport id; two ids may share one

ASSUME IdentityAssumption == IdentityOf \in [Peers -> Identities]

VARIABLES
  sTiles,       \* keys of the store's `peers`, in insertion order
  sStubs,       \* tiles marked `reconnecting`
  sGrace,       \* `reconnectTimers`: peers whose grace timer runs
  sBound,       \* tiles whose edPubkeyHex is set
  sOpen,        \* identities with an open overlap interval
  sCached       \* `provisionalAuthorityHellos`: verified, not yet promoted

storeVars == <<sTiles, sStubs, sGrace, sBound, sOpen, sCached>>
vars == <<hostVars, storeVars>>

Tiles == ToSet(sTiles)

StoreTypeOK ==
  /\ sTiles \in Seq(Peers) /\ IsInjective(sTiles)
  /\ sStubs \in SUBSET Peers
  /\ sGrace \in SUBSET Peers
  /\ sBound \in SUBSET Peers
  /\ sOpen \in SUBSET Identities
  /\ sCached \in SUBSET Peers

----------------------------------------------------------------------------
(* Pieces of the store.                                                    *)

AddTile(tiles, p) == IF p \in ToSet(tiles) THEN tiles ELSE Append(tiles, p)

(* setPeerHello: binds p's tile and opens its identity's interval, unless  *)
(* another tile of the same identity already keeps it open.                *)
BindHello(p) ==
  /\ sBound' = sBound \union {p}
  /\ sOpen' = sOpen \union {IdentityOf[p]}

SharedWith(p) == {q \in sBound \ {p} : IdentityOf[q] = IdentityOf[p]}

(* departPeer: the identity's interval closes with its last bound tile.    *)
CloseInterval(p) ==
  IF p \in sBound /\ SharedWith(p) = {} THEN sOpen \ {IdentityOf[p]}
                                        ELSE sOpen

UnslicedPlaces == Tiles              \* slip: reserve a place for every tile

OnePlaceShort ==                     \* slip: stop before the last place
  {sTiles[i] : i \in {k \in DOMAIN sTiles : k < MaxRemote}}

(* setReservedReconnectPeerIds(Object.keys(peers)): the oldest tiles.      *)
ReservedPlaces ==
  {sTiles[i] : i \in {k \in DOMAIN sTiles : k <= MaxRemote}}

----------------------------------------------------------------------------
StoreInit ==
  /\ HostInit
  /\ sTiles = <<>>
  /\ sStubs = {}
  /\ sGrace = {}
  /\ sBound = {}
  /\ sOpen = {}
  /\ sCached = {}

AdmitStaysStub(p) ==                 \* slip: the tile keeps its stub mark
  /\ HostAdmit(p)
  /\ sTiles' = AddTile(sTiles, p)
  /\ sGrace' = sGrace \ {p}
  /\ IF p \in sCached THEN BindHello(p) ELSE UNCHANGED <<sBound, sOpen>>
  /\ sCached' = sCached \ {p}
  /\ UNCHANGED sStubs

(* completePeerJoin and peerJoined: a new tile, or the stub resumes.  The  *)
(* store's subscriber then promotes a hello that came before the join.     *)
Admit(p) ==
  /\ HostAdmit(p)
  /\ sTiles' = AddTile(sTiles, p)
  /\ sStubs' = sStubs \ {p}
  /\ sGrace' = sGrace \ {p}
  /\ IF p \in sCached THEN BindHello(p) ELSE UNCHANGED <<sBound, sOpen>>
  /\ sCached' = sCached \ {p}

Reject(p) == HostReject(p) /\ UNCHANGED storeVars

Flushed(p) == HostFlushed(p) /\ UNCHANGED storeVars

(* onPeerLeave of an admitted peer, clean (peerLeft) or after the link     *)
(* failed (peerTransportLost).  Both drop the binding and may close the    *)
(* interval; the second leaves a stub and starts its grace timer.          *)
Depart(p, unclean) ==
  /\ HostPeerLeave(p) /\ p \in hPeers
  /\ sTiles' = IF unclean THEN sTiles ELSE RemoveFirst(sTiles, p)
  /\ sStubs' = IF unclean THEN sStubs \union {p} ELSE sStubs
  /\ sGrace' = IF unclean THEN sGrace \union {p} ELSE sGrace
  /\ sBound' = sBound \ {p}
  /\ sOpen' = CloseInterval(p)
  /\ sCached' = sCached \ {p}

(* The transport of a peer that was never admitted goes away: the store is *)
(* not told, only the hello of that transport is discarded.                *)
RejectedDeparts(p) ==
  /\ HostPeerLeave(p) /\ p \notin hPeers
  /\ sCached' = sCached \ {p}
  /\ UNCHANGED <<sTiles, sStubs, sGrace, sBound, sOpen>>

(* A verified hello: cached, and promoted at once when the store has a     *)
(* tile of that id, whatever the tile stands for.  The data channel may    *)
(* deliver it before the join callback.                                    *)
HelloArrives(p) ==
  /\ hStatus = "live" /\ p \notin sCached
  /\ IF p \in Tiles
       THEN BindHello(p) /\ UNCHANGED sCached
       ELSE sCached' = sCached \union {p} /\ UNCHANGED <<sBound, sOpen>>
  /\ UNCHANGED <<hostVars, sTiles, sStubs, sGrace>>

(* The grace timer fires: peerReconnectExpired deletes a stub, never a     *)
(* tile whose peer came back.                                              *)
GraceExpires(p) ==
  /\ hStatus = "live" /\ p \in sGrace
  /\ sGrace' = sGrace \ {p}
  /\ IF p \in sStubs
       THEN /\ sTiles' = RemoveFirst(sTiles, p)
            /\ sStubs' = sStubs \ {p}
            /\ sBound' = sBound \ {p}
       ELSE UNCHANGED <<sTiles, sStubs, sBound>>
  /\ UNCHANGED <<hostVars, sOpen, sCached>>

Ack(p) == HostAck(p) /\ UNCHANGED storeVars

ReservationExpires == HostReservationExpires /\ UNCHANGED storeVars

(* The host's Leave: the places of the oldest tiles are kept for a rejoin, *)
(* finalizePeerPresence closes every interval, dispose drops the stubs.    *)
Leave ==
  /\ HostLeave(ReservedPlaces)
  /\ sOpen' = {}
  /\ sTiles' = SelectSeq(sTiles, LAMBDA p : p \notin sGrace)
  /\ sBound' = sBound \ sGrace
  /\ sStubs' = {} /\ sGrace' = {} /\ sCached' = {}

(* `begin` of the next stint starts from an empty store.                   *)
Rejoin ==
  /\ HostRejoin
  /\ sTiles' = <<>> /\ sBound' = {}
  /\ UNCHANGED <<sStubs, sGrace, sOpen, sCached>>

Gone == HostGone /\ UNCHANGED storeVars

Next ==
  \/ \E p \in Peers : \/ Admit(p) \/ Reject(p) \/ Flushed(p)
                      \/ \E unclean \in BOOLEAN : Depart(p, unclean)
                      \/ RejectedDeparts(p)
                      \/ HelloArrives(p) \/ GraceExpires(p) \/ Ack(p)
  \/ ReservationExpires
  \/ Leave
  \/ Rejoin
  \/ Gone

Spec == StoreInit /\ [][Next]_vars
----------------------------------------------------------------------------
(* Property: the tiles on screen are the mesh.  Through joins, departures, *)
(* link losses, rejections and rejoins, the tiles that are not waiting for *)
(* a reconnection are exactly the admitted peers.                          *)
TilesFollowMesh == hStatus = "live" => Tiles \ sStubs = hPeers

(* Property: a tile says "Reconnecting" exactly as long as its grace timer *)
(* runs.  Otherwise a stub would stay for ever, or a timer armed for an    *)
(* old departure would fire at a peer that came back.                      *)
StubsAwaitTheirTimer == sStubs = sGrace /\ sStubs \subseteq Tiles

(* Property: shared time is never cut short.  While any connected tile is  *)
(* bound to an identity its interval is open, however many other           *)
(* connections of the same identity came and went.                         *)
SharedTimeRuns ==
  hStatus = "live" => \A p \in hPeers \intersect sBound : IdentityOf[p] \in sOpen

(* Action property: a host that leaves while no tile is reconnecting keeps *)
(* the place of every peer that is with it, and of nobody else.            *)
IncumbentsKeepPlaces ==
  [][hStatus = "live" /\ hStatus' = "away" /\ sStubs = {}
       => hSaved' = hPeers]_vars

(* Property (claimed by performLeave's comment, lifecycle.ts:563-566): the *)
(* host's Leave preserves its live incumbents, so that its rejoin reserves *)
(* their places.  Reconnecting tiles are stored in the same map and can    *)
(* take a live incumbent's place.                                          *)
LiveIncumbentsReserved ==
  [][hStatus = "live" /\ hStatus' = "away" => hPeers \subseteq hSaved']_vars

(* Property (claimed by the interface of the store, sessionStore.ts and by *)
(* ARCHITECTURE.md): an identity is bound, and its shared time starts,     *)
(* only for an admitted peer; a connected transport that the host did not  *)
(* admit is bound to nobody.                                               *)
OnlyAdmittedAreBound == sBound \intersect hLinks \subseteq hPeers

(* Property: the store follows the mesh: the tiles are its peers, the stubs *)
(* those whose grace timer runs, and the shared time that of the connected. *)
StoreFollowsMesh == TilesFollowMesh /\ StubsAwaitTheirTimer /\ SharedTimeRuns
=============================================================================
