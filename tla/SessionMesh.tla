---------------------------- MODULE SessionMesh ----------------------------
(***************************************************************************)
(* A whole study session: the original host (HostAdmission), its guests     *)
(* (GuestHandlers), the wires between every two of them and the messages    *)
(* of the admission protocol.                                               *)
(*                                                                          *)
(* A wire comes up and breaks as one thing, but each end hears of it on its *)
(* own time: the join and leave callbacks of the two ends are separate      *)
(* steps.  Rosters travel in order on the data channel; the hello, the      *)
(* session-full notice and the acknowledgement are each in flight or not.   *)
(* Whatever is under way on a wire is lost with it.                         *)
(***************************************************************************)
EXTENDS HostAdmission, Sequences

CONSTANTS
  Host,         \* the host's transport id
  Settled,      \* guests already in the mesh when the observation starts
  MaxDrops,     \* bound: wires that break, and guests that quit
  MaxQueue,     \* bound: no wire comes up over so many unread rosters
  Reachable,    \* the pairs of ids the network can connect
  SlowRosters   \* may a roster be on its way for more than 350 ms?

ASSUME MeshAssumption ==
  /\ Host \notin Peers /\ MaxDrops \in Nat /\ MaxQueue \in Nat
  /\ SlowRosters \in BOOLEAN
  /\ \A w \in Reachable : Cardinality(w) = 2 /\ w \subseteq Peers \union {Host}
  /\ Settled \subseteq Peers /\ Cardinality(Settled) <= MaxRemote

G == INSTANCE GuestHandlers WITH Guests <- Peers

VARIABLES
  guest,        \* [Peers -> record of GuestHandlers]
  up,           \* wires: two-element sets of ids
  hello,        \* guests to which the host's hello is under way
  rosters,      \* [Peers -> sequence of rosters under way]
  notice,       \* guests to which a session-full notice is under way
  ack,          \* guests whose acknowledgement is under way
  drops

wireVars == <<up, hello, rosters, notice, ack>>
meshVars == <<hostVars, guest, wireVars, drops>>

Wire(x, y) == {x, y}

MeshTypeOK ==
  /\ HostTypeOK
  /\ \A g \in Peers : /\ guest[g].links \subseteq G!Ids \ {g}
                      /\ guest[g].peers \subseteq guest[g].links
                      /\ guest[g].pending \subseteq guest[g].links
                      /\ guest[g].cut \subseteq guest[g].links
                      /\ guest[g].peers \intersect guest[g].pending = {}
  /\ \A w \in up : Cardinality(w) = 2 /\ w \subseteq G!Ids
  /\ hello \subseteq Peers /\ notice \subseteq Peers /\ ack \subseteq Peers
  /\ rosters \in [Peers -> Seq(SUBSET Peers)]
  /\ drops \in 0..MaxDrops

(* A guest that has been through the whole protocol.                        *)
SettledGuest(g) ==
  LET others == (Settled \ {g}) \union {Host} IN
  [G!FreshGuest(g) EXCEPT !.links = others, !.peers = others, !.bound = TRUE,
                          !.authed = TRUE, !.roster = Settled, !.known = TRUE,
                          !.rev = 0]

MeshInit ==
  /\ hStatus = "live"
  /\ hLinks = Settled /\ hPeers = Settled /\ hAdmitted = Settled
  /\ hCapable = Settled /\ hHadPeer = (Settled # {})
  /\ hReserved = {} /\ hSaved = {} /\ hFlush = {} /\ hRejoins = 0
  /\ guest = [g \in Peers |-> IF g \in Settled THEN SettledGuest(g)
                                               ELSE G!FreshGuest(g)]
  /\ up = {{x, y} : x, y \in Settled \union {Host}}
           \ {{x} : x \in Settled \union {Host}}
  /\ hello = {}
  /\ rosters = [g \in Peers |-> <<>>]
  /\ notice = {}
  /\ ack = {}
  /\ drops = 0

----------------------------------------------------------------------------
(* Messages and wires.                                                      *)

AnnounceBefore(targets) ==           \* slip: the roster as it was
  rosters' = [g \in Peers |->
                IF g \in targets /\ Wire(Host, g) \in up
                  THEN Append(rosters[g], hAdmitted) ELSE rosters[g]]

(* announceAdmissionRoster: the roster as it is after the step, to each of  *)
(* the targets that can be reached.                                         *)
Announce(targets) ==
  rosters' = [g \in Peers |->
                IF g \in targets /\ Wire(Host, g) \in up
                  THEN Append(rosters[g], hAdmitted') ELSE rosters[g]]

(* The wires in `gone` break: what was under way to or from the host on     *)
(* them is lost.                                                            *)
Break(gone) ==
  LET cutOff == {g \in Peers : Wire(Host, g) \in gone} IN
  /\ up' = up \ gone
  /\ hello' = hello \ cutOff
  /\ rosters' = [g \in Peers |-> IF g \in cutOff THEN <<>> ELSE rosters[g]]
  /\ notice' = notice \ cutOff
  /\ ack' = ack \ cutOff

Wires(x) == {w \in up : x \in w}

(* Is x in the room, and does its end of the wire to y run?                 *)
Present(x) == IF x = Host THEN hStatus = "live" ELSE guest[x].live
Active(x, y) == IF x = Host THEN y \in hLinks ELSE y \in guest[x].links

(* Nothing is on its way: no message, and no end that has yet to hear of a  *)
(* wire that came up or broke.                                              *)
Quiet ==
  /\ hello = {} /\ notice = {} /\ ack = {}
  /\ \A g \in Peers : rosters[g] = <<>>
  /\ \A x, y \in G!Ids : x # y /\ Present(x) =>
                          (Active(x, y) <=> Wire(x, y) \in up)

(* Bound: what is sent arrives before a timer of a second or more runs out. *)
TimersMayFire == Quiet

(* A wire comes up between two members of the room once neither end runs    *)
(* an earlier one.                                                          *)
Connect(w) ==
  /\ w \notin up /\ \A g \in Peers : Len(rosters[g]) < MaxQueue
  /\ \A x \in w : Present(x) /\ \A y \in w \ {x} : ~Active(x, y)
  /\ up' = up \union {w}
  /\ UNCHANGED <<hostVars, guest, hello, rosters, notice, ack, drops>>

WireDrops(w) ==
  /\ w \in up /\ drops < MaxDrops
  /\ Break({w})
  /\ drops' = drops + 1
  /\ UNCHANGED <<hostVars, guest>>

----------------------------------------------------------------------------
(* The host.                                                                *)

HostSeesJoinTellsOne(g) ==           \* slip: the others are not told of it
  /\ Wire(Host, g) \in up
  /\ \/ HostAdmit(g) /\ UNCHANGED notice
     \/ HostReject(g) /\ notice' = notice \union {g}
  /\ Announce({g})
  /\ hello' = hello \union {g}
  /\ UNCHANGED <<guest, up, ack, drops>>

HostSeesJoin(g) ==
  /\ Wire(Host, g) \in up
  /\ \/ HostAdmit(g) /\ Announce(hCapable \union {g}) /\ UNCHANGED notice
     \/ HostReject(g) /\ Announce({g}) /\ notice' = notice \union {g}
  /\ hello' = hello \union {g}
  /\ UNCHANGED <<guest, up, ack, drops>>

HostSeesLeave(g) ==
  /\ Wire(Host, g) \notin up
  /\ HostPeerLeave(g)
  /\ IF g \in hPeers THEN Announce(hCapable') ELSE UNCHANGED rosters
  /\ UNCHANGED <<guest, up, hello, notice, ack, drops>>

(* The flushed rejection closes the transport the id has by now.            *)
HostCloses(g) ==
  /\ HostFlushed(g)
  /\ rosters[g] = <<>> /\ g \notin notice \union hello
  /\ IF g \in hLinks THEN Break({Wire(Host, g)} \intersect up)
                     ELSE UNCHANGED wireVars
  /\ UNCHANGED <<guest, drops>>

(* The first acknowledgement is answered with a catch-up roster.            *)
HostSeesAck(g) ==
  /\ g \in ack /\ ack' = ack \ {g}
  /\ \/ HostAck(g)
     \/ g \in hLinks \ hAdmitted /\ UNCHANGED hostVars
  /\ IF g \in hAdmitted \ hCapable THEN Announce({g}) ELSE UNCHANGED rosters
  /\ UNCHANGED <<guest, up, hello, notice, drops>>

HostExpires ==
  /\ HostReservationExpires /\ TimersMayFire
  /\ Announce(hCapable)
  /\ UNCHANGED <<guest, up, hello, notice, ack, drops>>

HostLeaves ==
  /\ HostLeave(hPeers)
  /\ Break(Wires(Host))
  /\ UNCHANGED <<guest, drops>>

HostReturns == HostRejoin /\ UNCHANGED <<guest, wireVars, drops>>

HostIsGone == HostGone /\ UNCHANGED <<guest, wireVars, drops>>

----------------------------------------------------------------------------
(* The guests.  A guest that closed a transport breaks the wire; one that   *)
(* ended leaves the room, and its lifecycle is disposed.                    *)

After(s) == IF s.live THEN s
            ELSE [G!FreshGuest(s.self) EXCEPT !.live = FALSE, !.ended = s.ended]

Becomes(g, s) ==
  /\ guest' = [guest EXCEPT ![g] = After(s)]
  /\ Break(IF s.live THEN {Wire(g, p) : p \in s.cut} \intersect up
                     ELSE Wires(g))

GuestSeesJoin(g, p) ==
  /\ Wire(g, p) \in up /\ p \notin guest[g].links /\ guest[g].live
  /\ Becomes(g, G!OnJoin(guest[g], p))
  /\ UNCHANGED <<hostVars, drops>>

GuestSeesLeave(g, p) ==
  /\ Wire(g, p) \notin up /\ p \in guest[g].links /\ guest[g].live
  /\ Becomes(g, G!OnLeave(guest[g], p))
  /\ UNCHANGED <<hostVars, drops>>

(* Messages are handled after the join callback of their transport here;    *)
(* GuestAdmission has them arrive before it, too.                           *)
Hears(g) == guest[g].live /\ Host \in guest[g].links

GuestSeesHello(g) ==
  /\ g \in hello /\ Hears(g)
  /\ LET s == G!OnHostHello(guest[g]) IN
     /\ guest' = [guest EXCEPT ![g] = After(s)]
     /\ IF s.live
          THEN /\ hello' = hello \ {g}
               /\ ack' = IF s.rev # guest[g].rev THEN ack \union {g} ELSE ack
               /\ up' = up \ {Wire(g, p) : p \in s.cut}
               /\ UNCHANGED <<rosters, notice>>
          ELSE Break(Wires(g))
  /\ UNCHANGED <<hostVars, drops>>

(* Rosters arrive in order, so their revisions need not be told apart.      *)
GuestSeesRoster(g) ==
  /\ rosters[g] # <<>> /\ Hears(g)
  /\ LET m == [rev |-> 0, ids |-> Head(rosters[g])]
         s == G!OnRoster(guest[g], m)
     IN  /\ guest' = [guest EXCEPT ![g] = After(s)]
         /\ IF s.live
              THEN /\ rosters' = [rosters EXCEPT ![g] = Tail(@)]
                   /\ ack' = IF G!Acknowledges(guest[g], m)
                               THEN ack \union {g} ELSE ack
                   /\ up' = up \ {Wire(g, p) : p \in s.cut}
                   /\ UNCHANGED <<hello, notice>>
              ELSE Break(Wires(g))
  /\ UNCHANGED <<hostVars, drops>>

GuestSeesNotice(g) ==
  /\ g \in notice /\ Hears(g)
  /\ LET s == G!OnSessionFull(guest[g]) IN
     /\ guest' = [guest EXCEPT ![g] = After(s)]
     /\ IF s.live THEN notice' = notice \ {g} /\ UNCHANGED <<up, hello, rosters, ack>>
                  ELSE Break(Wires(g))
  /\ UNCHANGED <<hostVars, drops>>

GuestTimesOut(g, p) ==
  /\ guest[g].live /\ p \in guest[g].pending /\ TimersMayFire
  /\ Becomes(g, G!OnPendingTimeout(guest[g], p))
  /\ UNCHANGED <<hostVars, drops>>

GuestFallsBack(g) ==
  /\ guest[g].live /\ guest[g].fallback
  /\ SlowRosters \/ Quiet
  /\ Becomes(g, G!OnFallback(guest[g]))
  /\ UNCHANGED <<hostVars, drops>>

GuestQuits(g) ==
  /\ guest[g].live /\ drops < MaxDrops
  /\ Becomes(g, [guest[g] EXCEPT !.live = FALSE])
  /\ drops' = drops + 1
  /\ UNCHANGED hostVars

MeshNext ==
  \/ \E w \in Reachable : Connect(w)
  \/ \E w \in up : WireDrops(w)
  \/ \E g \in Peers : \/ HostSeesJoin(g) \/ HostSeesLeave(g)
                      \/ HostCloses(g) \/ HostSeesAck(g)
                      \/ \E p \in G!Ids : \/ GuestSeesJoin(g, p)
                                          \/ GuestSeesLeave(g, p)
                                          \/ GuestTimesOut(g, p)
                      \/ GuestSeesHello(g) \/ GuestSeesRoster(g)
                      \/ GuestSeesNotice(g) \/ GuestFallsBack(g)
                      \/ GuestQuits(g)
  \/ HostExpires
  \/ HostLeaves
  \/ HostReturns
  \/ HostIsGone

MeshSpec == MeshInit /\ [][MeshNext]_meshVars

(* The event loops run the callbacks they are owed, data channels deliver,  *)
(* and Trystero keeps connecting every two members of the room.             *)
Fairness ==
  /\ \A w \in Reachable : WF_meshVars(Connect(w))
  /\ \A g \in Peers :
       /\ WF_meshVars(HostSeesJoin(g)) /\ WF_meshVars(HostSeesLeave(g))
       /\ WF_meshVars(HostSeesAck(g)) /\ WF_meshVars(HostCloses(g))
       /\ WF_meshVars(GuestSeesHello(g)) /\ WF_meshVars(GuestSeesRoster(g))
       /\ WF_meshVars(GuestSeesNotice(g))
       /\ \A p \in G!Ids \ {g} : /\ WF_meshVars(GuestSeesJoin(g, p))
                                 /\ WF_meshVars(GuestSeesLeave(g, p))
                                 /\ SF_meshVars(GuestTimesOut(g, p))

FairSpec == MeshSpec /\ Fairness

----------------------------------------------------------------------------
Ended(g) == guest[g].ended # "no"

(* The one way an admitted newcomer may end: its roster is so slow that the *)
(* legacy timer may run out first, and it has seen more transports than a   *)
(* legacy session has.                                                      *)
TakenForLegacy(g) ==
  SlowRosters /\ guest[g].fallback /\ ~guest[g].known /\ G!Crowded(guest[g])

(* Action property: the host's word does not turn away a guest it holds.    *)
(* While the host has a guest in its mesh and their wire is up, no roster,  *)
(* notice or timer ends that guest as one the session had no room for, but  *)
(* for a newcomer that takes its host for a legacy one.                     *)
AdmittedStays ==
  [][\A g \in Peers :
       /\ g \in hPeers /\ g \in hPeers' /\ Wire(Host, g) \in up
       /\ guest[g].live /\ ~TakenForLegacy(g)
       => ~Ended(g)']_meshVars

(* Action property: two guests that have each other in their mesh keep      *)
(* their transport as long as every roster they know of, applied, kept for  *)
(* later or still on its way, lists both.  Neither a newcomer, nor the      *)
(* host's departure and return, nor what happens to other wires makes one   *)
(* of them close it.                                                        *)
MeshEdge(x, y) == y \in guest[x].peers /\ x \in guest[y].peers

RostersKnownTo(g) ==
  {guest[g].roster} \union {rosters[g][i] : i \in DOMAIN rosters[g]}
    \union (IF guest[g].early = G!NoMessage THEN {} ELSE {guest[g].early.ids})

ListedForBoth(x, y) ==
  \A g \in {x, y} : /\ guest[g].known
                    /\ \A ids \in RostersKnownTo(g) : {x, y} \subseteq ids

ListedEdgesStay ==
  [][\A x, y \in Peers :
       /\ MeshEdge(x, y) /\ ListedForBoth(x, y) /\ Wire(x, y) \in up
       /\ drops' = drops
       => Wire(x, y) \in up']_meshVars

(* Property: the mesh that survives its host is closed.  Once all callbacks *)
(* have run and nobody waits any more, each edge is held by both of its     *)
(* ends, and a guest that has the host's roster shares the mesh only with   *)
(* guests on it, whatever a newcomer took for granted before its roster     *)
(* came.                                                                    *)
NoStrangers ==
  hStatus = "done" /\ Quiet /\ (\A g \in Peers : guest[g].pending = {}) =>
    \A x, y \in Peers :
      guest[x].live /\ y \in guest[x].peers
        => /\ guest[y].live /\ x \in guest[y].peers
           /\ guest[x].known => y \in guest[x].roster

(* Liveness: a newcomer that finds the session full is told so: it leaves,  *)
(* unless a place becomes free for it or the host itself is gone.           *)
TurnedAwayLeaves ==
  \A g \in Peers \ Settled : g \in hFlush ~> \/ ~guest[g].live
                                  \/ g \in hPeers
                                  \/ hStatus # "live"

(* Liveness: when there is room for everybody the whole mesh forms, however *)
(* connections, hellos and rosters are interleaved.                         *)
MeshForms ==
  <>[](hStatus = "live" =>
         \A x, y \in {g \in Peers : guest[g].live} :
           /\ x \in hPeers
           /\ Host \in guest[x].peers
           /\ x # y => y \in guest[x].peers)

(* Action property: what was formed stays: no protocol message tears an     *)
(* admitted guest, or an edge both ends are told to keep, out of the mesh.  *)
EdgesStay == AdmittedStays /\ ListedEdgesStay
=============================================================================
