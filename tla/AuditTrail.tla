---------------------------- MODULE AuditTrail -----------------------------
(***************************************************************************)
(* The log of a session: what this device and a peer do is signed, shown on *)
(* the panel (stores/auditStore.ts) and written to the database, one        *)
(* request per event which nobody waits for, until the session is left      *)
(* (lifecycle.ts) and the report reads the rows.  Signing is a request too, *)
(* and may outlive the session (SessionView.tsx, aiAlerts.ts).              *)
(***************************************************************************)
EXTENDS Naturals

CONSTANTS
  MaxSittings,  \* bound: sessions begun on this device
  MaxAlerts,    \* bound: alerts
  MaxFailures   \* bound: requests that fail or hang

ASSUME AuditAssumption == {MaxSittings, MaxAlerts, MaxFailures} \subseteq Nat

VARIABLES
  adSitting,    \* the number of the session (startedAt)
  adLeave,      \* how far leaving it is
  adAsked,      \* leaveRequestedRef
  adTasks,      \* emits under way: [kind, n, of, pc, live]
  adAlerts,     \* number of alerts so far
  adPanel,      \* events of the store
  adPending,    \* pendingPersists
  adAwaited,    \* the batch flushPending() waits for
  adRows,       \* audit_events, those of this session
  adTiles,      \* alerts our own tile shows
  adPeer,       \* the peer: [in, hello, bound, stash]
  adFailures,
  adReport,     \* the report: [read, rows]
  adGhost       \* for the properties only: [seen, lost, heard]

adVars == <<adSitting, adLeave, adAsked, adTasks, adAlerts, adPanel, adPending, adAwaited,
            adRows, adTiles, adPeer, adFailures, adReport, adGhost>>
adStore == <<adPanel, adPending>>

Unread == [read |-> FALSE, rows |-> {}]
Stranger == [in |-> FALSE, hello |-> FALSE, bound |-> FALSE, stash |-> FALSE]
Task(kind, n, pc) == [kind |-> kind, n |-> n, of |-> adSitting, pc |-> pc, live |-> TRUE]
Event(t) == [kind |-> t.kind, n |-> t.n, of |-> t.of]
PeerJoined == [kind |-> "peer joined", n |-> 0, of |-> adSitting]

Active == adLeave \notin {"none", "ended"}
IsCurrent(of) == Active /\ ~adAsked /\ of = adSitting

AuditInit ==
  /\ adSitting = 0 /\ adLeave = "none" /\ adAsked = FALSE /\ adTasks = {} /\ adAlerts = 0
  /\ adPanel = {} /\ adPending = {} /\ adAwaited = {} /\ adRows = {} /\ adTiles = {}
  /\ adPeer = Stranger /\ adFailures = 0
  /\ adReport = Unread /\ adGhost = [seen |-> {}, lost |-> {}, heard |-> FALSE]

OneMoreFailure == adFailures < MaxFailures /\ adFailures' = adFailures + 1
Works(ok) == IF ok THEN UNCHANGED adFailures ELSE OneMoreFailure

(* append(): once per signature; the write is started and forgotten.        *)
Appended(events) ==
  /\ adPanel' = adPanel \union events
  /\ adPending' = adPending \union (events \ adPanel)

----------------------------------------------------------------------------
(* A session begins: the effects reset the panel and the tiles, say hello   *)
(* and sign that we joined.                                                 *)
SessionBegins ==
  /\ ~Active /\ adSitting < MaxSittings
  /\ adSitting' = adSitting + 1 /\ adLeave' = "no" /\ adAsked' = FALSE
  /\ adPanel' = {} /\ adTiles' = {} /\ adRows' = {} /\ adReport' = Unread
  /\ adTasks' = adTasks \union
       {[kind |-> "joined", n |-> 0, of |-> adSitting + 1, pc |-> "hello", live |-> TRUE]}
  /\ adPeer' = Stranger
  /\ adGhost' = [adGhost EXCEPT !.seen = {}, !.lost = {}, !.heard = FALSE]
  /\ UNCHANGED <<adAlerts, adPending, adAwaited, adFailures>>

Moves(t, pc) == adTasks' = (adTasks \ {t}) \union {[t EXCEPT !.pc = pc]}
Finishes(t) == adTasks' = adTasks \ {t}
Elsewhere == <<adSitting, adLeave, adAsked, adAlerts, adAwaited, adRows, adPeer,
               adReport, adGhost>>

(* Our hello is out, or failed to go.                                       *)
HelloSent(t) ==
  /\ t.pc = "hello"
  /\ IF IsCurrent(t.of) THEN Moves(t, "sign") ELSE Finishes(t)
  /\ UNCHANGED <<Elsewhere, adStore, adTiles, adFailures>>

(* handleScoreEvents(): an alert is logged, told to the peers and lights    *)
(* our own tile; a warning is only logged, the same way.  The loop runs     *)
(* until the view is gone.                                                  *)
AlertRaised ==
  /\ Active /\ adAlerts < MaxAlerts
  /\ adAlerts' = adAlerts + 1
  /\ adTasks' = adTasks \union {Task("alert", adAlerts + 1, "sign")}
  /\ UNCHANGED <<adSitting, adLeave, adAsked, adAwaited, adRows, adPeer, adReport,
                 adGhost, adStore, adTiles, adFailures>>

(* The signature is there.  Joining asks whether the session is still on,   *)
(* leaving whether it was given up; an alert was given no signal to ask.    *)
(* Of the others one that fails is as one that never comes.                 *)
MayAppend(t) ==
  CASE t.kind = "joined" -> IsCurrent(t.of)
    [] t.kind = "left" -> t.live
    [] OTHER -> TRUE

Signed(t, ok) ==
  /\ t.pc = "sign" /\ (ok \/ t.kind = "alert") /\ Works(ok)
  /\ IF ok /\ MayAppend(t) THEN Appended({Event(t)}) ELSE UNCHANGED adStore
  /\ IF t.kind = "alert" /\ t.live THEN Moves(t, "tell") ELSE Finishes(t)
  /\ UNCHANGED <<Elsewhere, adTiles>>

(* The alert itself is signed and sent; then our own tile lights up.        *)
Told(t) ==
  /\ t.pc = "tell" /\ Finishes(t)
  /\ adTiles' = IF t.live THEN adTiles \union {Event(t)} ELSE adTiles
  /\ UNCHANGED <<Elsewhere, adStore, adFailures>>

(* The deadline of the dispatch runs out.                                   *)
DispatchTimesOut(t) ==
  /\ t.kind = "alert" /\ t.live /\ OneMoreFailure
  /\ adTasks' = (adTasks \ {t}) \union {[t EXCEPT !.live = FALSE]}
  /\ UNCHANGED <<Elsewhere, adStore, adTiles>>

Settles(e, ok) ==
  /\ e \in adPending /\ Works(ok)
  /\ adPending' = adPending \ {e}
  /\ adRows' = IF ok /\ e.of = adSitting THEN adRows \union {e} ELSE adRows
  /\ adGhost' = IF ok \/ e.of # adSitting THEN adGhost ELSE [adGhost EXCEPT !.lost = @ \union {e}]
  /\ UNCHANGED <<adSitting, adLeave, adAsked, adTasks, adAlerts, adPanel, adAwaited,
                 adTiles, adPeer, adReport>>

----------------------------------------------------------------------------
(* The peer: its hello and its signed word that it joined may arrive twice, *)
(* and before or after the lifecycle admits its transport.  What it says is *)
(* kept aside until then.  It may go and come back, with the same word.     *)
InRoom == adLeave \in {"no", "farewell", "room"}

(* promoteProvisionalHellos().                                              *)
Promoted(p) ==
  IF p.in /\ p.hello /\ IsCurrent(adSitting)
    THEN [p EXCEPT !.hello = FALSE, !.bound = TRUE, !.stash = FALSE] ELSE p
PromotionAppends(p) ==
  IF p.in /\ p.hello /\ IsCurrent(adSitting) /\ p.stash THEN {PeerJoined} ELSE {}

PeerBecomes(p) ==
  /\ adPeer' = Promoted(p) /\ Appended(PromotionAppends(p))
  /\ UNCHANGED <<adSitting, adLeave, adAsked, adTasks, adAlerts, adAwaited, adRows, adTiles,
                 adFailures, adReport>>

PeerAdmitted ==
  /\ InRoom /\ ~adPeer.in
  /\ PeerBecomes([adPeer EXCEPT !.in = TRUE]) /\ UNCHANGED adGhost

PeerHelloArrives ==
  /\ InRoom
  /\ PeerBecomes([adPeer EXCEPT !.hello = TRUE]) /\ UNCHANGED adGhost

JoinedArrives ==
  /\ InRoom
  /\ IF ~IsCurrent(adSitting) \/ ~(adPeer.bound \/ adPeer.hello)
       THEN UNCHANGED <<adPeer, adStore, adGhost>>
     ELSE /\ adGhost' = [adGhost EXCEPT !.heard = TRUE]
          /\ IF adPeer.bound THEN Appended({PeerJoined}) /\ UNCHANGED adPeer
             ELSE adPeer' = [adPeer EXCEPT !.stash = TRUE] /\ UNCHANGED adStore
  /\ UNCHANGED <<adSitting, adLeave, adAsked, adTasks, adAlerts, adAwaited, adRows, adTiles,
                 adFailures, adReport>>

PeerLeaves ==
  /\ InRoom /\ adPeer' = Stranger
  /\ adGhost' = [adGhost EXCEPT !.heard = FALSE]
  /\ UNCHANGED <<adSitting, adLeave, adAsked, adTasks, adAlerts, adStore, adAwaited,
                 adRows, adTiles, adFailures, adReport>>

----------------------------------------------------------------------------
(* performLeave(): farewell, room, flush, save, flush again, companion.     *)
LeaveGoes(from, to) ==
  /\ adLeave = from /\ adLeave' = to
  /\ UNCHANGED <<adSitting, adAlerts, adStore, adAwaited, adRows, adTiles,
                 adFailures, adReport>>

LeaveBegins(asked, announces) ==
  /\ LeaveGoes("no", IF announces THEN "farewell" ELSE "room")
  /\ adAsked' = asked
  /\ adTasks' = IF announces THEN adTasks \union {Task("left", 0, "sign")} ELSE adTasks
  /\ UNCHANGED <<adPeer, adGhost>>

(* Race with LEAVE_ANNOUNCEMENT_TIMEOUT_MS; the loser is aborted.           *)
FarewellOver ==
  /\ LeaveGoes("farewell", "room")
  /\ adTasks' = {IF t.kind = "left" THEN [t EXCEPT !.live = FALSE] ELSE t : t \in adTasks}
  /\ UNCHANGED <<adAsked, adPeer, adGhost>>

RoomLeft ==
  /\ LeaveGoes("room", "flush")
  /\ adPeer' = Stranger /\ adGhost' = [adGhost EXCEPT !.heard = FALSE]
  /\ UNCHANGED <<adAsked, adTasks>>

(* flushPending(): batch after batch, until nothing is under way.           *)
FlushedOnce == adLeave = "reflush" \/ adPending = {}   \* slip: no second flush
FlushDone == adPending = {}

FlushBatch(pc) ==
  /\ adLeave = pc /\ adAwaited \intersect adPending = {} /\ ~FlushDone
  /\ adAwaited' = adPending
  /\ UNCHANGED <<adSitting, adLeave, adAsked, adTasks, adAlerts, adStore, adRows, adTiles,
                 adPeer, adFailures, adReport, adGhost>>

FlushEnds(from, to) ==
  /\ adLeave = from /\ adAwaited \intersect adPending = {} /\ FlushDone
  /\ adLeave' = to /\ adAwaited' = {}
  /\ adGhost' = [adGhost EXCEPT !.seen = {e \in adPanel : e.of = adSitting}]
  /\ UNCHANGED <<adSitting, adAsked, adTasks, adAlerts, adStore, adRows, adTiles, adPeer,
                 adFailures, adReport>>

Saved ==
  /\ LeaveGoes("save", "reflush")
  /\ UNCHANGED <<adAsked, adTasks, adPeer, adGhost>>

(* finishMirrorReport(), markEnded(): the view goes, and with it the loop.  *)
Ended ==
  /\ LeaveGoes("companion", "ended")
  /\ adTasks' = {[t EXCEPT !.live = FALSE] : t \in adTasks}
  /\ UNCHANGED <<adAsked, adPeer, adGhost>>

ReportReads ==
  /\ adLeave = "ended" /\ adReport = Unread
  /\ adReport' = [read |-> TRUE, rows |-> adRows]
  /\ UNCHANGED <<adSitting, adLeave, adAsked, adTasks, adAlerts, adStore, adAwaited, adRows,
                 adTiles, adPeer, adFailures, adGhost>>

AuditNext ==
  \/ SessionBegins
  \/ \E t \in adTasks : HelloSent(t) \/ Told(t) \/ DispatchTimesOut(t)
                          \/ \E ok \in BOOLEAN : Signed(t, ok)
  \/ AlertRaised
  \/ \E e \in adPending, ok \in BOOLEAN : Settles(e, ok)
  \/ PeerAdmitted \/ PeerHelloArrives \/ JoinedArrives \/ PeerLeaves
  \/ \E asked, announces \in BOOLEAN : LeaveBegins(asked, announces)
  \/ FarewellOver \/ RoomLeft \/ Saved \/ Ended \/ ReportReads
  \/ \E pc \in {"flush", "reflush"} : FlushBatch(pc)
  \/ FlushEnds("flush", "save") \/ FlushEnds("reflush", "companion")

AuditSpec == AuditInit /\ [][AuditNext]_adVars

----------------------------------------------------------------------------
AuditTypeOK ==
  /\ adPending \subseteq [kind : {"joined", "left", "alert", "peer joined"},
                          n : 0..MaxAlerts, of : 1..MaxSittings]
  /\ adPeer.bound => adPeer.in
  /\ adReport.rows \subseteq adRows

(* Whatever the panel had shown when the last flush ended is in the report, *)
(* also what was appended while the first flush or the save was under way;  *)
(* only a write that failed is missing.  (What comes during the handoff to  *)
(* the companion may be missing.)                                           *)
ReportIsComplete ==
  adReport.read => adGhost.seen \subseteq adReport.rows \union adGhost.lost

(* Our farewell is on the panel before the first flush or never, however    *)
(* long its signature takes: no report without it finds it later.           *)
FarewellIsInTime ==
  adLeave \in {"save", "reflush", "companion", "ended"}
    => \A e \in adPanel : e.kind = "left" /\ e.of = adSitting => e \in adGhost.seen

(* A session shows nothing of another one, but for an alarm of ours whose   *)
(* signature outlived its session.                                          *)
NothingCrosses ==
  /\ \A e \in adPanel : e.of = adSitting \/ e.kind = "alert"
  /\ \A e \in adTiles : e.of = adSitting

(* A peer that is bound and said after its hello that it joined is on the   *)
(* panel, whether that came before or after its admission.                  *)
JoinedIsShown ==
  adGhost.heard /\ adPeer.bound => PeerJoined \in adPanel

AuditIsSound ==
  AuditTypeOK /\ ReportIsComplete /\ FarewellIsInTime /\ NothingCrosses /\ JoinedIsShown
=============================================================================
