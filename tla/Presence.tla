----------------------------- MODULE Presence ------------------------------
(***************************************************************************)
(* A device that watches a friend (features/friends/presence.ts): beats and *)
(* farewells come over two legs, the direct channel and the relays, each of *)
(* which carries a message several ways, so that they arrive in any order.  *)
(* InboxBoot.tsx tells the user when the friend comes online and wakes the  *)
(* invitations that wait for a direct beat.  Friends are watched            *)
(* independently; there is one here.                                        *)
(***************************************************************************)
EXTENDS Integers

CONSTANTS
  Beat,         \* HEARTBEAT_INTERVAL_MS
  Window,       \* ONLINE_WINDOW_MS
  Sweep,        \* SWEEP_INTERVAL_MS
  Settled,      \* NOTIFY_SETTLE_MS
  Unsettled,    \* LIMITED_CONNECTION_SETTLE_MS
  MaxDelay,     \* a message that takes longer is lost
  MaxClock,     \* bound: time
  MaxEvents     \* bound: starts and ends of the friend's application, lost beats,
                \* beats out of turn and changes of the list, together

ASSUME PresenceAssumption ==
  /\ {Beat, Window, Sweep, Settled, Unsettled, MaxDelay, MaxClock,
      MaxEvents} \subseteq Nat
  /\ 0 < Beat /\ 0 < Sweep /\ Beat + MaxDelay < Window
  /\ Window <= Unsettled /\ Beat + 2 * MaxDelay < Settled

VARIABLES
  prNow,
  prLegs,       \* the legs that work between the two
  prUp,         \* is the friend's application running?
  prNextBeat,   \* when its timer fires
  prFlight,     \* messages under way: [leg, kind, at]
  prListed,     \* is the friend on the list (friendsStore)?
  prFollowed,   \* friendKeys, and the room of the friend
  prRoom,       \* "open", "leaving" or "none"
  prEntry,      \* presence[friend]: [seen, direct, since, left], or Nothing
  prSwept,      \* when the sweep last ran
  prNotify,     \* InboxBoot's refs: [was, baseline, watched, direct]
  prShown,      \* what the list showed when it was last drawn
  prEvents,     \* so far
  prGhost       \* see below

(* For the properties only: `turn`, when the friend last came or went,      *)
(* `away`, for how long it had been gone when it came, `whole`, no beat was *)
(* lost since then, `excuse`, the friend was away or a beat lost since the  *)
(* watch began, `direct`, when a direct beat was last heard, `calls`, when  *)
(* the user was told, and `stray`, since the watch began or before it       *)
(* something came from a room that was being left, or the list had the      *)
(* friend again before the effect saw it go.                                *)
prVars == <<prNow, prLegs, prUp, prNextBeat, prFlight, prListed, prFollowed, prRoom,
            prEntry, prSwept, prNotify, prShown, prEvents, prGhost>>
prFriend == <<prLegs, prUp, prNextBeat>>
prWatch == <<prListed, prFollowed, prRoom, prEntry, prSwept, prNotify, prShown>>

Never == -1
Nothing == [seen |-> Never, direct |-> Never, since |-> Never, left |-> TRUE]
Afresh == [was |-> FALSE, baseline |-> FALSE, watched |-> Never, direct |-> Never]

PresenceInit ==
  /\ prNow = 0 /\ prLegs \in {{"relay"}, {"relay", "direct"}}
  /\ prUp \in BOOLEAN /\ prNextBeat = 0 /\ prFlight = {}
  /\ prListed = TRUE /\ prFollowed = TRUE /\ prRoom = "open"
  /\ prEntry = Nothing /\ prSwept = 0 /\ prShown = FALSE
  /\ prNotify = [Afresh EXCEPT !.watched = 0]
  /\ prEvents = 0
  /\ prGhost = [turn |-> 0, away |-> 0, whole |-> TRUE, excuse |-> ~prUp,
                direct |-> Never, calls |-> {}, stray |-> FALSE]

Happens == prEvents < MaxEvents /\ prEvents' = prEvents + 1

----------------------------------------------------------------------------
(* The friend's application: a beat at once and then in step, on every leg  *)
(* that works; a farewell if it ends in order.                              *)
Sent(kind) == prFlight' = prFlight \union {[leg |-> l, kind |-> kind, at |-> prNow] : l \in prLegs}

Starts ==
  /\ ~prUp /\ Happens
  /\ prUp' = TRUE /\ prNextBeat' = prNow + Beat /\ Sent("beat")
  /\ prGhost' = [prGhost EXCEPT !.turn = prNow, !.away = prNow - prGhost.turn,
                                !.whole = TRUE]
  /\ UNCHANGED <<prNow, prLegs, prWatch>>

Beats ==
  /\ prUp /\ prNextBeat = prNow
  /\ prNextBeat' = prNow + Beat /\ Sent("beat")
  /\ UNCHANGED <<prNow, prLegs, prUp, prWatch, prEvents, prGhost>>

Ends(clean) ==
  /\ prUp /\ Happens
  /\ prUp' = FALSE
  /\ IF clean THEN Sent("leaving") ELSE UNCHANGED prFlight
  /\ prGhost' = [prGhost EXCEPT !.turn = prNow, !.excuse = TRUE]
  /\ UNCHANGED <<prNow, prLegs, prNextBeat, prWatch>>

(* A peer joins the friend's room, or a socket of the friend opens: a beat  *)
(* out of turn, on that leg.                                                *)
Greets(leg) ==
  /\ prUp /\ leg \in prLegs /\ Happens
  /\ prFlight' = prFlight \union {[leg |-> leg, kind |-> "beat", at |-> prNow]}
  /\ UNCHANGED <<prNow, prFriend, prWatch, prGhost>>

----------------------------------------------------------------------------
(* isOnline() and presenceState().                                          *)
Online(e) == ~e.left /\ prNow - e.seen < Window
Limited(e) ==
  /\ Online(e)
  /\ e.direct = Never \/ prNow - e.direct >= Window
  /\ prNow - e.since >= Unsettled

NotifyAtOnce(online, n) == online /\ ~n.was      \* slip: no baseline

(* shouldNotifyFriendOnline().                                              *)
ShouldNotify(online, n) ==
  /\ online /\ ~n.was
  /\ n.baseline \/ (n.watched # Never /\ prNow - n.watched >= Settled)

(* onPresenceChange(): the list is drawn, and InboxBoot looks at the        *)
(* friends that are on it.                                                  *)
Emits(e, ghost) ==
  LET online == Online(e)
      wakes == e.direct # Never /\ prNow - e.direct < Window
  IN  /\ prShown' = online
      /\ IF ~prListed THEN UNCHANGED prNotify /\ prGhost' = ghost
         ELSE
             /\ prNotify' = [prNotify EXCEPT !.was = online, !.baseline = @ \/ online,
                                             !.direct = IF wakes THEN e.direct ELSE @]
             /\ prGhost' = IF ShouldNotify(online, prNotify)
                             THEN [ghost EXCEPT !.calls = @ \union {prNow}] ELSE ghost

(* stamp(): with the receiver's clock.  A stretch of being online ends with *)
(* a farewell or a silence, and with it what was known of the direct leg.   *)
Stamped(direct) ==
  LET alive == Online(prEntry)
  IN  [seen |-> prNow, left |-> FALSE,
       direct |-> IF direct THEN prNow ELSE IF alive THEN prEntry.direct ELSE Never,
       since |-> IF alive THEN prEntry.since ELSE prNow]

(* Who listens: the relay leg asks for the friend's key, the direct leg has *)
(* a room, which may still deliver while it is being left.                  *)
Hears(leg) == IF leg = "relay" THEN prFollowed ELSE prRoom # "none"

Arrives(m) ==
  LET known == [prGhost EXCEPT
                  !.direct = IF m.leg = "direct" /\ m.kind = "beat" THEN prNow ELSE @,
                  !.stray = @ \/ ~prFollowed]
      heard == IF m.kind = "beat" THEN Stamped(m.leg = "direct")
               ELSE [prEntry EXCEPT !.left = TRUE]
  IN  /\ m \in prFlight /\ prFlight' = prFlight \ {m}
      /\ IF ~Hears(m.leg)
           THEN UNCHANGED <<prEntry, prNotify, prShown, prGhost>>
         ELSE IF m.kind = "leaving" /\ prEntry.left
           THEN UNCHANGED <<prEntry, prNotify, prShown, prGhost>>
         ELSE prEntry' = heard /\ Emits(heard, known)
      /\ UNCHANGED <<prNow, prFriend, prListed, prFollowed, prRoom, prSwept, prEvents>>

(* Farewells are best effort: losing one costs nothing.                     *)
Lost(m) ==
  /\ m \in prFlight /\ prFlight' = prFlight \ {m}
  /\ IF m.kind = "leaving" THEN UNCHANGED <<prEvents, prGhost>>
     ELSE /\ Happens
          /\ prGhost' = [prGhost EXCEPT !.whole = FALSE, !.excuse = TRUE]
  /\ UNCHANGED <<prNow, prFriend, prWatch>>

SweepRuns ==
  /\ prSwept + Sweep = prNow /\ prSwept' = prNow
  /\ Emits(prEntry, prGhost)
  /\ UNCHANGED <<prNow, prFriend, prFlight, prListed, prFollowed, prRoom, prEntry,
                 prEvents>>

----------------------------------------------------------------------------
(* The list of friends changes; the effect that follows the list runs later *)
(* and sees what changed since it last ran.                                 *)
ListEdited ==
  /\ Happens
  /\ prListed' = ~prListed /\ prShown' = Online(prEntry)
  /\ prGhost' = [prGhost EXCEPT !.stray = @ \/ (prFollowed /\ ~prListed)]
  /\ UNCHANGED <<prNow, prFriend, prFlight, prFollowed, prRoom, prEntry, prSwept, prNotify>>

(* updateFriends(), then the refs of those who went are dropped.            *)
Unfollows ==
  /\ prFollowed /\ ~prListed
  /\ prFollowed' = FALSE
  /\ prRoom' = IF prRoom = "open" THEN "leaving" ELSE prRoom
  /\ prEntry' = Nothing /\ prNotify' = Afresh /\ prShown' = FALSE
  /\ prGhost' = [prGhost EXCEPT !.stray = FALSE]
  /\ UNCHANGED <<prNow, prFriend, prFlight, prListed, prSwept, prEvents>>

Follows ==
  /\ ~prFollowed /\ prListed
  /\ prFollowed' = TRUE /\ prRoom' = "open"
  /\ prNotify' = [prNotify EXCEPT !.watched = IF @ = Never THEN prNow ELSE @]
  /\ prGhost' = [prGhost EXCEPT !.calls = {},
                   !.excuse = ~prUp \/ prNow - prGhost.turn <= MaxDelay]
  /\ UNCHANGED <<prNow, prFriend, prFlight, prListed, prEntry, prSwept, prShown, prEvents>>

RoomIsLeft ==
  /\ prRoom = "leaving" /\ prRoom' = "none"
  /\ UNCHANGED <<prNow, prFriend, prFlight, prListed, prFollowed, prEntry, prSwept,
                 prNotify, prShown, prEvents, prGhost>>

(* Timers fire on time, and what is still under way after MaxDelay is lost. *)
Tick ==
  /\ prNow < MaxClock /\ prNow' = prNow + 1
  /\ prUp => prNow < prNextBeat
  /\ prNow < prSwept + Sweep
  /\ prListed = prFollowed /\ prRoom # "leaving"
  /\ \A m \in prFlight : prNow < m.at + MaxDelay
  /\ UNCHANGED <<prFriend, prFlight, prWatch, prEvents, prGhost>>

PresenceNext ==
  \/ Starts \/ Beats \/ (\E clean \in BOOLEAN : Ends(clean))
  \/ \E leg \in {"relay", "direct"} : Greets(leg)
  \/ \E m \in prFlight : Arrives(m) \/ Lost(m)
  \/ SweepRuns \/ ListEdited \/ Unfollows \/ Follows \/ RoomIsLeft \/ Tick

PresenceSpec == PresenceInit /\ [][PresenceNext]_prVars

----------------------------------------------------------------------------
PresenceTypeOK ==
  /\ prNow \in 0..MaxClock /\ prRoom \in {"open", "leaving", "none"}
  /\ prEntry.seen \in Never..prNow /\ prEntry.direct \in Never..prNow
  /\ prEntry.since \in Never..prEntry.seen
  /\ prNotify.watched \in Never..prNow

Watching == prListed /\ prFollowed
OnList == Watching /\ ~prGhost.stray

(* A friend that is gone is shown offline once the last beat under way, the *)
(* window and one sweep are over, with or without a farewell.               *)
GoneIsSeen ==
  Watching /\ ~prUp /\ prNow >= prGhost.turn + MaxDelay + Window + Sweep => ~prShown

(* A friend whose beats arrive is shown online soon, also when the farewell *)
(* of its last run overtakes the first beat of this one: the next beat      *)
(* makes up for it.                                                         *)
UpIsSeen ==
  /\ Watching /\ prUp /\ prGhost.whole
  /\ prNow > prGhost.turn + Beat + 2 * MaxDelay
  /\ prNow > prNotify.watched + Beat + 2 * MaxDelay
  => prShown

(* A friend that was there all along, and whose beats arrive, is never      *)
(* announced as coming online.                                              *)
NoFalseArrival ==
  OnList /\ ~prGhost.excuse => prGhost.calls = {}

(* One that comes after a long absence is, once the watch has settled.      *)
ArrivalIsAnnounced ==
  /\ OnList /\ prUp /\ prGhost.whole
  /\ prGhost.away > MaxDelay + Window + Sweep
  /\ prGhost.turn >= prNotify.watched + Settled
  /\ prNow > prGhost.turn + Beat + 2 * MaxDelay
  => \E t \in prGhost.calls : t >= prGhost.turn

(* "Limited" is said of a friend only if no direct beat was heard within    *)
(* the window, and then it is said of one who is long online.               *)
LimitedIsTrue ==
  /\ Limited(prEntry) => prGhost.direct = Never \/ prNow - prGhost.direct >= Window
  /\ Online(prEntry) /\ prNow - prEntry.since >= Unsettled
       /\ (prGhost.direct = Never \/ prNow - prGhost.direct >= Window)
     => Limited(prEntry)

(* The invitations that wait are woken by every direct beat of a friend on  *)
(* the list.                                                                *)
BeatsWake ==
  OnList /\ prEntry.direct # Never /\ prNow - prEntry.direct < Window
    => prNotify.direct = prEntry.direct

PresenceIsSound ==
  /\ PresenceTypeOK /\ GoneIsSeen /\ UpIsSeen /\ NoFalseArrival /\ ArrivalIsAnnounced
  /\ LimitedIsTrue /\ BeatsWake
=============================================================================
