----------------------------- MODULE PushToTalk -----------------------------
(***************************************************************************)
(* Hold to talk: from the key to the microphone.                           *)
(*                                                                         *)
(* The operating system reports the edges of the global shortcut, which    *)
(* may be delayed, lost or repeated; on macOS a watcher of the native      *)
(* shell also samples whether the key is down and repeats each new level   *)
(* (commands/system.rs).  The listener of the renderer reconciles the two  *)
(* streams (pttEdgeReconciler.ts) and presses or releases the store        *)
(* (pttStore.ts), which the in-window button presses as well.  The         *)
(* listener outlives a session; the store is reset around each of them.    *)
(***************************************************************************)
EXTENDS Naturals, Sequences

CONSTANTS
  Copies,      \* how often the watcher sends one level
  MaxPresses,  \* bound: times the key goes down
  MaxLost,     \* bound: events that are lost on their way to the renderer
  MaxRepeats,  \* bound: Pressed edges repeated during a hold
  MaxUpsets,   \* bound: sessions ended, shortcuts rebound, presses of the button
  MaxInFlight  \* bound: unread events of one stream

ASSUME PttAssumption ==
  {Copies, MaxPresses, MaxLost, MaxRepeats, MaxUpsets, MaxInFlight} \subseteq Nat

VARIABLES
  mac,        \* does the platform have the watcher?
  key,        \* is the key physically down?
  announced,  \* the Pressed edge of this hold was emitted
  heard,      \* history: and reached the reconciler
  edges,      \* edges of the shortcut under way to the renderer
  levels,     \* levels of the watcher under way to the renderer
  watch,      \* the watcher: [level, copies, waits]
  capturing,  \* the settings are recording a new shortcut
  recon,      \* the reconciler: [physical, down, hold]
  ptt,        \* the store: [active, awaiting, sources, hot, timer]
  call,       \* "none", "live", "leaving" or "ended" (effects have yet to run)
  armed,      \* session_set_active: the shortcut is registered
  media,      \* the local stream: "none", "acquired" or "published"
  track,      \* is its audio track enabled?
  expired,    \* history: the failsafe muted the hold that still goes on
  count       \* [presses, lost, repeats, upsets]

pttVars == <<mac, key, announced, heard, edges, levels, watch, capturing, recon, ptt,
             call, armed, media, track, expired, count>>
keyVars == <<key, announced, heard, edges, levels, watch, capturing, expired>>

Levels == {"up", "down", "unknown"}
FreshWatch == [level |-> "unknown", copies |-> 0, waits |-> FALSE]
Muted == [active |-> FALSE, awaiting |-> FALSE, sources |-> {}, hot |-> FALSE,
           timer |-> FALSE]

PttInit ==
  /\ mac \in BOOLEAN /\ key = FALSE /\ announced = FALSE /\ heard = FALSE
  /\ edges = <<>> /\ levels = <<>> /\ watch = FreshWatch
  /\ capturing = FALSE
  /\ recon = [physical |-> "unknown", down |-> FALSE, hold |-> FALSE]
  /\ ptt = Muted
  /\ call = "none" /\ armed = FALSE
  /\ media = "none" /\ track = FALSE /\ expired = FALSE
  /\ count = [presses |-> 0, lost |-> 0, repeats |-> 0, upsets |-> 0]

Counted(c, n, bound) == count[c] < bound /\ count' = [count EXCEPT ![c] = @ + n]

----------------------------------------------------------------------------
(* The store.                                                              *)

MicActive(p) == p.active \/ p.hot

PressedBy(p, s) ==
  IF s \in p.sources THEN p
  ELSE IF p.active THEN [p EXCEPT !.sources = @ \union {s}]
  ELSE [p EXCEPT !.active = TRUE, !.awaiting = TRUE, !.sources = {s}, !.timer = TRUE]

ReleasedBy(p, s) ==
  IF s \notin p.sources THEN p
  ELSE IF p.sources # {s} THEN [p EXCEPT !.sources = @ \ {s}]
  ELSE [p EXCEPT !.active = FALSE, !.awaiting = FALSE, !.sources = {}, !.timer = FALSE]

(* MAX_HOLD_MS: muted, and still latched.                                  *)
TimedOut(p) == [p EXCEPT !.active = IF p.awaiting THEN FALSE ELSE @, !.timer = FALSE]

(* Every change of the store; subscribeMicrophone sets the published track *)
(* in the same step when the microphone goes on or off.                    *)
Becomes(p) ==
  /\ ptt' = p
  /\ track' = IF media = "published" /\ MicActive(p) # MicActive(ptt)
              THEN MicActive(p) ELSE track

----------------------------------------------------------------------------
(* The reconciler: each event gives its next state and at most one edge.   *)

Waits(r) == r.down /\ ~r.hold /\ r.physical = "up"      \* deferredShortcutPress

ShortcutPressed(r) ==
  IF r.down
  THEN IF r.physical = "unknown" /\ r.hold
       THEN [r |-> [r EXCEPT !.hold = FALSE], edge |-> "released"]
       ELSE [r |-> r, edge |-> "none"]
  ELSE IF r.physical = "up"
       THEN [r |-> [r EXCEPT !.down = TRUE], edge |-> "none"]
       ELSE [r |-> [r EXCEPT !.down = TRUE, !.hold = TRUE], edge |-> "pressed"]

ShortcutReleased(r) ==
  [r |-> [r EXCEPT !.down = FALSE, !.hold = IF Waits(r) THEN @ ELSE FALSE],
   edge |-> IF Waits(r) THEN "none" ELSE "released"]

PhysicalConsumes(r, level) ==               \* slip: an early `up` eats the press
  IF level = "down"
  THEN [r |-> [r EXCEPT !.physical = level, !.hold = r.down \/ r.hold],
        edge |-> IF r.down /\ ~r.hold THEN "pressed" ELSE "none"]
  ELSE [r |-> [r EXCEPT !.physical = level, !.hold = FALSE, !.down = FALSE],
        edge |-> IF r.physical = "down" \/ r.hold THEN "released" ELSE "none"]

PhysicalState(r, level) ==
  IF level = "down"
  THEN [r |-> [r EXCEPT !.physical = level, !.hold = r.down \/ r.hold],
        edge |-> IF r.down /\ ~r.hold THEN "pressed" ELSE "none"]
  ELSE [r |-> [r EXCEPT !.physical = level, !.hold = FALSE],
        edge |-> IF r.physical = "down" \/ r.hold THEN "released" ELSE "none"]

(* handleLocalEdge: the store is pressed or released for the shortcut.     *)
Dispatch(out) ==
  /\ recon' = out.r
  /\ Becomes(CASE out.edge = "pressed"  -> PressedBy(ptt, "shortcut")
               [] out.edge = "released" -> ReleasedBy(ptt, "shortcut")
               [] out.edge = "none"     -> ptt)

----------------------------------------------------------------------------
(* The key, the shortcut and the watcher.                                  *)

(* An edge is emitted, or it is lost.                                      *)
Emits(e) ==
  /\ Len(edges) < MaxInFlight
  /\ \/ edges' = Append(edges, e) /\ UNCHANGED count
     \/ edges' = edges /\ Counted("lost", 1, MaxLost)

(* What the watcher sees: while a shortcut is recorded, and until the      *)
(* key is let go after that, it reports the key as up.  A new level is due *)
(* Copies times, and only what was published counts.                       *)
Waiting == capturing \/ (watch.waits /\ key)
Seen == IF key /\ ~Waiting THEN "down" ELSE "up"
WatcherIsDue == mac /\ armed /\ watch # [level |-> Seen, copies |-> 0, waits |-> Waiting]

(* Bound: the watcher polls (every 20 ms) while a shortcut is recorded,    *)
(* and again before the next press.                                        *)
HasPolled == mac /\ armed => watch.waits = Waiting

EdgesAreHeard == armed /\ ~capturing

KeyDown ==
  /\ ~key /\ count.presses < MaxPresses /\ HasPolled
  /\ key' = TRUE /\ announced' = EdgesAreHeard /\ heard' = FALSE
  /\ IF EdgesAreHeard
       THEN /\ Len(edges) < MaxInFlight
            /\ \/ edges' = Append(edges, "pressed")
                  /\ count' = [count EXCEPT !.presses = @ + 1]
               \/ edges' = edges /\ count.lost < MaxLost
                  /\ count' = [count EXCEPT !.presses = @ + 1, !.lost = @ + 1]
       ELSE UNCHANGED edges /\ count' = [count EXCEPT !.presses = @ + 1]
  /\ UNCHANGED <<mac, levels, watch, capturing, recon, ptt, call, armed, media,
                 track, expired>>

KeyUp ==
  /\ key
  /\ key' = FALSE /\ announced' = FALSE /\ heard' = FALSE /\ expired' = FALSE
  /\ IF announced /\ EdgesAreHeard THEN Emits("released") ELSE UNCHANGED <<edges, count>>
  /\ UNCHANGED <<mac, levels, watch, capturing, recon, ptt, call, armed, media, track>>

(* Some stacks repeat the edge while the key is held.                      *)
Repeats ==
  /\ key /\ announced /\ EdgesAreHeard /\ Len(edges) < MaxInFlight
  /\ edges' = Append(edges, "pressed")
  /\ Counted("repeats", 1, MaxRepeats)
  /\ UNCHANGED <<mac, key, announced, heard, levels, watch, capturing, recon, ptt, call,
                 armed, media, track, expired>>

Due == IF watch.level # Seen THEN Copies ELSE watch.copies

WatcherPolls ==
  /\ WatcherIsDue /\ Len(levels) < MaxInFlight
  /\ \/ /\ Due = 0 /\ watch' = [watch EXCEPT !.waits = Waiting]
        /\ UNCHANGED <<levels, count>>
     \/ /\ Due > 0
        /\ watch' = [level |-> Seen, copies |-> Due - 1, waits |-> Waiting]
        /\ \/ levels' = Append(levels, Seen) /\ UNCHANGED count
           \/ levels' = levels /\ Counted("lost", 1, MaxLost)
  /\ UNCHANGED <<mac, key, announced, heard, edges, capturing, recon, ptt, call, armed,
                 media, track, expired>>

----------------------------------------------------------------------------
(* The renderer.                                                           *)

HearsEdge ==
  /\ edges # <<>>
  /\ edges' = Tail(edges)
  /\ IF Head(edges) = "pressed"
       THEN IF capturing THEN UNCHANGED <<recon, ptt, track>>
                         ELSE Dispatch(ShortcutPressed(recon))
       ELSE Dispatch(ShortcutReleased(recon))
  /\ heard' = (Head(edges) = "pressed" /\ ~capturing /\ key /\ announced)
  /\ UNCHANGED <<mac, key, announced, levels, watch, capturing, call, armed,
                 media, expired, count>>

HearsLevel ==
  /\ levels # <<>>
  /\ levels' = Tail(levels)
  /\ Dispatch(PhysicalState(recon, IF capturing THEN "up" ELSE Head(levels)))
  /\ UNCHANGED <<mac, key, announced, heard, edges, watch, capturing, call, armed, media,
                 expired, count>>

(* Bound: what is under way, or about to be sent, arrives long before two  *)
(* minutes are over.                                                       *)
HoldExpires ==
  /\ ptt.timer /\ edges = <<>> /\ levels = <<>> /\ ~WatcherIsDue
  /\ Becomes(TimedOut(ptt))
  /\ expired' = (key /\ call # "ended" /\ "shortcut" \in ptt.sources)
  /\ UNCHANGED <<mac, key, announced, heard, edges, levels, watch, capturing, recon, call,
                 armed, media, count>>

PressButton ==
  /\ call \in {"live", "leaving"} /\ "button" \notin ptt.sources
  /\ Counted("upsets", 1, MaxUpsets)
  /\ Becomes(PressedBy(ptt, "button"))
  /\ UNCHANGED <<mac, recon, call, armed, media, keyVars>>

ReleaseButton ==
  /\ "button" \in ptt.sources
  /\ Becomes(ReleasedBy(ptt, "button"))
  /\ UNCHANGED <<mac, recon, call, armed, media, keyVars, count>>

ToggleHotMic ==
  /\ call = "live" /\ Counted("upsets", 1, MaxUpsets)
  /\ Becomes([ptt EXCEPT !.hot = ~@])
  /\ UNCHANGED <<mac, recon, call, armed, media, keyVars>>

(* The settings begin to record a shortcut: the native shell stops         *)
(* forwarding edges and emits a Released; or they are done.                *)
CaptureBegins ==
  /\ ~capturing /\ Len(edges) < MaxInFlight
  /\ Counted("upsets", 1, MaxUpsets)
  /\ capturing' = TRUE /\ expired' = FALSE
  /\ edges' = Append(edges, "released")
  /\ UNCHANGED <<mac, key, announced, heard, levels, watch, recon, ptt, call, armed, media,
                 track>>

CaptureEnds ==
  /\ capturing /\ HasPolled /\ capturing' = FALSE
  /\ UNCHANGED <<mac, key, announced, heard, edges, levels, watch, recon, ptt, call, armed,
                 media, track, expired, count>>

----------------------------------------------------------------------------
(* The session.                                                            *)

(* hostSession, joinExistingSession: the store is reset before the room is *)
(* there; the reconciler hears of the new room and forgets its hold.       *)
Forgotten(r) == [r EXCEPT !.down = FALSE, !.hold = FALSE]

Begins ==
  /\ call = "none"
  /\ call' = "live" /\ recon' = Forgotten(recon) /\ Becomes(Muted)
  /\ heard' = FALSE
  /\ UNCHANGED <<mac, armed, media, key, announced, edges, levels, watch,
                 capturing, expired, count>>

Arms ==
  /\ call = "live" /\ ~armed
  /\ armed' = TRUE /\ watch' = FreshWatch
  /\ UNCHANGED <<mac, key, announced, heard, edges, levels, capturing, recon, ptt, call,
                 media, track, expired, count>>

(* getUserMedia answers; then, with the pending replacements of senders    *)
(* done, the stream is published with the microphone as it is by now.      *)
Acquires ==
  /\ call = "live" /\ media = "none"
  /\ media' = "acquired" /\ track' = MicActive(ptt)
  /\ UNCHANGED <<mac, recon, ptt, call, armed, keyVars, count>>

TrackAtPublish(on) == on

Publishes ==
  /\ call = "live" /\ media = "acquired"
  /\ media' = "published" /\ track' = TrackAtPublish(MicActive(ptt))
  /\ UNCHANGED <<mac, recon, ptt, call, armed, keyVars, count>>

(* A capture that failed or whose device was lost is tried again.          *)
LosesDevice ==
  /\ media = "published" /\ Counted("upsets", 1, MaxUpsets)
  /\ media' = "none"
  /\ UNCHANGED <<mac, recon, ptt, call, armed, track, keyVars>>

(* handleLeave resets the store at once; the room goes when the leave is   *)
(* through, or at once when it is the room that ended.                     *)
LeavesCall ==
  /\ call = "live" /\ Counted("upsets", 1, MaxUpsets)
  /\ call' = "leaving" /\ Becomes(Muted)
  /\ UNCHANGED <<mac, recon, armed, media, keyVars>>

RoomGoes ==
  /\ call \in {"live", "leaving"}
  /\ call = "live" => count.upsets < MaxUpsets
  /\ count' = IF call = "live" THEN [count EXCEPT !.upsets = @ + 1] ELSE count
  /\ call' = "ended" /\ recon' = Forgotten(recon)
  /\ expired' = FALSE /\ heard' = FALSE
  /\ UNCHANGED <<mac, key, announced, edges, levels, watch, capturing, ptt, armed,
                 media, track>>

(* The effects of the view clean up after the room: the store, the capture *)
(* and the registration of the shortcut.                                   *)
CleansUp ==
  /\ call = "ended"
  /\ call' = "none" /\ armed' = FALSE
  /\ ptt' = Muted /\ media' = "none" /\ track' = FALSE
  /\ announced' = FALSE
  /\ UNCHANGED <<mac, key, heard, edges, levels, watch, capturing, recon, expired, count>>

PttNext ==
  \/ KeyDown \/ KeyUp \/ Repeats \/ WatcherPolls
  \/ HearsEdge \/ HearsLevel \/ HoldExpires
  \/ PressButton \/ ReleaseButton \/ ToggleHotMic
  \/ CaptureBegins \/ CaptureEnds
  \/ Begins \/ Arms \/ Acquires \/ Publishes \/ LosesDevice
  \/ LeavesCall \/ RoomGoes \/ CleansUp

(* Events are delivered, the watcher polls, effects run.  The two minutes  *)
(* are counted on only where there is no watcher.                          *)
PttFairness ==
  /\ WF_pttVars(HearsEdge) /\ WF_pttVars(HearsLevel) /\ WF_pttVars(WatcherPolls)
  /\ WF_pttVars(CleansUp) /\ WF_pttVars(Arms) /\ WF_pttVars(CaptureEnds)
  /\ WF_pttVars(~mac /\ HoldExpires)

PttSpec == PttInit /\ [][PttNext]_pttVars /\ PttFairness

----------------------------------------------------------------------------
PttTypeOK ==
  /\ mac \in BOOLEAN /\ key \in BOOLEAN /\ armed \in BOOLEAN /\ track \in BOOLEAN
  /\ watch \in [level : Levels, copies : 0..Copies, waits : BOOLEAN]
  /\ recon \in [physical : Levels, down : BOOLEAN, hold : BOOLEAN]
  /\ ptt \in [active : BOOLEAN, awaiting : BOOLEAN, hot : BOOLEAN, timer : BOOLEAN,
              sources : SUBSET {"shortcut", "button"}]

(* The microphone has an owner who can be made to let go: a live hold runs *)
(* against the two minutes, the shortcut holds only what the reconciler    *)
(* still believes in, and the published track is on exactly with the mic.  *)
HoldIsBounded == ptt.active => ptt.timer /\ ptt.sources # {}
ShortcutHoldIsOwned == "shortcut" \in ptt.sources /\ call # "ended" => recon.hold
TrackFollowsMic == media = "published" => track = MicActive(ptt)
MicHasOwner == HoldIsBounded /\ ShortcutHoldIsOwned /\ TrackFollowsMic

(* The failsafe is final: while the key that was muted stays down and      *)
(* nothing else is pressed, no edge or level opens the microphone again in *)
(* that session, unless the shortcut itself is being changed.              *)
FailsafeIsFinal ==
  [][expired /\ expired' /\ ~ptt.active /\ ptt'.active => "button" \in ptt'.sources]_pttVars

(* A key that has been let go for good does not keep the microphone open,  *)
(* whatever was lost or delayed: within a session on macOS thanks to the   *)
(* watcher alone, elsewhere at the latest when the two minutes are over.   *)
ReleasedKeyMutes ==
  <>[](~key /\ "button" \notin ptt.sources /\ (mac => call = "live")) => <>[]~ptt.active

(* A press that was deferred, or ended by a level older than it, is        *)
(* restored once the watcher sees the key, so long as it is held.          *)
HeldPressIsRestored ==
  (mac /\ armed /\ call = "live" /\ heard /\ Seen = "down")
    ~> (recon.hold \/ ~heard \/ Seen = "up" \/ call # "live")

(* The microphone follows the physical key: it is muted when the key is up, *)
(* opens again for a key that is held, and a press the failsafe has muted   *)
(* stays muted.  It has an owner all the time.                              *)
KeyIsFollowed ==
  []MicHasOwner /\ ReleasedKeyMutes /\ HeldPressIsRestored /\ FailsafeIsFinal
=============================================================================
