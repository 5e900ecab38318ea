----------------------------- MODULE SampleLoop -----------------------------
(***************************************************************************)
(* The focus pipeline's sample loop (features/ai/sampleLoop.ts), the effect *)
(* of SessionView that starts and stops it, and the screen streams the two  *)
(* pass around (features/ai/captureScreen.ts).  A loop boots (preflight,    *)
(* one picker per display, the engine), then runs one chain of ticks; each  *)
(* tick captures, asks the engine and reports, under deadlines of its own.  *)
(*                                                                         *)
(* An attempt is one getDisplayMedia call.  The promise of an attempt made  *)
(* inside a click is stashed until a boot takes it.  What the callbacks of  *)
(* a promise do is a step of its own here; the webview runs them sooner.    *)
(***************************************************************************)
EXTENDS Naturals, FiniteSets, Sequences, SequencesExt

CONSTANTS MaxLoops,     \* loops one SessionView starts
          Attempts,     \* calls of getDisplayMedia
          MaxSidecarPorts      \* ports the engine listens on, one after the other

ASSUME SampleLoopAssumption ==
  /\ MaxLoops \in Nat \ {0}
  /\ IsFiniteSet(Attempts)
  /\ MaxSidecarPorts \in Nat \ {0}

Loops == 1..MaxLoops

VARIABLES
  slView,      \* SessionView: [mounted, aiOn, denied, told, loop, all]
  slAttempt,   \* attempt -> "unused", "asked", "live", "refused", "over"
  slStash,     \* pendingScreenAcquire: {} or one attempt
  slDropped,   \* attempts whose stream is stopped as soon as it is there
  slLoop,      \* loop -> its InternalState and where its two chains stand
  slEngine     \* the sidecar store: [state, port]

sampleVars == <<slView, slAttempt, slStash, slDropped, slLoop, slEngine>>

BootSteps == {"none", "preflight", "acquiring", "starting", "battery", "ready", "over"}
Awaiting == {"warming", "capturing", "asking", "reporting"}

SampleTypeOK ==
  /\ slView \in [mounted : BOOLEAN, aiOn : BOOLEAN, denied : BOOLEAN,
                 told : BOOLEAN, loop : 0..MaxLoops, all : BOOLEAN]
  /\ slAttempt \in [Attempts -> {"unused", "asked", "live", "refused", "over"}]
  /\ slStash \subseteq Attempts /\ Cardinality(slStash) <= 1
  /\ slDropped \subseteq Attempts
  /\ \A l \in Loops :
       /\ slLoop[l].boot \in BootSteps
       /\ slLoop[l].tick \in Awaiting \cup {"idle", "timer"}
       /\ Range(slLoop[l].held) \subseteq Attempts
       /\ slLoop[l].wants \subseteq Attempts
  /\ slEngine \in [state : {"warming", "healthy", "errored"}, port : 1..MaxSidecarPorts]

-----------------------------------------------------------------------------
(* A fresh InternalState *)
NewLoop ==
  [boot |-> "none", stopped |-> FALSE, wants |-> {}, held |-> <<>>, target |-> 1,
   captureDenied |-> FALSE, tick |-> "idle", port |-> 0,
   stallReason |-> FALSE, overdue |-> FALSE, stallReported |-> FALSE]

SampleInit ==
  /\ slView = [mounted |-> TRUE, aiOn |-> TRUE, denied |-> FALSE, told |-> FALSE,
               loop |-> 0, all |-> TRUE]
  /\ slAttempt = [a \in Attempts |-> "unused"]
  /\ slStash = {}
  /\ slDropped = {}
  /\ slLoop = [l \in Loops |-> NewLoop]
  /\ slEngine = [state |-> "warming", port |-> 1]

Live == {a \in Attempts : slAttempt[a] = "live"}
Unused == {a \in Attempts : slAttempt[a] = "unused"}
LiveHeld(loop) == {a \in Range(loop.held) : slAttempt[a] = "live"}

(* Stopping the tracks of the streams in S *)
Stopped(S, attempt) ==
  [a \in Attempts |-> IF a \in S /\ attempt[a] = "live" THEN "over" ELSE attempt[a]]

(* teardownInternal: timers go, streams are disposed of, a request in flight
   is aborted (its continuation still runs, and finds the loop stopped).  The
   stall bookkeeping of a stopped loop is never read again. *)
TornDown(loop) ==
  IF loop.stopped THEN loop
  ELSE [NewLoop EXCEPT !.stopped = TRUE, !.boot = loop.boot, !.wants = loop.wants,
                       !.tick = IF loop.tick = "timer" THEN "idle" ELSE loop.tick]

TearsDown(l, loop) ==
  /\ slLoop' = [slLoop EXCEPT ![l] = TornDown(loop)]
  /\ slAttempt' = Stopped(Range(loop.held), slAttempt)

(* resetStallClock; schedule arms the next tick unless the loop has stopped *)
StallReset(loop) == [loop EXCEPT !.overdue = FALSE, !.stallReason = FALSE]

Scheduled(loop) == [loop EXCEPT !.tick = IF loop.stopped THEN "idle" ELSE "timer"]

(* evaluateStall: the consumer is told once, when two minutes have passed *)
StallIsDue(loop) ==
  ~loop.stopped /\ ~loop.captureDenied /\ ~loop.stallReported
  /\ loop.stallReason /\ loop.overdue

Evaluated(loop) == [loop EXCEPT !.stallReported = @ \/ StallIsDue(loop)]

(* noteBlockedTick *)
Blocked(loop) ==
  IF loop.stopped THEN loop ELSE Evaluated([loop EXCEPT !.stallReason = TRUE])

(* noteSampleResolved *)
Resolved(loop) ==
  IF loop.stopped THEN loop ELSE [StallReset(loop) EXCEPT !.stallReported = FALSE]

(* onSamplesStalled and onSamplesResumed reach the view that owns the loop *)
Tells(l, loop) ==
  slView' = [slView EXCEPT !.told =
    IF loop.stallReported # slLoop[l].stallReported THEN loop.stallReported ELSE @]

LoopBecomes(l, loop) ==
  /\ slLoop' = [slLoop EXCEPT ![l] = loop]
  /\ Tells(l, loop)
-----------------------------------------------------------------------------
(* The view *)

(* A click asks for the screen: the stash takes the new attempt, and the
   stream of the one it replaces is dropped (preacquireScreenStream) *)
Preacquire(a) ==
  /\ a \in Unused
  /\ slAttempt' = [slAttempt EXCEPT ![a] = "asked"]
  /\ slStash' = {a}
  /\ slDropped' = slDropped \cup slStash

(* discardPendingScreenStream *)
StashDiscarded ==
  /\ slStash' = {}
  /\ slDropped' = slDropped \cup slStash

Wanted == slView.mounted /\ slView.aiOn /\ ~slView.denied

(* The effect starts a loop and the loop its boot *)
EffectStarts(l) ==
  /\ Wanted
  /\ slView.loop = 0
  /\ slLoop[l].boot = "none"
  /\ \A k \in Loops : k < l => slLoop[k].boot # "none"
  /\ slView' = [slView EXCEPT !.loop = l, !.told = FALSE]
  /\ slLoop' = [slLoop EXCEPT ![l].boot = "preflight"]
  /\ UNCHANGED <<slAttempt, slStash, slDropped, slEngine>>

(* Its cleanup stops the loop: a flag flipped, or the camera was replaced *)
EffectStops ==
  /\ slView.loop # 0
  /\ slView' = [slView EXCEPT !.loop = 0]
  /\ TearsDown(slView.loop, slLoop[slView.loop])
  /\ UNCHANGED <<slStash, slDropped, slEngine>>

(* The AI switch; switching it on in a session is a click that asks for the
   screen.  The effect has run before the next click. *)
AiOff ==
  /\ slView.mounted /\ slView.aiOn
  /\ slView' = [slView EXCEPT !.aiOn = FALSE]
  /\ UNCHANGED <<slAttempt, slStash, slDropped, slLoop, slEngine>>

AiOn ==
  /\ slView.mounted /\ ~slView.aiOn /\ slView.loop = 0
  /\ \E a \in Attempts : Preacquire(a)
  /\ slView' = [slView EXCEPT !.aiOn = TRUE]
  /\ UNCHANGED <<slLoop, slEngine>>

(* handleCaptureRetry *)
CaptureRetry ==
  /\ slView.mounted /\ slView.aiOn /\ slView.denied /\ slView.loop = 0
  /\ \E a \in Attempts : Preacquire(a)
  /\ slView' = [slView EXCEPT !.denied = FALSE]
  /\ UNCHANGED <<slLoop, slEngine>>

(* The displays setting goes from all to primary *)
Demote ==
  /\ slView.all
  /\ slView' = [slView EXCEPT !.all = FALSE]
  /\ UNCHANGED <<slAttempt, slStash, slDropped, slLoop, slEngine>>

(* SessionView unmounts: both effects clean up *)
Unmount ==
  /\ slView.mounted
  /\ slView' = [slView EXCEPT !.mounted = FALSE, !.loop = 0]
  /\ IF slView.loop = 0 THEN UNCHANGED <<slLoop, slAttempt>>
     ELSE TearsDown(slView.loop, slLoop[slView.loop])
  /\ StashDiscarded
  /\ UNCHANGED slEngine

(* The user answers a picker; a shared display goes away *)
PickerAnswers(a, granted) ==
  /\ slAttempt[a] = "asked"
  /\ slAttempt' = [slAttempt EXCEPT ![a] = IF granted THEN "live" ELSE "refused"]
  /\ UNCHANGED <<slView, slStash, slDropped, slLoop, slEngine>>

DroppedStops(a) ==
  /\ a \in slDropped /\ slAttempt[a] # "asked"
  /\ slAttempt' = Stopped({a}, slAttempt)
  /\ slDropped' = slDropped \ {a}
  /\ UNCHANGED <<slView, slStash, slLoop, slEngine>>
-----------------------------------------------------------------------------
(* boot *)

(* Two refusals drop the stash, a missing model file leaves it *)
PreflightFails(l, discards) ==
  /\ slLoop[l].boot = "preflight"
  /\ IF discards /\ ~slLoop[l].stopped THEN StashDiscarded ELSE UNCHANGED <<slStash, slDropped>>
  /\ TearsDown(l, [slLoop[l] EXCEPT !.boot = "over"])
  /\ UNCHANGED <<slView, slEngine>>

(* The await of the next stream: the stash if there is one, else a new call *)
AsksForCapture(l, loop) ==
  \/ /\ slStash # {}
     /\ slLoop' = [slLoop EXCEPT ![l] = [loop EXCEPT !.boot = "acquiring", !.wants = slStash]]
     /\ slStash' = {}
     /\ UNCHANGED slAttempt
  \/ \E a \in Unused :
       /\ slStash = {}
       /\ slAttempt' = [slAttempt EXCEPT ![a] = "asked"]
       /\ slLoop' = [slLoop EXCEPT ![l] = [loop EXCEPT !.boot = "acquiring", !.wants = {a}]]
       /\ UNCHANGED slStash
  \/ /\ slStash = {} /\ Unused = {}
     /\ slLoop' = [slLoop EXCEPT ![l] = [loop EXCEPT !.boot = "acquiring", !.wants = {}]]
     /\ UNCHANGED <<slAttempt, slStash>>

PreflightEnds(l) ==
  /\ slLoop[l].boot = "preflight"
  /\ IF slLoop[l].stopped
     THEN /\ slLoop' = [slLoop EXCEPT ![l].boot = "over"]
          /\ UNCHANGED <<slAttempt, slStash>>
     ELSE AsksForCapture(l, [slLoop[l] EXCEPT !.target = IF slView.all THEN 2 ELSE 1])
  /\ UNCHANGED <<slView, slDropped, slEngine>>

(* A stream arrives: a stopped loop stops it, a running one keeps it, and
   asks for the next display or starts the engine *)
KeepsAnyway(l) == TRUE \* slip
Keeps(l) == ~slLoop[l].stopped

Acquired(l) == \E a \in slLoop[l].wants :
  /\ slLoop[l].boot = "acquiring" /\ slAttempt[a] \in {"live", "over"}
  /\ IF Keeps(l)
     THEN LET kept == [slLoop[l] EXCEPT !.held = Append(@, a), !.wants = {}]
          IN IF Len(kept.held) < kept.target
             THEN AsksForCapture(l, kept)
             ELSE /\ slLoop' = [slLoop EXCEPT ![l] = [kept EXCEPT !.boot = "starting"]]
                  /\ UNCHANGED <<slAttempt, slStash>>
     ELSE /\ slAttempt' = Stopped({a}, slAttempt)
          /\ slLoop' = [slLoop EXCEPT ![l].boot = "over", ![l].wants = {}]
          /\ UNCHANGED slStash
  /\ UNCHANGED <<slView, slDropped, slEngine>>

(* No stream: with a display in hand the boot goes on, without one it is over *)
NoStream(l, denied) ==
  LET loop == [slLoop[l] EXCEPT !.wants = {}]
  IN IF loop.stopped
     THEN /\ slLoop' = [slLoop EXCEPT ![l] = [loop EXCEPT !.boot = "over"]]
          /\ UNCHANGED <<slView, slAttempt>>
     ELSE IF loop.held # <<>>
     THEN /\ slLoop' = [slLoop EXCEPT ![l] = [loop EXCEPT !.boot = "starting"]]
          /\ UNCHANGED <<slView, slAttempt>>
     ELSE /\ TearsDown(l, [loop EXCEPT !.boot = "over", !.captureDenied = denied])
          /\ slView' = [slView EXCEPT !.denied = @ \/ denied]

AcquireRefused(l, denied) ==
  /\ slLoop[l].boot = "acquiring"
  /\ \A a \in slLoop[l].wants : slAttempt[a] = "refused"
  /\ NoStream(l, denied)
  /\ UNCHANGED <<slStash, slDropped, slEngine>>

(* acquireScreenStreamBounded: whoever gives up drops what may still come *)
GivenUp(l) == slLoop[l].wants

AcquireTimesOut(l) ==
  /\ slLoop[l].boot = "acquiring"
  /\ \E a \in slLoop[l].wants : slAttempt[a] = "asked"
  /\ slDropped' = slDropped \cup GivenUp(l)
  /\ NoStream(l, FALSE)
  /\ UNCHANGED <<slStash, slEngine>>

EngineStarts(l, ok) ==
  /\ slLoop[l].boot = "starting"
  /\ CASE slLoop[l].stopped -> /\ slLoop' = [slLoop EXCEPT ![l].boot = "over"]
                               /\ UNCHANGED slAttempt
       [] ~slLoop[l].stopped /\ ok -> /\ slLoop' = [slLoop EXCEPT ![l].boot = "battery"]
                                      /\ UNCHANGED slAttempt
       [] OTHER -> TearsDown(l, [slLoop[l] EXCEPT !.boot = "over"])
  /\ UNCHANGED <<slView, slStash, slDropped, slEngine>>

BootEnds(l) ==
  /\ slLoop[l].boot = "battery"
  /\ slLoop' = [slLoop EXCEPT ![l] =
       IF @.stopped THEN [@ EXCEPT !.boot = "over"]
       ELSE Scheduled([@ EXCEPT !.boot = "ready", !.target = 1])]
  /\ UNCHANGED <<slView, slAttempt, slStash, slDropped, slEngine>>
-----------------------------------------------------------------------------
(* tick *)

TickIsDue(l) == slLoop[l].tick = "timer"
Capturable(l) == LiveHeld(slLoop[l]) # {}

(* A denial ends the chain, and so does the AI switch *)
TickEnds(l) ==
  /\ TickIsDue(l)
  /\ slLoop[l].captureDenied \/ ~slView.aiOn
  /\ slLoop' = [slLoop EXCEPT ![l] =
       [(IF slLoop[l].captureDenied THEN @ ELSE StallReset(@)) EXCEPT !.tick = "idle"]]
  /\ UNCHANGED <<slView, slAttempt, slStash, slDropped, slEngine>>

(* A break, the camera off, a rest, a low battery; the engine that errored *)
TickPauses(l) ==
  /\ TickIsDue(l) /\ ~slLoop[l].captureDenied
  /\ LoopBecomes(l, Scheduled(StallReset(slLoop[l])))
  /\ UNCHANGED <<slAttempt, slStash, slDropped, slEngine>>

TickFindsEngine(l) ==
  /\ TickIsDue(l) /\ ~slLoop[l].captureDenied /\ slView.aiOn
  /\ slEngine.state = "warming"
  /\ slLoop' = [slLoop EXCEPT ![l].tick = "warming"]
  /\ UNCHANGED <<slView, slAttempt, slStash, slDropped, slEngine>>

StatusRefreshed(l) ==
  /\ slLoop[l].tick = "warming"
  /\ LoopBecomes(l, Scheduled(Blocked(slLoop[l])))
  /\ UNCHANGED <<slAttempt, slStash, slDropped, slEngine>>

(* No camera track, or no screen left *)
TickLacksInput(l) ==
  /\ TickIsDue(l) /\ ~slLoop[l].captureDenied /\ slView.aiOn
  /\ slEngine.state = "healthy"
  /\ LoopBecomes(l, Scheduled(Blocked(slLoop[l])))
  /\ UNCHANGED <<slAttempt, slStash, slDropped, slEngine>>

(* snapshotScreens releases every display but the first after a demotion *)
TickCaptures(l) ==
  LET loop == slLoop[l]
      kept == IF slView.all THEN loop.held ELSE SubSeq(loop.held, 1, 1)
  IN /\ TickIsDue(l) /\ ~loop.captureDenied /\ slView.aiOn
     /\ slEngine.state = "healthy"
     /\ Capturable(l)
     /\ slLoop' = [slLoop EXCEPT ![l] =
          [loop EXCEPT !.tick = "capturing", !.port = slEngine.port, !.held = kept]]
     /\ slAttempt' = Stopped(Range(loop.held) \ Range(kept), slAttempt)
     /\ UNCHANGED <<slView, slStash, slDropped, slEngine>>

(* The port is read again after the capture; a moved one ends the tick *)
CaptureReturns(l) ==
  LET loop == slLoop[l]
  IN /\ loop.tick = "capturing"
     /\ LoopBecomes(l, CASE loop.stopped -> [loop EXCEPT !.tick = "idle"]
                     [] ~loop.stopped /\ slEngine = [state |-> "healthy", port |-> loop.port]
                          -> [loop EXCEPT !.tick = "asking", !.port = 0]
                     [] OTHER -> Scheduled(Blocked([loop EXCEPT !.port = 0])))
     /\ UNCHANGED <<slAttempt, slStash, slDropped, slEngine>>

CaptureFails(l) ==
  /\ slLoop[l].tick = "capturing"
  /\ LoopBecomes(l, Scheduled(Blocked([slLoop[l] EXCEPT !.port = 0])))
  /\ UNCHANGED <<slAttempt, slStash, slDropped, slEngine>>

(* The engine answers; the answer of a stopped loop counts for nothing here *)
FrameAnswered(l) ==
  /\ slLoop[l].tick = "asking" /\ ~slLoop[l].stopped
  /\ LoopBecomes(l, [Resolved(slLoop[l]) EXCEPT !.tick = "reporting"])
  /\ UNCHANGED <<slAttempt, slStash, slDropped, slEngine>>

(* An error status, a rejected request, the deadline or the teardown's abort *)
AskFails(l) ==
  /\ slLoop[l].tick = "asking"
  /\ LoopBecomes(l, Scheduled(Blocked(slLoop[l])))
  /\ UNCHANGED <<slAttempt, slStash, slDropped, slEngine>>

(* dispatchScoreEventsBounded: the callback, which may never end, is waited
   for until its deadline or the teardown *)
ReportEnds(l) ==
  /\ slLoop[l].tick = "reporting"
  /\ LoopBecomes(l, Scheduled(slLoop[l]))
  /\ UNCHANGED <<slAttempt, slStash, slDropped, slEngine>>

DeadlineOnlyAborts(loop) == loop \* slip
DeadlineResolves(loop) == Scheduled(loop)

ReportDeadline(l) ==
  /\ slLoop[l].tick = "reporting"
  /\ LoopBecomes(l, DeadlineResolves(slLoop[l]))
  /\ UNCHANGED <<slAttempt, slStash, slDropped, slEngine>>

(* Two minutes without progress, and the watchdog's own timer *)
TwoMinutesPass(l) ==
  /\ slLoop[l].boot = "ready" /\ ~slLoop[l].stopped
  /\ ~slLoop[l].overdue
  /\ slLoop' = [slLoop EXCEPT ![l].overdue = TRUE]
  /\ UNCHANGED <<slView, slAttempt, slStash, slDropped, slEngine>>

StallTick(l) ==
  /\ slLoop[l].boot = "ready" /\ StallIsDue(slLoop[l])
  /\ LoopBecomes(l, Evaluated(slLoop[l]))
  /\ UNCHANGED <<slAttempt, slStash, slDropped, slEngine>>

(* onScreenTrackEnded: one display of several is dropped, the last one
   latches the denial.  A stream no loop holds ends unheard. *)
TrackEnds(a) ==
  /\ a \in Live
  /\ slAttempt' = [slAttempt EXCEPT ![a] = "over"]
  /\ LET holders == {l \in Loops : a \in Range(slLoop[l].held) /\ ~slLoop[l].captureDenied}
         left(l) == LiveHeld(slLoop[l]) \ {a}
     IN /\ slLoop' = [l \in Loops |->
             IF l \notin holders THEN slLoop[l]
             ELSE IF left(l) # {} THEN [slLoop[l] EXCEPT !.held = RemoveFirst(@, a)]
             ELSE [slLoop[l] EXCEPT !.captureDenied = TRUE]]
        /\ slView' = [slView EXCEPT !.denied = @ \/ \E l \in holders : left(l) = {}]
  /\ UNCHANGED <<slStash, slDropped, slEngine>>

(* The engine comes up, crashes onto a new port or gives up *)
EngineChanges ==
  /\ slEngine' \in {[state |-> "healthy", port |-> slEngine.port],
                    [state |-> "errored", port |-> slEngine.port]}
                   \cup {[state |-> "warming", port |-> q] : q \in {slEngine.port + 1} \cap 1..MaxSidecarPorts}
  /\ slEngine' # slEngine
  /\ UNCHANGED <<slView, slAttempt, slStash, slDropped, slLoop>>
-----------------------------------------------------------------------------
LoopStep(l) ==
  \/ EffectStarts(l)
  \/ \E b \in BOOLEAN : PreflightFails(l, b)
  \/ PreflightEnds(l) \/ Acquired(l)
  \/ \E b \in BOOLEAN : AcquireRefused(l, b)
  \/ AcquireTimesOut(l)
  \/ \E b \in BOOLEAN : EngineStarts(l, b)
  \/ BootEnds(l)
  \/ TickEnds(l) \/ TickPauses(l) \/ TickFindsEngine(l) \/ StatusRefreshed(l)
  \/ TickLacksInput(l) \/ TickCaptures(l)
  \/ CaptureReturns(l) \/ CaptureFails(l) \/ FrameAnswered(l) \/ AskFails(l)
  \/ ReportEnds(l) \/ ReportDeadline(l)
  \/ TwoMinutesPass(l) \/ StallTick(l)

SampleNext ==
  \/ \E l \in Loops : LoopStep(l)
  \/ EffectStops \/ AiOff \/ AiOn \/ CaptureRetry \/ Demote \/ Unmount
  \/ \E a \in Attempts : (\E b \in BOOLEAN : PickerAnswers(a, b)) \/ DroppedStops(a) \/ TrackEnds(a)
  \/ EngineChanges

(* Fair: what has a deadline or a timer of its own, and the frame grabber.
   The picker, the engine and the callback may keep a loop waiting for ever. *)
SampleFairness == \A l \in Loops :
  /\ WF_sampleVars(StatusRefreshed(l))
  /\ WF_sampleVars(CaptureReturns(l))
  /\ WF_sampleVars(AskFails(l))
  /\ WF_sampleVars(ReportDeadline(l))
  /\ WF_sampleVars(TwoMinutesPass(l))
  /\ WF_sampleVars(StallTick(l))

SampleSpec == SampleInit /\ [][SampleNext]_sampleVars /\ SampleFairness
-----------------------------------------------------------------------------
(* A live screen stream always has somebody who will stop it: the stash, a
   boot that waits for it, a callback that drops it, or a running loop.  The
   recording indicator does not outlive the session (sampleLoop.ts:1110-1180,
   1735-1780, captureScreen.ts:136-172). *)
NoOrphanCapture == \A a \in Live :
  \/ a \in slStash \cup slDropped
  \/ \E l \in Loops : slLoop[l].boot = "acquiring" /\ a \in slLoop[l].wants
  \/ \E l \in Loops : ~slLoop[l].stopped /\ a \in Range(slLoop[l].held)

(* The one chain of ticks of a running loop is never lost: after the boot a
   tick is armed or under way, unless a denial or the AI switch ended it
   (sampleLoop.ts:1291-1655, every way out of tick). *)
ChainIsAlive == \A l \in Loops :
  (slLoop[l].boot = "ready" /\ ~slLoop[l].stopped /\ slLoop[l].tick = "idle")
    => slLoop[l].captureDenied \/ ~slView.aiOn

(* The view says that readings stopped exactly while its loop has reported a
   stall, whatever pauses came between (sampleLoop.ts:935-1030). *)
NoticeIsTrue == \A l \in Loops :
  (slView.loop = l /\ ~slLoop[l].stopped) => slView.told = slLoop[l].stallReported

(* A running loop samples, and its capture and its notice are accounted for *)
SamplingIsSound == NoOrphanCapture /\ ChainIsAlive /\ NoticeIsTrue

(* A tick under way comes to its end, whoever it waits for *)
TicksEnd == \A l \in Loops :
  slLoop[l].tick \in Awaiting ~> slLoop[l].tick \notin Awaiting

(* A loop that stays blocked tells the user *)
StallIsTold == \A l \in Loops :
  (slLoop[l].boot = "ready" /\ slLoop[l].stallReason)
    ~> (slView.told \/ ~slLoop[l].stallReason \/ slLoop[l].stopped \/ slLoop[l].captureDenied)

(* The loop answers: its ticks end and its stalls are told *)
LoopAnswers == TicksEnd /\ StallIsTold
=============================================================================
