------------------------------- MODULE Breaks -------------------------------
(***************************************************************************)
(* Breaks of a session (features/session/break.ts, features/ai/breakStore   *)
(* and the effects of SessionView that call them): requests wait in one     *)
(* queue of the process, each audited before the rules are asked; an        *)
(* approved break is ended by a timer that only the end of the session      *)
(* cancels.  Requests, audits and timers of a session that has ended meet   *)
(* the state of the next one.  Time is a clock that passes when it likes.   *)
(***************************************************************************)
EXTENDS Naturals, Sequences

CONSTANTS MaxBreakStints,     \* sessions entered, one after the other
          MaxRequests,   \* requests of the whole run
          MaxTime,
          MinInterval,   \* MIN_BREAK_INTERVAL_MS
          MaxDuration,   \* MAX_BREAK_DURATION_SEC
          MaxBreaks,     \* MAX_BREAKS_PER_SESSION
          Wishes         \* durations asked for

ASSUME BreaksAssumption ==
  /\ {MaxBreakStints, MaxRequests, MaxTime, MaxBreaks} \subseteq Nat
  /\ {MinInterval, MaxDuration} \subseteq Nat \ {0}
  /\ Wishes \subseteq Nat

VARIABLES
  bkStint,     \* the session the view shows, 0 for none
  bkStore,     \* breakStore: [onBreak, endsAt, lastEnd, count]; 0 for no time
  bkTimer,     \* activeBreakTimer: {} or {time it fires}
  bkQueue,     \* breakRequestQueue: [stint, at, wish, advice, step]
  bkClock,
  bkStints,    \* sessions entered so far
  bkAsked,     \* requests so far
  bkHistory    \* breaks of this stint: [from, to], to = 0 while it lasts

breakVars == <<bkStint, bkStore, bkTimer, bkQueue, bkClock, bkStints, bkAsked, bkHistory>>

NoBreak == [onBreak |-> FALSE, endsAt |-> 0, lastEnd |-> 0, count |-> 0]

BreaksInit ==
  /\ bkStint = 0
  /\ bkStore = NoBreak
  /\ bkTimer = {}
  /\ bkQueue = <<>>
  /\ bkClock = 1
  /\ bkStints = 0
  /\ bkAsked = 0
  /\ bkHistory = <<>>

-----------------------------------------------------------------------------
(* Two effects: the reset of the stores, and the listeners with the signal
   their requests carry.  A request is live while its session is shown. *)
SessionStarts ==
  /\ bkStint = 0
  /\ bkStints < MaxBreakStints
  /\ bkStints' = bkStints + 1
  /\ bkStint' = bkStints'
  /\ bkStore' = NoBreak
  /\ bkHistory' = <<>>
  /\ UNCHANGED <<bkTimer, bkQueue, bkClock, bkAsked>>

(* cancelActiveBreakTimer *)
NotCancelled == bkTimer \* slip
TimerCancelled == {}

SessionEnds ==
  /\ bkStint # 0
  /\ bkStint' = 0
  /\ bkTimer' = TimerCancelled
  /\ UNCHANGED <<bkStore, bkQueue, bkClock, bkStints, bkAsked, bkHistory>>

(* requestBreak *)
BreakAsked(wish, advice) ==
  /\ bkStint # 0
  /\ bkAsked < MaxRequests
  /\ bkAsked' = bkAsked + 1
  /\ bkQueue' = Append(bkQueue, [stint |-> bkStint, at |-> bkClock, wish |-> wish,
                                 advice |-> advice, step |-> "queued"])
  /\ UNCHANGED <<bkStint, bkStore, bkTimer, bkClock, bkStints, bkHistory>>

Aborted(r) == r.stint # bkStint

(* enqueueBreakRequest: the next request waits until this one has settled *)
Runs(step) == bkQueue # <<>> /\ Head(bkQueue).step = step
Waits(step) == bkQueue' = [bkQueue EXCEPT ![1].step = step]
Dequeues == bkQueue' = Tail(bkQueue)

(* requestBreakNow: the request is audited, or its signal ends it *)
Audits ==
  /\ Runs("queued")
  /\ IF Aborted(Head(bkQueue)) THEN Dequeues ELSE Waits("audit")
  /\ UNCHANGED <<bkStint, bkStore, bkTimer, bkClock, bkStints, bkAsked, bkHistory>>

(* evaluateBreakRules *)
RulesAllow(r) ==
  /\ ~bkStore.onBreak
  /\ bkStore.count < MaxBreaks
  /\ bkStore.lastEnd = 0 \/ (r.at >= bkStore.lastEnd /\ r.at - bkStore.lastEnd >= MinInterval)
  /\ r.advice
  /\ r.wish > 0

Duration(r) == IF r.wish < MaxDuration THEN r.wish ELSE MaxDuration

(* startApprovedBreak and the timer that will end it, in one step *)
Approved(r) ==
  /\ bkStore' = [bkStore EXCEPT !.onBreak = TRUE, !.count = @ + 1,
                                !.endsAt = bkClock + Duration(r)]
  /\ bkTimer' = {bkClock + Duration(r)}
  /\ bkHistory' = Append(bkHistory, [from |-> bkClock, to |-> 0])

(* The rules are asked once the audit has settled, on what holds by then *)
Decides ==
  LET r == Head(bkQueue)
  IN /\ Runs("audit")
     /\ IF Aborted(r)
        THEN Dequeues /\ UNCHANGED <<bkStore, bkTimer, bkHistory>>
        ELSE /\ Waits("verdict")
             /\ IF RulesAllow(r) THEN Approved(r)
                ELSE UNCHANGED <<bkStore, bkTimer, bkHistory>>
     /\ UNCHANGED <<bkStint, bkClock, bkStints, bkAsked>>

(* The verdict has been broadcast, or could not be *)
Announces ==
  /\ Runs("verdict")
  /\ Dequeues
  /\ UNCHANGED <<bkStint, bkStore, bkTimer, bkClock, bkStints, bkAsked, bkHistory>>

(* The deadline: endBreak *)
BreakEnds ==
  /\ \E t \in bkTimer : t <= bkClock
  /\ bkTimer' = {}
  /\ bkStore' = [bkStore EXCEPT !.onBreak = FALSE, !.endsAt = 0, !.lastEnd = bkClock]
  /\ bkHistory' = [i \in DOMAIN bkHistory |->
       IF bkHistory[i].to = 0 THEN [bkHistory[i] EXCEPT !.to = bkClock] ELSE bkHistory[i]]
  /\ UNCHANGED <<bkStint, bkQueue, bkClock, bkStints, bkAsked>>

TimePasses ==
  /\ bkClock < MaxTime
  /\ bkClock' = bkClock + 1
  /\ UNCHANGED <<bkStint, bkStore, bkTimer, bkQueue, bkStints, bkAsked, bkHistory>>

BreaksNext ==
  \/ SessionStarts \/ SessionEnds \/ BreakEnds \/ TimePasses
  \/ \E wish \in Wishes, advice \in BOOLEAN : BreakAsked(wish, advice)
  \/ Audits \/ Decides \/ Announces

BreaksSpec == BreaksInit /\ [][BreaksNext]_breakVars
-----------------------------------------------------------------------------
(* A break of the session that is shown has its timer, due when the store
   says: it can neither last for ever nor be ended by the timer of an earlier
   break or session (break.ts:316-345, 372-380). *)
BreakIsTimed ==
  /\ (bkStint # 0 /\ bkStore.onBreak) => bkTimer = {bkStore.endsAt}
  /\ bkTimer # {} => bkStint # 0 /\ bkStore.onBreak

(* No order of requests, audits and deadlines beats the rules: breaks of a
   stint are few, apart and never two at once (break.ts:10-18). *)
RulesHold ==
  /\ Len(bkHistory) <= MaxBreaks
  /\ \A i \in DOMAIN bkHistory : i > 1 =>
       /\ bkHistory[i-1].to # 0
       /\ bkHistory[i].from - bkHistory[i-1].to >= MinInterval

BreaksAreSound == BreakIsTimed /\ RulesHold
=============================================================================
