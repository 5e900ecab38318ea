------------------------------ MODULE Pomodoro ------------------------------
(***************************************************************************)
(* The shared study timer (features/session/pomodoro.ts): one member of the *)
(* session drives it and repeats its phase every five seconds; the others   *)
(* only display it.  When the driver falls silent for ten seconds, the      *)
(* member that has been in the session longest takes over.                  *)
(*                                                                          *)
(* A member is named by its place in the order all agree on (joined_at,     *)
(* then key); somebody who comes back later is another member.  The end of  *)
(* a phase is a number drawn when the phase begins.  What is said on one    *)
(* wire arrives in order, and is lost with its sender.                      *)
(***************************************************************************)
EXTENDS Integers, Sequences, SequencesExt, FiniteSets, FiniteSetsExt

CONSTANTS
  Members,      \* places in the order of arrival
  MaxPhases,    \* bound: phases begun, by starts and by transitions
  MaxLeaves,    \* bound: members that leave
  Orderly,      \* do members press Start, Stop and Leave one at a time?
  SlowNetwork   \* may the silence timer run out although somebody drives?

ASSUME MembersAssumption ==
  IsFiniteSet(Members) /\ Members \subseteq Nat \ {0}
ASSUME PomodoroBounds ==
  /\ MaxPhases \in Nat /\ MaxLeaves \in Nat
  /\ Orderly \in BOOLEAN /\ SlowNetwork \in BOOLEAN

Nobody == 0

VARIABLES
  room,         \* members in the session
  gone,         \* members that left
  knows,        \* knows[p]: members whose signed hello p has
  timer,        \* timer[p]: p's snapshot
  driving,      \* members whose broadcast and phase timers run
  fresh,        \* those of them that have spoken only once so far
  silence,      \* members whose silence timer runs
  wire,         \* wire[<<p, q>>]: messages from p to q
  phases,       \* number of phases begun so far
  stopped       \* ends of the phases in which a driver stopped the timer and
                \* was still there when its word arrived

vars == <<room, gone, knows, timer, driving, fresh, silence, wire, phases, stopped>>

Idle == [phase |-> "idle", ends |-> 0, by |-> Nobody]
Phases == {"work", "rest"}
Snapshots == {Idle} \union [phase : Phases, ends : 1..MaxPhases, by : Members]
Messages == [phase : Phases, ends : 1..MaxPhases, stop : BOOLEAN]

Pairs == Members \X Members

PomodoroTypeOK ==
  /\ room \subseteq Members /\ gone \subseteq Members \ room
  /\ knows \in [Members -> SUBSET Members]
  /\ timer \in [Members -> Snapshots]
  /\ fresh \subseteq driving /\ driving \subseteq room /\ silence \subseteq room
  /\ wire \in [Pairs -> Seq(Messages)]
  /\ phases \in 0..MaxPhases
  /\ stopped \subseteq 1..MaxPhases

Init ==
  /\ room = {} /\ gone = {}
  /\ knows = [p \in Members |-> {}]
  /\ timer = [p \in Members |-> Idle]
  /\ driving = {} /\ fresh = {} /\ silence = {}
  /\ wire = [w \in Pairs |-> <<>>]
  /\ phases = 0
  /\ stopped = {}

----------------------------------------------------------------------------
Message(t, stop) == [phase |-> t.phase, ends |-> t.ends, stop |-> stop]

(* action.send without a target: to every member in the room.               *)
Broadcast(p, m) ==
  wire' = [w \in Pairs |-> IF w[1] = p /\ w[2] \in room \ {p}
                             THEN Append(wire[w], m) ELSE wire[w]]

Drive(p) ==
  driving' = driving \union {p} /\ fresh' = fresh \union {p} /\ silence' = silence \ {p}
Quit(p) == driving' = driving \ {p} /\ fresh' = fresh \ {p}
Rest(p) == Quit(p) /\ silence' = silence \ {p}
Watch(p) == Quit(p) /\ silence' = silence \union {p}

(* pickNextBroadcaster, from what p knows.  There is always a successor: p   *)
(* itself stands in the order and never waits for itself (NobodyStranded),  *)
(* so the branch of the code that has none is dead.                         *)
NextDriver(p) == Min(({p} \union knows[p]) \ {timer[p].by})

Other(phase) == IF phase = "work" THEN "rest" ELSE "work"

----------------------------------------------------------------------------
(* The session.                                                             *)

Calm == \A w \in Pairs : wire[w] = <<>>
ShownByNone == \A p \in room : timer[p] = Idle

Enters(p) ==
  /\ p \notin room \union gone
  /\ \A q \in room \union gone : q < p
  /\ room' = room \union {p}
  /\ UNCHANGED <<gone, knows, timer, driving, fresh, silence, wire, phases, stopped>>

(* q's signed hello reaches p and is bound.                                 *)
Hello(p, q) ==
  /\ {p, q} \subseteq room /\ p # q /\ q \notin knows[p]
  /\ knows' = [knows EXCEPT ![p] = @ \union {q}]
  /\ UNCHANGED <<room, gone, timer, driving, fresh, silence, wire, phases, stopped>>

StopsOnTheWire(p) ==
  {m.ends : m \in {n \in UNION {Range(wire[<<p, q>>]) : q \in Members} : n.stop}}

(* teardown at p; the others lose its binding and what it had sent.         *)
Leaves(p) ==
  /\ p \in room /\ Cardinality(gone) < MaxLeaves
  /\ Orderly => /\ p \in driving => \A q \in room : timer[q].by = p
                /\ StopsOnTheWire(p) = {}
  /\ room' = room \ {p}
  /\ gone' = gone \union {p}
  /\ knows' = [q \in Members |-> IF q = p THEN {} ELSE knows[q] \ {p}]
  /\ timer' = [timer EXCEPT ![p] = Idle]
  /\ Rest(p)
  /\ wire' = [w \in Pairs |-> IF p \in {w[1], w[2]} THEN <<>> ELSE wire[w]]
  /\ stopped' = stopped \ StopsOnTheWire(p)
  /\ UNCHANGED phases

----------------------------------------------------------------------------
(* The controller.                                                          *)

(* start: a fresh timer, whatever was shown before.                         *)
Start(p) ==
  /\ p \in room /\ phases < MaxPhases
  /\ Orderly => Calm /\ ShownByNone
  /\ LET t == [phase |-> "work", ends |-> phases + 1, by |-> p] IN
     /\ timer' = [timer EXCEPT ![p] = t]
     /\ Broadcast(p, Message(t, FALSE))
  /\ Drive(p)
  /\ phases' = phases + 1
  /\ UNCHANGED <<room, gone, knows, stopped>>

StopSilently(p) ==                   \* slip: the driver stops without a word
  /\ p \in room /\ timer[p] # Idle
  /\ stopped' = IF timer[p].by = p THEN stopped \union {timer[p].ends}
                                   ELSE stopped
  /\ timer' = [timer EXCEPT ![p] = Idle]
  /\ Rest(p)
  /\ UNCHANGED <<room, gone, knows, wire, phases>>

(* stop: the driver tells the others; anybody else only stops to look.      *)
Stop(p) ==
  /\ p \in room /\ timer[p] # Idle
  /\ Orderly => timer[p].by \in driving
  /\ IF timer[p].by = p
       THEN /\ Broadcast(p, Message(timer[p], TRUE))
            /\ stopped' = stopped \union {timer[p].ends}
       ELSE UNCHANGED <<wire, stopped>>
  /\ timer' = [timer EXCEPT ![p] = Idle]
  /\ Rest(p)
  /\ UNCHANGED <<room, gone, knows, phases>>

(* Bound: what p said has arrived by the time its next timer fires.         *)
Heard(p) == \A q \in Members : wire[<<p, q>>] = <<>>

(* broadcastTick on its interval.                                           *)
Tick(p) ==
  /\ p \in driving /\ Heard(p)
  /\ Broadcast(p, Message(timer[p], FALSE))
  /\ fresh' = fresh \ {p}
  /\ UNCHANGED <<room, gone, knows, timer, driving, silence, phases, stopped>>

(* advancePhaseLocal: only the driver moves on to the next phase.           *)
Advance(p) ==
  /\ p \in driving /\ timer[p].by = p /\ phases < MaxPhases
  /\ LET t == [timer[p] EXCEPT !.phase = Other(@), !.ends = phases + 1] IN
     /\ timer' = [timer EXCEPT ![p] = t]
     /\ Broadcast(p, Message(t, FALSE))
  /\ phases' = phases + 1
  /\ fresh' = fresh \ {p}
  /\ UNCHANGED <<room, gone, knows, driving, silence, stopped>>

(* action.receive: a sender without a bound hello is ignored; a stop resets *)
(* whatever is shown; anything else is followed, and its sender trusted.    *)
Receive(p, q) ==
  LET m == Head(wire[<<q, p>>])
      t == [phase |-> m.phase, ends |-> m.ends, by |-> q]
  IN
  /\ wire[<<q, p>>] # <<>>
  /\ wire' = [wire EXCEPT ![<<q, p>>] = Tail(@)]
  /\ IF q \notin knows[p] THEN UNCHANGED <<timer, driving, fresh, silence>>
     ELSE IF m.stop THEN timer' = [timer EXCEPT ![p] = Idle] /\ Rest(p)
     ELSE timer' = [timer EXCEPT ![p] = t] /\ Watch(p)
  /\ UNCHANGED <<room, gone, knows, phases, stopped>>

(* Ten seconds without a word from the member d that p follows: d drives no  *)
(* more and all it said has arrived, or d has only just begun to drive      *)
(* again and its first word is still on its way.  Hellos are through.       *)
Silent(p) ==
  LET d == timer[p].by IN
  /\ d \notin driving \ fresh
  /\ d \in fresh <=> wire[<<d, p>>] # <<>>
  /\ \A q \in room \ {p} : q \in knows[p] /\ p \in knows[q]

SilenceExpiresOnce(p) ==             \* slip: give up when it is not our turn
  /\ p \in silence /\ Heard(p) /\ (SlowNetwork \/ Silent(p))
  /\ IF NextDriver(p) = p
       THEN /\ timer' = [timer EXCEPT ![p].by = p]
            /\ Broadcast(p, Message(timer[p], FALSE))
            /\ Drive(p)
       ELSE Rest(p) /\ UNCHANGED <<timer, wire>>
  /\ UNCHANGED <<room, gone, knows, phases, stopped>>

(* onSilenceExpired: take over the phase as it is shown, or wait for the    *)
(* one whose turn it is and look again.                                     *)
SilenceExpires(p) ==
  /\ p \in silence /\ Heard(p) /\ (SlowNetwork \/ Silent(p))
  /\ IF NextDriver(p) = p
       THEN /\ timer' = [timer EXCEPT ![p].by = p]
            /\ Broadcast(p, Message(timer[p], FALSE))
            /\ Drive(p)
       ELSE UNCHANGED <<timer, driving, fresh, silence, wire>>
  /\ UNCHANGED <<room, gone, knows, phases, stopped>>

Next ==
  \E p \in Members :
    \/ Enters(p) \/ Leaves(p)
    \/ Start(p) \/ Stop(p)
    \/ Tick(p) \/ Advance(p) \/ SilenceExpires(p)
    \/ \E q \in Members : Hello(p, q) \/ Receive(p, q)

Spec == Init /\ [][Next]_vars

(* Timers fire, and what is sent on a wire that stays up arrives.           *)
FairSpec ==
  /\ Spec
  /\ \A p \in Members :
       /\ WF_vars(Tick(p)) /\ WF_vars(SilenceExpires(p))
       /\ \A q \in Members : WF_vars(Hello(p, q)) /\ WF_vars(Receive(p, q))

----------------------------------------------------------------------------
(* Property: nobody stares at a dead timer.  Whatever a member shows, it    *)
(* either drives itself or watches for its driver's silence, never both;    *)
(* a member that shows none does neither.                                   *)
NobodyStranded ==
  \A p \in room : /\ timer[p] # Idle <=> p \in driving \union silence
                  /\ p \in driving => p \notin silence /\ timer[p].by = p
                  /\ p \in silence => timer[p].by # p

(* Property: a timer its driver stopped stays stopped.  When all has        *)
(* arrived nobody shows it any more, whoever had just taken it over or was  *)
(* just entering, as long as no other timer was started across it.          *)
StopIsFinal ==
  Calm => \A p \in room : timer[p].ends \notin stopped

(* Liveness: once the members stop pressing Stop they agree for good, on no *)
(* timer or on one that a single member drives, after a departure of the    *)
(* driver in the middle of a transition, late hellos and a Stop in between. *)
Agreed ==
  \/ ShownByNone
  \/ \E d \in room : driving = {d} /\ \A p \in room : timer[p] = timer[d]

TimersSettle ==
  <>[][\A p \in Members : ~Stop(p)]_vars => <>[]Agreed

(* Property: "the next-oldest peer takes over [...] rather than staring at a *)
(* frozen countdown".  A timer that is shown does not stay without a driver. *)
CountdownNeverFrozen == []<>(ShownByNone \/ driving # {})
=============================================================================
