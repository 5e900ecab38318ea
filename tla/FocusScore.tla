----------------------------- MODULE FocusScore -----------------------------
(***************************************************************************)
(* The focus score of a session: the pure step of features/ai/scoreMachine  *)
(* and the tallies focusStore.ts keeps around it for the report.  A sample  *)
(* is [severity, onTopic]: what the model said and whether its on-topic     *)
(* confidence reached the floor of the settings.  The thresholds are read   *)
(* again at every sample, so a slider moves them in mid-streak.             *)
(***************************************************************************)
EXTENDS Integers, FiniteSets, Sequences, FiniteSetsExt

CONSTANTS InitialScore,  \* 100 in the code; smaller where the floor must be met
          MaxSamples,    \* samples of one session
          MaxMoves,      \* moves of a slider
          Judgments,     \* the samples of the instance
          Sliders        \* what the settings may hold: [warning, alert, gate]

OffTask == {"mild", "moderate", "blatant"}
Severities == OffTask \cup {"on_task", "uncertain"}

ASSUME FocusAssumption ==
  /\ InitialScore \in Nat
  /\ Judgments \subseteq [severity : Severities, onTopic : BOOLEAN]
  /\ MaxSamples \in Nat
  /\ MaxMoves \in Nat
  /\ Sliders \subseteq [warning : Int, alert : Int, gate : BOOLEAN]

VARIABLES
  fsMachine,   \* ScoreMachineState: [score, streak, alerted, warned]
  fsTally,     \* [total, onTask, skipped]
  fsEvents,    \* events of every sample so far, oldest first
  fsSliders,   \* the settings
  fsMoves,
  fsHistory    \* every sample with the settings it was judged under

focusVars == <<fsMachine, fsTally, fsEvents, fsSliders, fsMoves, fsHistory>>

Deduction == [s \in OffTask |-> CASE s = "mild" -> 2 [] s = "moderate" -> 5 [] OTHER -> 15]

-----------------------------------------------------------------------------
ClampTo(n, low, high) == IF n < low THEN low ELSE IF n > high THEN high ELSE n

(* normaliseThresholds *)
WarningAt(s) == ClampTo(s.warning, 2, 8)
AlertAt(s) ==
  LET a == ClampTo(s.alert, 3, 12)
  IN IF a <= WarningAt(s) THEN ClampTo(WarningAt(s) + 1, 3, 12) ELSE a

(* A sample nothing is done about: no verdict, or an off-task one the model
   itself does not believe while the gate of the confidence floor is on *)
IsUncertain(x, s) ==
  x.severity = "uncertain" \/ (x.severity \in OffTask /\ x.onTopic /\ s.gate)

Resting(score) == [score |-> score, streak |-> 0, alerted |-> FALSE, warned |-> FALSE]

(* step: at most one warning and one alert a streak *)
Unlatched(before, now) == FALSE \* slip
Latched(before, now) == before \/ now

OffTaskStep(m, x, s) ==
  LET streak == m.streak + 1
      warns  == ~m.warned /\ streak >= WarningAt(s)
      alerts == ~m.alerted /\ streak >= AlertAt(s)
      score  == IF alerts THEN Max({0, m.score - Deduction[x.severity]}) ELSE m.score
  IN [state |-> [score |-> score, streak |-> streak,
                 alerted |-> Latched(m.alerted, alerts), warned |-> Latched(m.warned, warns)],
      events |-> (IF warns THEN <<[type |-> "warning", score |-> m.score]>> ELSE <<>>)
                 \o (IF alerts THEN <<[type |-> "alert", score |-> score]>> ELSE <<>>)]

Step(m, x, s) ==
  CASE IsUncertain(x, s) -> [state |-> m, events |-> <<>>]
    [] ~IsUncertain(x, s) /\ x.severity = "on_task" -> [state |-> Resting(m.score), events |-> <<>>]
    [] OTHER -> OffTaskStep(m, x, s)
-----------------------------------------------------------------------------
FocusInit ==
  /\ fsMachine = Resting(InitialScore)
  /\ fsTally = [total |-> 0, onTask |-> 0, skipped |-> 0]
  /\ fsEvents = <<>>
  /\ fsSliders \in Sliders
  /\ fsMoves = 0
  /\ fsHistory = <<>>

(* applyJudgment *)
ApplyJudgment(x) ==
  LET r == Step(fsMachine, x, fsSliders)
      skipped == IsUncertain(x, fsSliders)
  IN /\ Len(fsHistory) < MaxSamples
     /\ fsMachine' = r.state
     /\ fsEvents' = fsEvents \o r.events
     /\ fsTally' = IF skipped THEN [fsTally EXCEPT !.skipped = @ + 1]
                   ELSE [fsTally EXCEPT !.total = @ + 1,
                           !.onTask = @ + (IF x.severity = "on_task" THEN 1 ELSE 0)]
     /\ fsHistory' = Append(fsHistory, [x |-> x, s |-> fsSliders])
     /\ UNCHANGED <<fsSliders, fsMoves>>

(* A slider of the settings moves *)
SliderMoves(s) ==
  /\ fsMoves < MaxMoves
  /\ s # fsSliders
  /\ fsSliders' = s
  /\ fsMoves' = fsMoves + 1
  /\ UNCHANGED <<fsMachine, fsTally, fsEvents, fsHistory>>

(* resetFocusForSessionStart, unless the session is rejoined *)
FocusReset ==
  /\ fsHistory # <<>>
  /\ fsMachine' = Resting(InitialScore)
  /\ fsTally' = [total |-> 0, onTask |-> 0, skipped |-> 0]
  /\ fsEvents' = <<>>
  /\ fsHistory' = <<>>
  /\ UNCHANGED <<fsSliders, fsMoves>>

FocusNext ==
  \/ \E x \in Judgments : ApplyJudgment(x)
  \/ \E s \in Sliders : SliderMoves(s)
  \/ FocusReset

FocusSpec == FocusInit /\ [][FocusNext]_focusVars
-----------------------------------------------------------------------------
(* The reference, read off the whole history.  The documented rule is one   *)
(* alert and one deduction a bout: a bout is a longest run of off-task      *)
(* samples once the uncertain ones are left out (scoreMachine.ts:10-32).    *)

Told == {i \in DOMAIN fsHistory : ~IsUncertain(fsHistory[i].x, fsHistory[i].s)}
Away == {i \in Told : fsHistory[i].x.severity # "on_task"}

(* The samples of the bout of i up to i itself *)
BoutUpTo(i) ==
  {j \in Away : j <= i /\ \A k \in Told : (j <= k /\ k <= i) => k \in Away}

Crosses(i, at(_)) ==
  /\ i \in Away
  /\ Cardinality(BoutUpTo(i)) >= at(fsHistory[i].s)
  /\ \A j \in BoutUpTo(i) \ {i} : Cardinality(BoutUpTo(j)) < at(fsHistory[j].s)

AlertedAt == {i \in DOMAIN fsHistory : Crosses(i, AlertAt)}
WarnedAt == {i \in DOMAIN fsHistory : Crosses(i, WarningAt)}

(* What the alerts cost, severity by severity *)
AlertedFor(severity) ==
  Cardinality({i \in AlertedAt : fsHistory[i].x.severity = severity})

Lost == Deduction["mild"] * AlertedFor("mild")
        + Deduction["moderate"] * AlertedFor("moderate")
        + Deduction["blatant"] * AlertedFor("blatant")

EventsOf(type) == Cardinality({k \in DOMAIN fsEvents : fsEvents[k].type = type})

(* The score is what the bouts of the session cost, each once and at the
   severity that crossed the threshold, whatever flaky answers and slider
   moves came in between; every bout warns and alerts at most once, and the
   report's tallies count every sample in exactly one place. *)
ScoreIsExplained ==
  /\ fsMachine.score = Max({0, InitialScore - Lost})
  /\ Cardinality(AlertedAt) = EventsOf("alert")
  /\ Cardinality(WarnedAt) = EventsOf("warning")

TalliesAreExact ==
  /\ fsTally.total = Cardinality(Told)
  /\ fsTally.onTask = Cardinality(Told \ Away)
  /\ fsTally.total + fsTally.skipped = Len(fsHistory)

(* A warning comes first: no bout alerts before it has warned, even when a
   slider moves between the two *)
WarnedFirst == \A i \in AlertedAt : \E j \in BoutUpTo(i) : j \in WarnedAt

ReportIsExplained == ScoreIsExplained /\ TalliesAreExact /\ WarnedFirst
=============================================================================
