----------------------------- MODULE MCSession ------------------------------
(* Three parts of a session that keep time, side by side: the shared timer  *)
(* among three members, push to talk with two presses of the key, and a     *)
(* sampling loop with two capture requests.  One runs, the others stand     *)
(* still.                                                                   *)
EXTENDS Pomodoro, PushToTalk, SampleLoop

VARIABLE part

allVars == <<part, vars, pttVars, sampleVars>>

Alone(p, A) ==
  /\ part = p /\ A
  /\ UNCHANGED part
  /\ p # "timer" => UNCHANGED vars
  /\ p # "key" => UNCHANGED pttVars
  /\ p # "loop" => UNCHANGED sampleVars

(* A part that stands still has one initial state.                          *)
MCInit ==
  /\ part \in {"timer", "key", "loop"}
  /\ Init /\ PttInit /\ SampleInit
  /\ part = "key" \/ ~mac

MCNext == Alone("timer", Next) \/ Alone("key", PttNext) \/ Alone("loop", SampleNext)

(* The fairness of each part, when it is the one that runs.                 *)
TimerFairness == \A p \in Members :
  /\ WF_vars(part = "timer" /\ Tick(p)) /\ WF_vars(part = "timer" /\ SilenceExpires(p))
  /\ \A q \in Members : /\ WF_vars(part = "timer" /\ Hello(p, q))
                        /\ WF_vars(part = "timer" /\ Receive(p, q))

KeyFairness ==
  /\ WF_pttVars(part = "key" /\ HearsEdge) /\ WF_pttVars(part = "key" /\ HearsLevel)
  /\ WF_pttVars(part = "key" /\ WatcherPolls) /\ WF_pttVars(part = "key" /\ CleansUp)
  /\ WF_pttVars(part = "key" /\ Arms) /\ WF_pttVars(part = "key" /\ CaptureEnds)
  /\ WF_pttVars(part = "key" /\ ~mac /\ HoldExpires)

LoopFairness == \A l \in Loops :
  /\ WF_sampleVars(part = "loop" /\ StatusRefreshed(l))
  /\ WF_sampleVars(part = "loop" /\ CaptureReturns(l))
  /\ WF_sampleVars(part = "loop" /\ AskFails(l))
  /\ WF_sampleVars(part = "loop" /\ ReportDeadline(l))
  /\ WF_sampleVars(part = "loop" /\ TwoMinutesPass(l))
  /\ WF_sampleVars(part = "loop" /\ StallTick(l))

MCSpec ==
  MCInit /\ [][MCNext]_allVars /\ TimerFairness /\ KeyFairness /\ LoopFairness
=============================================================================
