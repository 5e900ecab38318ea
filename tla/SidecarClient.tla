--------------------------- MODULE SidecarClient ----------------------------
(***************************************************************************)
(* The store of the user interface that owns the inference sidecar          *)
(* (features/ai/sidecar.ts): starts, stops and refreshes of the status are  *)
(* commands that the native shell answers whenever it gets to them, and a   *)
(* probe asks the server on its port for its health every two seconds.      *)
(*                                                                          *)
(* A port stands for one process of the server.  What the shell does is     *)
(* taken from Sidecar: a start reuses the child, a stop kills it and fails  *)
(* the starts that are under way, a watcher replaces a child that crashed.  *)
(***************************************************************************)
EXTENDS Naturals

CONSTANTS
  MaxPorts,     \* bound: processes spawned
  MaxUses,      \* bound: starts, stops and refreshes asked for
  MaxSlow       \* bound: probes that find the model still loading

ASSUME ClientAssumption == {MaxPorts, MaxUses, MaxSlow} \subseteq Nat

VARIABLES
  scStatus, scPort, scHealthy,   \* the store
  scPoll,       \* pollHandle is set
  scProbe,      \* pollingProbe: [port, answer], port 0: none
  scGen,        \* lifecycleGeneration
  scOwner,      \* inFlightStart: the generation it belongs to, or 0
  scWaiting,    \* starts that wait for the stop under way
  scStarts,     \* sidecar_start commands: [gen, pc, port]
  scStop,       \* inFlightStop: "none", "sent", "over" or "failed"
  scRefresh,    \* a refreshStatus: [pc, gen, before, status, port]
  scChild,      \* the shell: the child that runs, or 0
  scDown,       \* the shell: "no", or the child is down: "backoff", "gaveup"
  scSpawned,    \* number of processes so far
  scKilled,     \* history: processes that a stop has killed
  scAnswered,   \* history: processes that have answered a probe
  scUses, scSlow

scStore == <<scStatus, scPort, scHealthy, scPoll, scProbe>>
scCalls == <<scGen, scOwner, scWaiting, scStarts, scStop, scRefresh>>
scShell == <<scChild, scDown, scSpawned, scKilled>>
scBounds == <<scUses, scSlow>>
scVars == <<scStore, scCalls, scShell, scAnswered, scBounds>>

NoProbe == [port |-> 0, answer |-> FALSE]
NoRefresh == [pc |-> "none", gen |-> 0, before |-> "idle", status |-> "idle", port |-> 0]

ClientInit ==
  /\ scStatus = "idle" /\ scPort = 0 /\ scHealthy = FALSE
  /\ scPoll = FALSE /\ scProbe = NoProbe
  /\ scGen = 0 /\ scOwner = 0 /\ scWaiting = 0 /\ scStarts = {}
  /\ scStop = "none" /\ scRefresh = NoRefresh
  /\ scChild \in {0, 1} /\ scSpawned = scChild      \* 1: after a reload
  /\ scDown = "no" /\ scKilled = {} /\ scAnswered = {}
  /\ scUses = 0 /\ scSlow = 0

Use == scUses < MaxUses /\ scUses' = scUses + 1 /\ UNCHANGED scSlow

----------------------------------------------------------------------------
(* Polling.                                                                 *)

StopPolling ==
  /\ scProbe' = NoProbe
  /\ scPoll' = FALSE
  /\ scHealthy' = (scHealthy /\ ~scPoll)

Asks(port) == scProbe' = IF scProbe = NoProbe THEN [port |-> port, answer |-> FALSE]
                                              ELSE scProbe

(* ensurePollingStarted() with the port the store has now: the first probe  *)
(* goes out at once.                                                        *)
EnsurePolling(port) == IF scPoll \/ port = 0 THEN UNCHANGED <<scPoll, scProbe>>
                                             ELSE scPoll' = TRUE /\ Asks(port)

Tick ==
  /\ scPoll
  /\ IF scPort = 0 \/ scStatus # "running"
       THEN StopPolling
       ELSE Asks(scPort) /\ UNCHANGED <<scPoll, scHealthy>>
  /\ UNCHANGED <<scStatus, scPort, scCalls, scShell, scAnswered, scBounds>>

(* The server answers while it lives; it may be loading, or not in time.    *)
ServerAnswers ==
  /\ scProbe.port # 0 /\ scProbe.port = scChild /\ ~scProbe.answer
  /\ scProbe' = [scProbe EXCEPT !.answer = TRUE]
  /\ scAnswered' = scAnswered \union {scProbe.port}
  /\ UNCHANGED <<scStatus, scPort, scHealthy, scPoll, scCalls, scShell, scBounds>>

AnyPort == scStatus = "running"                      \* slip: port not compared
StillAsked == scStatus = "running" /\ scPort = scProbe.port

Settles == scProbe' = NoProbe

ProbeReturns ==
  /\ scProbe.port # 0
  /\ \/ scProbe.answer /\ UNCHANGED scSlow
     \/ ~scProbe.answer /\ scProbe.port # scChild /\ UNCHANGED scSlow
     \/ ~scProbe.answer /\ scProbe.port = scChild /\ scSlow < MaxSlow /\ scSlow' = scSlow + 1
  /\ scHealthy' = IF StillAsked THEN scProbe.answer ELSE scHealthy
  /\ Settles
  /\ UNCHANGED <<scStatus, scPort, scPoll, scCalls, scShell, scAnswered, scUses>>

----------------------------------------------------------------------------
(* start().                                                                 *)

(* A start whose own gate is closed clears an old error and nothing else.   *)
StartRefused ==
  /\ scStatus = "errored" /\ Use
  /\ scStatus' = "idle"
  /\ UNCHANGED <<scPort, scHealthy, scPoll, scProbe, scCalls, scShell, scAnswered>>

OwnsStart ==
  /\ scGen' = scGen + 1 /\ scOwner' = scGen + 1
  /\ scStatus' = "starting"
  /\ scStarts' = scStarts \union {[gen |-> scGen + 1, pc |-> "sent", port |-> 0]}

Joins == scStatus = "running" \/ (scStatus = "starting" /\ scOwner # 0)

MustWait == scStop # "none"

StartAsked ==
  /\ Use
  /\ IF MustWait
       THEN scWaiting' = scWaiting + 1 /\ UNCHANGED <<scStatus, scGen, scOwner, scStarts>>
       ELSE /\ ~Joins /\ OwnsStart
            /\ UNCHANGED scWaiting
  /\ UNCHANGED <<scPort, scHealthy, scPoll, scProbe, scStop, scRefresh, scShell, scAnswered>>

(* The stop is over: the gates are looked at again, or the start is blocked *)
(* by an error or by the next stop.                                         *)
StartResumes ==
  /\ scWaiting > 0 /\ (scStop = "none" \/ scStatus # "stopping")
  /\ scWaiting' = scWaiting - 1
  /\ IF scStatus \in {"errored", "stopping"} \/ Joins
       THEN UNCHANGED <<scStatus, scGen, scOwner, scStarts>>
       ELSE OwnsStart
  /\ UNCHANGED <<scPort, scHealthy, scPoll, scProbe, scStop, scRefresh, scShell,
                 scAnswered, scBounds>>

StillOwns(call) == call.gen = scGen /\ scStatus = "starting"

StartAnswered(call) ==
  /\ call.pc \in {"ok", "failed"}
  /\ scStarts' = scStarts \ {call}
  /\ scOwner' = IF scOwner = call.gen THEN 0 ELSE scOwner
  /\ \/ ~StillOwns(call) /\ UNCHANGED scStore
     \/ /\ StillOwns(call) /\ call.pc = "ok"
        /\ scStatus' = "running" /\ scPort' = call.port /\ scHealthy' = FALSE
        /\ EnsurePolling(call.port)
     \/ /\ StillOwns(call) /\ call.pc = "failed"
        /\ scStatus' = "errored" /\ UNCHANGED scPort
        /\ StopPolling
  /\ UNCHANGED <<scGen, scWaiting, scStop, scRefresh, scShell, scAnswered, scBounds>>

----------------------------------------------------------------------------
(* stop(), which joins the one under way.                                   *)
StopAsked ==
  /\ scStop = "none" /\ Use
  /\ scStop' = "sent" /\ scGen' = scGen + 1
  /\ scStatus' = "stopping" /\ UNCHANGED scPort
  /\ StopPolling
  /\ UNCHANGED <<scOwner, scWaiting, scStarts, scRefresh, scShell, scAnswered>>

StopReturns ==
  /\ scStop \in {"over", "failed"}
  /\ scStop' = "none"
  /\ \/ scStatus # "stopping" /\ UNCHANGED <<scStatus, scPort, scHealthy>>
     \/ /\ scStatus = "stopping" /\ scStop = "over"
        /\ scStatus' = "idle" /\ scPort' = 0 /\ scHealthy' = FALSE
     \/ /\ scStatus = "stopping" /\ scStop = "failed"
        /\ scStatus' = "errored" /\ UNCHANGED <<scPort, scHealthy>>
  /\ UNCHANGED <<scPoll, scProbe, scGen, scOwner, scWaiting, scStarts, scRefresh, scShell,
                 scAnswered, scBounds>>

----------------------------------------------------------------------------
(* refreshStatus().                                                         *)
RefreshBegins ==
  /\ scRefresh = NoRefresh /\ Use
  /\ scRefresh' = [NoRefresh EXCEPT !.pc = "sent", !.gen = scGen, !.before = scStatus]
  /\ UNCHANGED <<scStore, scGen, scOwner, scWaiting, scStarts, scStop, scShell, scAnswered>>

ResultIsStale == \/ scRefresh.gen # scGen \/ scRefresh.before # scStatus
                 \/ scOwner # 0 \/ scStop # "none"

RefreshReturns ==
  /\ scRefresh.pc = "over"
  /\ scRefresh' = NoRefresh
  /\ IF ResultIsStale
       THEN UNCHANGED scStore
       ELSE /\ scStatus' = scRefresh.status /\ scPort' = scRefresh.port
            /\ IF scRefresh.port # 0
                 THEN EnsurePolling(scRefresh.port) /\ UNCHANGED scHealthy
                 ELSE StopPolling
  /\ UNCHANGED <<scGen, scOwner, scWaiting, scStarts, scStop, scShell, scAnswered, scBounds>>

RefreshFails ==
  /\ scRefresh.pc = "sent" /\ scRefresh' = NoRefresh
  /\ UNCHANGED <<scStore, scGen, scOwner, scWaiting, scStarts, scStop, scShell, scAnswered,
                 scBounds>>

----------------------------------------------------------------------------
(* The shell.                                                               *)
Replies(call, pc, port) ==
  scStarts' = (scStarts \ {call}) \union {[gen |-> call.gen, pc |-> pc, port |-> port]}

Spawns == scSpawned < MaxPorts /\ scSpawned' = scSpawned + 1 /\ scChild' = scSpawned + 1
NoSpawn == UNCHANGED <<scSpawned, scChild>>

ShellStarts(call) ==
  /\ \/ call.pc \in {"sent", "starting"} /\ scChild # 0
        /\ Replies(call, "ok", scChild) /\ NoSpawn /\ UNCHANGED scDown
     \/ call.pc = "sent" /\ scChild = 0
        /\ Replies(call, "starting", 0) /\ NoSpawn /\ scDown' = "no"
     \/ call.pc = "starting" /\ scChild = 0
        /\ Spawns /\ Replies(call, "ok", scSpawned + 1) /\ scDown' = "no"
     \/ call.pc \in {"sent", "starting"}
        /\ Replies(call, "failed", 0) /\ NoSpawn /\ UNCHANGED scDown
  /\ UNCHANGED <<scStore, scGen, scOwner, scWaiting, scStop, scRefresh, scKilled,
                 scAnswered, scBounds>>

ShellStops ==
  /\ scStop = "sent"
  /\ \/ /\ scStop' = "over" /\ scDown' = "no"
        /\ scChild' = 0 /\ scKilled' = scKilled \union ({scChild} \ {0})
        /\ scStarts' = {IF call.pc = "starting" THEN [call EXCEPT !.pc = "failed"] ELSE call :
                         call \in scStarts}
     \/ scStop' = "failed" /\ UNCHANGED <<scDown, scChild, scKilled, scStarts>>
  /\ UNCHANGED <<scStore, scGen, scOwner, scWaiting, scRefresh, scSpawned, scAnswered,
                 scBounds>>

ShellReports ==
  /\ scRefresh.pc = "sent"
  /\ scRefresh' = [scRefresh EXCEPT !.pc = "over", !.port = scChild,
                     !.status = IF scDown = "gaveup" THEN "errored"
                                ELSE IF scChild # 0 THEN "running"
                                ELSE IF \E call \in scStarts : call.pc = "starting"
                                     THEN "starting" ELSE "idle"]
  /\ UNCHANGED <<scStore, scGen, scOwner, scWaiting, scStarts, scStop, scShell, scAnswered,
                 scBounds>>

(* A crash; after a moment the watcher replaces the child, or it gives up.  *)
ShellRespawns ==
  /\ \/ /\ scChild # 0
        /\ scChild' = 0 /\ scDown' \in {"backoff", "gaveup"} /\ UNCHANGED scSpawned
     \/ /\ scDown = "backoff"
        /\ \/ Spawns /\ scDown' = "no"
           \/ NoSpawn /\ scDown' = "gaveup"
  /\ UNCHANGED <<scStore, scCalls, scKilled, scAnswered, scBounds>>

----------------------------------------------------------------------------
ClientNext ==
  \/ Tick \/ ServerAnswers \/ ProbeReturns
  \/ StartRefused \/ StartAsked \/ StartResumes
  \/ \E call \in scStarts : StartAnswered(call) \/ ShellStarts(call)
  \/ StopAsked \/ StopReturns \/ RefreshBegins \/ RefreshReturns \/ RefreshFails
  \/ ShellStops \/ ShellReports \/ ShellRespawns

(* The timer ticks, a server that lives answers, and probes have a deadline.*)
ClientFairness ==
  WF_scVars(Tick) /\ WF_scVars(ServerAnswers) /\ WF_scVars(ProbeReturns)

ClientSpec == ClientInit /\ [][ClientNext]_scVars /\ ClientFairness

----------------------------------------------------------------------------
(* What the store calls running was not killed by a stop: a start never     *)
(* adopts the process that a stop of before is about to kill, nor does a    *)
(* snapshot taken before that stop bring it back.                           *)
RunningIsNotStopped == scStatus = "running" => scPort \notin scKilled

(* Health is that of the server at hand: it is reported only for one that   *)
(* runs, and becomes true only when the very process has answered.          *)
HealthIsAnswered ==
  [][scHealthy' => /\ scStatus' = "running"
                   /\ scHealthy \/ scPort' \in scAnswered]_scVars

(* A server that stays up is seen healthy: polling is on whenever one runs, *)
(* and no probe that was given up blocks the next ones.                     *)
ServerIsSeen ==
  <>[](scStatus = "running" /\ scPort = scChild) => <>[]scHealthy

(* What the store says of the server and its health is true, and its health *)
(* comes true.                                                              *)
ClientFollowsServer == []RunningIsNotStopped /\ HealthIsAnswered /\ ServerIsSeen
=============================================================================
