------------------------------ MODULE Sidecar ------------------------------
(***************************************************************************)
(* The inference sidecar of the native shell (commands/sidecar.rs) with    *)
(* the commands that share its locks: removal and download of models       *)
(* (commands/models.rs) and the installation of the engine                 *)
(* (commands/engine.rs).                                                   *)
(*                                                                         *)
(* Every command is an asynchronous task of its own.  What a task does     *)
(* while it holds the lock of SidecarInner (here `guard`) is one action;   *)
(* between two awaits anything else may happen.  Lock order: the gates of  *)
(* the models, the gate of the engine, the lock.  A killed process may     *)
(* live on between the unlock and the kill: it is some task's `victim`.    *)
(***************************************************************************)
EXTENDS Integers, FiniteSets

CONSTANTS
  Starts,         \* calls of sidecar_start (each is made at most once)
  Stops,          \* calls of sidecar_stop
  Removes,        \* calls of model_remove
  Downloads,      \* calls of model_download
  Installs,       \* calls of engine_install
  Models,         \* managed models: numbers, in the order their gates are taken
  None,           \* no process, no model
  RestartBudget,  \* RESTART_BUDGET: short-lived respawns in a row
  TotalBudget,    \* TOTAL_RESTART_BUDGET: respawns of one generation
  MaxProcs,       \* bound: processes spawned
  MaxCalls        \* bound: commands called

Jobs == Starts \union Stops \union Removes \union Downloads \union Installs

ASSUME JobsAssumption ==
  /\ IsFiniteSet(Jobs) /\ Jobs \intersect Nat = {}
  /\ Starts \intersect (Stops \union Removes \union Downloads \union Installs) = {}
  /\ Stops \intersect (Removes \union Downloads \union Installs) = {}
  /\ Removes \intersect (Downloads \union Installs) = {}
  /\ Downloads \intersect Installs = {}
ASSUME ModelsAssumption == Models \subseteq Nat /\ IsFiniteSet(Models)
ASSUME NoneAssumption ==
  None \notin Jobs \union Nat /\ \A ids \in SUBSET Models : ids # None
ASSUME BudgetAssumption == {RestartBudget, TotalBudget, MaxProcs, MaxCalls} \subseteq Nat

VARIABLES
  guard,       \* SidecarInner (see FreshGuard)
  live,        \* processes of the engine that run: [id, ids]
  spawned,     \* number of processes so far: the next one's id
  job,         \* what each command is doing: [pc, ids, epoch, victim]
  watchers,    \* crash watchers: [gen, proc, ids, pc, streak, total]
  modelGate,   \* per model, the command that holds its operation gate
  engineGate,  \* EngineState::gate: a command, a watcher's generation or None
  disk,        \* managed models whose files are complete on disk
  engine,      \* an engine binary resolves
  cancels      \* DownloadState: per model, the registered download and its flag

sidecarVars == <<guard, live, spawned, job, watchers, modelGate, engineGate,
                 disk, engine, cancels>>

(* serves: the managed models of the child, {} for a custom file, None when *)
(* guard.model is None.  child: the handle, which may be of a dead process. *)
FreshGuard == [child |-> None, serves |-> None, generation |-> 0, epoch |-> 0,
               starting |-> 0, errored |-> FALSE, shuttingDown |-> FALSE]

Idle == [pc |-> "idle", ids |-> {}, epoch |-> 0, victim |-> None]
NotRegistered == [by |-> None, flag |-> FALSE]

SidecarInit ==
  /\ guard = FreshGuard
  /\ live = {} /\ spawned = 0
  /\ job = [j \in Jobs |-> Idle]
  /\ watchers = {}
  /\ modelGate = [m \in Models |-> None]
  /\ engineGate = None
  /\ disk \in SUBSET Models
  /\ engine \in BOOLEAN
  /\ cancels = [m \in Models |-> NotRegistered]

----------------------------------------------------------------------------
(* What the commands do to the guard and to their own state.               *)

KeepPendingStarts(g) == g                       \* slip: a stop leaves the epoch

CancelPendingStarts(g) == [g EXCEPT !.epoch = @ + 1, !.starting = 0]

(* take_child_and_wipe, without the child it returns.                      *)
Wiped(g) == [CancelPendingStarts(g) EXCEPT
               !.generation = @ + 1, !.child = None, !.serves = None,
               !.errored = FALSE]


MarkStarting(g) == [g EXCEPT !.starting = @ + 1, !.errored = FALSE]

UnmarkStarting(g, e) ==
  IF g.epoch = e /\ g.starting > 0 THEN [g EXCEPT !.starting = @ - 1] ELSE g

EpochValid(g, e) == g.epoch = e /\ ~g.shuttingDown

At(j, pc) == job[j].pc = pc
Called(j) == At(j, "idle") /\ Cardinality({k \in Jobs : ~At(k, "idle")}) < MaxCalls
Goes(j, pc) == job' = [job EXCEPT ![j].pc = pc]

Held(j) == {m \in Models : modelGate[m] = j}
KeptGates(j) == modelGate                        \* slip: a gate outlives its call

Released(j) == [m \in Models |-> IF modelGate[m] = j THEN None ELSE modelGate[m]]

(* The gates are taken one by one, in the order of the sorted ids.         *)
NextGate(j) ==
  LET missing == job[j].ids \ Held(j)
  IN  CHOOSE m \in missing : \A n \in missing : m <= n

TakeGate(j) ==
  /\ At(j, "waiting") /\ Held(j) # job[j].ids
  /\ modelGate[NextGate(j)] = None
  /\ modelGate' = [modelGate EXCEPT ![NextGate(j)] = j]
  /\ UNCHANGED <<guard, live, spawned, job, watchers, engineGate, disk, engine,
                 cancels>>

HasGates(j) == At(j, "waiting") /\ Held(j) = job[j].ids

----------------------------------------------------------------------------
(* sidecar_start.                                                          *)

(* The epoch is captured and the files are looked for before any gate.     *)
StartCaptured(c, ids) ==
  /\ Called(c)
  /\ job' = [job EXCEPT ![c] =
       [Idle EXCEPT !.ids = ids, !.epoch = guard.epoch,
          !.pc = IF ~guard.shuttingDown /\ ids \subseteq disk
                 THEN "waiting" ELSE "done"]]
  /\ UNCHANGED <<guard, live, spawned, watchers, modelGate, engineGate, disk,
                 engine, cancels>>

(* With the gates: a superseded call fails, a child that is there is       *)
(* reused, and metadata left by a watcher in its backoff is wiped.         *)
StartMarked(c) ==
  /\ HasGates(c)
  /\ IF ~EpochValid(guard, job[c].epoch) \/ guard.child # None
       THEN /\ Goes(c, "done")
            /\ modelGate' = Released(c)
            /\ UNCHANGED guard
       ELSE LET g == IF guard.serves # None THEN Wiped(guard) ELSE guard IN
            /\ guard' = MarkStarting(g)
            /\ job' = [job EXCEPT ![c].pc = "marked", ![c].epoch = g.epoch]
            /\ UNCHANGED modelGate
  /\ UNCHANGED <<live, spawned, watchers, engineGate, disk, engine, cancels>>

(* No engine resolves: without auto-install the start fails, otherwise it  *)
(* installs one under the engine gate and gives the gate back.             *)
StartWithoutEngine(c) ==
  /\ At(c, "marked") /\ ~engine
  /\ Goes(c, "returning")
  /\ UNCHANGED <<guard, live, spawned, watchers, modelGate, engineGate, disk,
                 engine, cancels>>

StartInstalls(c) ==
  /\ At(c, "marked") /\ ~engine /\ engineGate = None
  /\ engineGate' = c
  /\ Goes(c, "installing")
  /\ UNCHANGED <<guard, live, spawned, watchers, modelGate, disk, engine, cancels>>

StartInstalled(c) ==
  /\ At(c, "installing")
  /\ engineGate' = None
  /\ \/ engine' = TRUE /\ Goes(c, "marked")
     \/ UNCHANGED engine /\ Goes(c, "returning")
  /\ UNCHANGED <<guard, live, spawned, watchers, modelGate, disk, cancels>>

(* The engine gate, held from here through the spawn; the files are looked *)
(* for once more.                                                          *)
StartTakesEngine(c) ==
  /\ At(c, "marked") /\ engine /\ engineGate = None
  /\ IF job[c].ids \subseteq disk
       THEN engineGate' = c /\ Goes(c, "ready")
       ELSE UNCHANGED engineGate /\ Goes(c, "returning")
  /\ UNCHANGED <<guard, live, spawned, watchers, modelGate, disk, engine, cancels>>

NewProc(ids) == [id |-> spawned, ids |-> ids]

Spawn(g, ids) ==
  /\ spawned < MaxProcs /\ engine
  /\ spawned' = spawned + 1
  /\ live' = live \union {NewProc(ids)}
  /\ guard' = [g EXCEPT !.child = spawned, !.serves = ids]

(* Under the lock: validate, look for a child once more, count the         *)
(* generation and spawn, with a watcher for the new generation.            *)
StartSpawns(c) ==
  LET g == [guard EXCEPT !.generation = @ + 1] IN
  /\ At(c, "ready")
  /\ engineGate' = None
  /\ Goes(c, "returning")
  /\ \/ /\ ~EpochValid(guard, job[c].epoch) \/ guard.child # None
        /\ UNCHANGED <<guard, live, spawned, watchers>>
     \/ /\ EpochValid(guard, job[c].epoch) /\ guard.child = None
        /\ Spawn([g EXCEPT !.errored = FALSE], job[c].ids)
        /\ watchers' = watchers \union
             {[gen |-> g.generation, proc |-> spawned, ids |-> job[c].ids,
               pc |-> "watching", streak |-> 0, total |-> 0]}
     \/ /\ EpochValid(guard, job[c].epoch) /\ guard.child = None
        /\ guard' = g                                    \* the spawn failed
        /\ UNCHANGED <<live, spawned, watchers>>
  /\ UNCHANGED <<modelGate, disk, engine, cancels>>

StartReturns(c) ==
  /\ At(c, "returning")
  /\ guard' = UnmarkStarting(guard, job[c].epoch)
  /\ modelGate' = Released(c)
  /\ Goes(c, "done")
  /\ UNCHANGED <<live, spawned, watchers, engineGate, disk, engine, cancels>>

Start(c) ==
  \/ \E ids \in SUBSET Models : StartCaptured(c, ids)
  \/ TakeGate(c) \/ StartMarked(c) \/ StartWithoutEngine(c) \/ StartInstalls(c)
  \/ StartInstalled(c) \/ StartTakesEngine(c) \/ StartSpawns(c) \/ StartReturns(c)

----------------------------------------------------------------------------
(* Taking the child away and killing it.                                   *)

(* The child leaves the guard under the lock and is killed after it.       *)
TakesChild(j, pc) ==
  /\ guard' = Wiped(guard)
  /\ job' = [job EXCEPT ![j].pc = pc, ![j].victim = guard.child]

TakesChildIfServing(j, m, pc) ==
  IF guard.serves # None /\ m \in guard.serves
  THEN TakesChild(j, pc)
  ELSE Goes(j, pc) /\ UNCHANGED guard

Without(victim) == {p \in live : p.id # victim}

Kills(j, pc) ==
  /\ live' = Without(job[j].victim)
  /\ job' = [job EXCEPT ![j].pc = pc, ![j].victim = None]

(* sidecar_stop.                                                           *)
Stop(s) ==
  /\ \/ Called(s) /\ TakesChild(s, "killing") /\ UNCHANGED live
     \/ At(s, "killing") /\ Kills(s, "done") /\ UNCHANGED guard
  /\ UNCHANGED <<spawned, watchers, modelGate, engineGate, disk, engine, cancels>>

(* The process ends by itself.                                             *)
Crash(p) ==
  /\ p \in live
  /\ live' = live \ {p}
  /\ UNCHANGED <<guard, spawned, job, watchers, modelGate, engineGate, disk,
                 engine, cancels>>

(* kill_blocking, on the main thread: the child is killed under the lock.  *)
Exit ==
  /\ ~guard.shuttingDown
  /\ guard' = [CancelPendingStarts(guard) EXCEPT
                 !.generation = @ + 1, !.child = None, !.shuttingDown = TRUE]
  /\ live' = Without(guard.child)
  /\ UNCHANGED <<spawned, job, watchers, modelGate, engineGate, disk, engine,
                 cancels>>

----------------------------------------------------------------------------
(* model_remove: asks a download to stop, waits for the gate, takes the    *)
(* child away if it serves the model, and deletes the directory.           *)

Cancelled(m) ==
  IF cancels[m].by # None THEN [cancels EXCEPT ![m].flag = TRUE] ELSE cancels

RemoveRequested(r, m) ==
  /\ Called(r)
  /\ job' = [job EXCEPT ![r] = [Idle EXCEPT !.pc = "waiting", !.ids = {m}]]
  /\ cancels' = Cancelled(m)
  /\ UNCHANGED <<guard, live, spawned, watchers, modelGate, engineGate, disk, engine>>

RemoveStops(r) ==
  /\ HasGates(r)
  /\ \E m \in job[r].ids : TakesChildIfServing(r, m, "killing")
  /\ UNCHANGED <<live, spawned, watchers, modelGate, engineGate, disk, engine, cancels>>

RemoveKills(r) ==
  /\ At(r, "killing") /\ Kills(r, "deleting")
  /\ UNCHANGED <<guard, spawned, watchers, modelGate, engineGate, disk, engine, cancels>>

(* A directory that could not be deleted may have lost some of its files.  *)
RemoveDeletes(r) ==
  /\ At(r, "deleting")
  /\ disk' \in {disk \ job[r].ids, disk}
  /\ modelGate' = Released(r)
  /\ Goes(r, "done")
  /\ UNCHANGED <<guard, live, spawned, watchers, engineGate, engine, cancels>>

RemovalStarts(r) ==
  \/ \E m \in Models : RemoveRequested(r, m)
  \/ TakeGate(r) \/ RemoveStops(r) \/ RemoveKills(r) \/ RemoveDeletes(r)

----------------------------------------------------------------------------
(* model_download: registers its flag before it waits for the gate, and    *)
(* unregisters after it has given the gate back.                           *)

DownloadRegistered(d, m) ==
  /\ Called(d)
  /\ IF cancels[m].by # None
       THEN Goes(d, "done") /\ UNCHANGED cancels
       ELSE /\ job' = [job EXCEPT ![d] = [Idle EXCEPT !.pc = "waiting", !.ids = {m}]]
            /\ cancels' = [cancels EXCEPT ![m] = [by |-> d, flag |-> FALSE]]
  /\ UNCHANGED <<guard, live, spawned, watchers, modelGate, engineGate, disk, engine>>

DownloadStops(d) ==
  /\ HasGates(d)
  /\ \E m \in job[d].ids :
       IF cancels[m].flag
       THEN Goes(d, "ending") /\ modelGate' = Released(d) /\ UNCHANGED guard
       ELSE TakesChildIfServing(d, m, "killing") /\ UNCHANGED modelGate
  /\ UNCHANGED <<live, spawned, watchers, engineGate, disk, engine, cancels>>

DownloadKills(d) ==
  /\ At(d, "killing") /\ Kills(d, "writing")
  /\ UNCHANGED <<guard, spawned, watchers, modelGate, engineGate, disk, engine, cancels>>

(* Verified files are in place, or the download failed or was cancelled: a *)
(* file of the wrong content has then been removed, or nothing changed.    *)
DownloadEnds(d) ==
  /\ At(d, "writing")
  /\ disk' \in {disk \union job[d].ids, disk \ job[d].ids, disk}
  /\ modelGate' = Released(d)
  /\ Goes(d, "ending")
  /\ UNCHANGED <<guard, live, spawned, watchers, engineGate, engine, cancels>>

DownloadUnregistered(d) ==
  /\ At(d, "ending")
  /\ cancels' = [m \in Models |-> IF m \in job[d].ids THEN NotRegistered ELSE cancels[m]]
  /\ Goes(d, "done")
  /\ UNCHANGED <<guard, live, spawned, watchers, modelGate, engineGate, disk, engine>>

Download(d) ==
  \/ \E m \in Models : DownloadRegistered(d, m)
  \/ TakeGate(d) \/ DownloadStops(d) \/ DownloadKills(d) \/ DownloadEnds(d)
  \/ DownloadUnregistered(d)

(* model_download_cancel names the attempt it is about.                    *)
DownloadCancel(d) ==
  /\ \E m \in Models :
       cancels[m] = [by |-> d, flag |-> FALSE] /\ cancels' = [cancels EXCEPT ![m].flag = TRUE]
  /\ UNCHANGED <<guard, live, spawned, job, watchers, modelGate, engineGate, disk,
                 engine>>

----------------------------------------------------------------------------
(* engine_install: with the engine gate it stops the child, then moves the *)
(* old engine aside and the new one into its place.                        *)

InstallTakesGate(i) ==
  /\ Called(i) /\ engineGate = None
  /\ engineGate' = i
  /\ TakesChild(i, "killing")
  /\ UNCHANGED <<live, spawned, watchers, modelGate, disk, engine, cancels>>

InstallKills(i) ==
  /\ At(i, "killing") /\ Kills(i, "swapping")
  /\ UNCHANGED <<guard, spawned, watchers, modelGate, engineGate, disk, engine, cancels>>

InstallSwaps(i) ==
  /\ \/ At(i, "swapping") /\ engine' = FALSE /\ Goes(i, "promoting") /\ UNCHANGED engineGate
     \/ At(i, "swapping") /\ Goes(i, "done") /\ engineGate' = None /\ UNCHANGED engine
     \/ At(i, "promoting") /\ engine' = TRUE /\ Goes(i, "done") /\ engineGate' = None
  /\ UNCHANGED <<guard, live, spawned, watchers, modelGate, disk, cancels>>

Install(i) == InstallTakesGate(i) \/ InstallKills(i) \/ InstallSwaps(i)

----------------------------------------------------------------------------
(* watch: the watcher of one generation.                                   *)

CanAlways(w) == ~guard.shuttingDown              \* slip: ignore the generation

CanRespawn(w) == guard.generation = w.gen /\ ~guard.shuttingDown

Becomes(w, v) == watchers' = (watchers \ {w}) \union {v}
Ends(w) == watchers' = watchers \ {w}

(* A child that lived long starts the streak over.                         *)
NextAttempts(w) == {1, w.streak + 1}

GivesUp(g) == [g EXCEPT !.errored = TRUE]

(* The process is gone.  A watcher of the current generation forgets the   *)
(* handle and backs off, unless one of its two budgets is exhausted.       *)
WatcherSeesDeath(w) ==
  /\ w.pc = "watching" /\ \A p \in live : p.id # w.proc
  /\ IF ~CanRespawn(w)
       THEN Ends(w) /\ UNCHANGED guard
       ELSE \E n \in NextAttempts(w) :
              LET down == [guard EXCEPT !.child = None] IN
              IF w.total + 1 > TotalBudget \/ n > RestartBudget
              THEN guard' = GivesUp(down) /\ Ends(w)
              ELSE /\ guard' = down
                   /\ Becomes(w, [w EXCEPT !.pc = "backoff", !.streak = n,
                                           !.total = @ + 1])
  /\ UNCHANGED <<live, spawned, job, modelGate, engineGate, disk, engine, cancels>>

(* After the backoff: the engine gate, and a fresh look at the hardware.   *)
WatcherProbes(w) ==
  /\ w.pc = "backoff" /\ engineGate = None
  /\ engineGate' = w.gen
  /\ Becomes(w, [w EXCEPT !.pc = "probing"])
  /\ UNCHANGED <<guard, live, spawned, job, modelGate, disk, engine, cancels>>

(* Under the lock, kept through the spawn: other hardware, no port or a    *)
(* failed spawn end the watcher with an error.                             *)
WatcherRespawns(w) ==
  /\ w.pc = "probing"
  /\ engineGate' = None
  /\ \/ ~CanRespawn(w) /\ Ends(w) /\ UNCHANGED <<guard, live, spawned>>
     \/ CanRespawn(w) /\ Ends(w) /\ guard' = GivesUp(guard) /\ UNCHANGED <<live, spawned>>
     \/ /\ CanRespawn(w)
        /\ Spawn(guard, w.ids)
        /\ Becomes(w, [w EXCEPT !.pc = "watching", !.proc = spawned])
  /\ UNCHANGED <<job, modelGate, disk, engine, cancels>>

Watcher(w) == WatcherSeesDeath(w) \/ WatcherProbes(w) \/ WatcherRespawns(w)

----------------------------------------------------------------------------
SidecarNext ==
  \/ \E c \in Starts : Start(c)
  \/ \E s \in Stops : Stop(s)
  \/ \E r \in Removes : RemovalStarts(r)
  \/ \E d \in Downloads : Download(d) \/ DownloadCancel(d)
  \/ \E i \in Installs : Install(i)
  \/ \E w \in watchers : Watcher(w)
  \/ \E p \in live : Crash(p)
  \/ Exit

(* A task that has begun goes on (the runtime polls it when what it waits  *)
(* for is there); whether a call is made, and crashes, are left open.      *)
Proceeds(j) ==
  /\ ~At(j, "idle")
  /\ \/ j \in Starts /\ Start(j)
     \/ j \in Stops /\ Stop(j)
     \/ j \in Removes /\ RemovalStarts(j)
     \/ j \in Downloads /\ Download(j)
     \/ j \in Installs /\ Install(j)

SidecarFairness == WF_sidecarVars((\E j \in Jobs : Proceeds(j)) \/ \E w \in watchers : Watcher(w))

SidecarSpec == SidecarInit /\ [][SidecarNext]_sidecarVars /\ SidecarFairness

----------------------------------------------------------------------------
JobPcs == {"idle", "waiting", "marked", "installing", "ready", "returning",
           "killing", "deleting", "writing", "ending", "swapping", "promoting", "done"}
Procs == [id : 0..MaxProcs, ids : SUBSET Models]

SidecarTypeOK ==
  /\ guard \in [child : Nat \union {None}, serves : (SUBSET Models) \union {None},
                generation : Nat, epoch : Nat, starting : Nat,
                errored : BOOLEAN, shuttingDown : BOOLEAN]
  /\ live \subseteq Procs /\ spawned \in 0..MaxProcs
  /\ job \in [Jobs -> [pc : JobPcs, ids : SUBSET Models, epoch : Nat,
                       victim : Nat \union {None}]]
  /\ modelGate \in [Models -> Jobs \union {None}]
  /\ disk \subseteq Models /\ engine \in BOOLEAN

(* No process is lost: one that runs is the child of the guard, where stop *)
(* and exit find it, or on its way to be killed by the task that took it.  *)
NoStrayProcess ==
  \A p \in live : guard.child = p.id \/ \E j \in Jobs : job[j].victim = p.id

(* Files are deleted and written, and the engine is replaced, only while   *)
(* no process maps them, apart from one another command is about to kill.  *)
ReplacedFilesAreUnmapped ==
  \A j \in Jobs, p \in live :
    \/ \E k \in Jobs : job[k].victim = p.id
    \/ /\ job[j].pc \in {"deleting", "writing"} => job[j].ids \intersect p.ids = {}
       /\ job[j].pc \notin {"swapping", "promoting"}

(* `starting`, which the status reports, counts the calls that are under   *)
(* way since the last stop: it neither leaks nor hides one.                *)
StartingIsCounted ==
  guard.starting =
    Cardinality({c \in Starts : /\ job[c].pc \in {"marked", "installing", "ready", "returning"}
                                /\ job[c].epoch = guard.epoch})

(* The gates are never waited for in a circle: when no more calls are made *)
(* all of those made come to their end.                                    *)
Busy(j) == job[j].pc \notin {"idle", "done"}
CallsReturn == <>[](\A j \in Jobs : ~Busy(j))

(* The sidecar as OneServer sees it: what the live child serves, what the  *)
(* watcher of the current generation stands for, and the starts that no    *)
(* stop has outdated.                                                      *)
ServerUp ==
  IF \E p \in live : p.id = guard.child
  THEN (CHOOSE p \in live : p.id = guard.child).ids ELSE None
ServerStanding ==
  IF ~guard.shuttingDown /\ \E w \in watchers : w.gen = guard.generation
  THEN (CHOOSE w \in watchers : w.gen = guard.generation).ids ELSE None
ServerPermits ==
  {c \in Starts : /\ job[c].pc \in {"waiting", "marked", "installing", "ready"}
                  /\ EpochValid(guard, job[c].epoch)}
ServerClosed == guard.shuttingDown

(* What all this is for: the one server of OneServer.                      *)
One == INSTANCE OneServer WITH up <- ServerUp, standing <- ServerStanding,
                               permits <- ServerPermits, closed <- ServerClosed
OneServer == One!Spec

(* Every process, every file in use and every start is accounted for.       *)
ProcessesAreSound == NoStrayProcess /\ ReplacedFilesAreUnmapped /\ StartingIsCounted
=============================================================================
