-------------------------- MODULE InferenceProofs ---------------------------
(***************************************************************************)
(* Proofs about inference, for any number of commands, models, processes,  *)
(* loops, attempts and samples: the sidecar (Sidecar), which implements    *)
(* OneServer, the loop that samples and asks it (SampleLoop), and the      *)
(* score of the verdicts (FocusScore).                                     *)
(*                                                                         *)
(* That replaced files are unmapped is not inductive. It holds because a   *)
(* command that may write has the gate of its model, and what serves got   *)
(* its gates from a start that had them; because a respawn only serves     *)
(* again what the guard still names; and because the gate of the engine    *)
(* keeps a swap apart from every spawn. SidecarInv says so, for each point *)
(* a command can be at.                                                    *)
(*                                                                         *)
(* That no capture is orphaned is not inductive either: who waits for a    *)
(* stream has to be known from the moment it is asked for, and that one    *)
(* running loop alone is the view's. SampleInv says so.                    *)
(*                                                                         *)
(* That the report is what its samples say needs what the machine          *)
(* remembers of them: its streak is the length of the bout under way, and  *)
(* its flags say whether that bout has crossed a threshold. FocusInv says  *)
(* so.                                                                     *)
(***************************************************************************)
EXTENDS Sidecar, SampleLoop, FocusScore, FiniteSetTheorems, SequenceTheorems,
        WellFoundedInduction, TLAPS

Served == (SUBSET Models) \union {None}
Guards == [child : Nat \union {None}, serves : Served,
           generation : Nat, epoch : Nat, starting : Nat,
           errored : BOOLEAN, shuttingDown : BOOLEAN]
JobStates == [pc : JobPcs, ids : SUBSET Models, epoch : Nat, victim : Nat \union {None}]
Watches == [gen : Nat, proc : Nat, ids : SUBSET Models,
            pc : {"watching", "backoff", "probing"}, streak : Nat, total : Nat]

StartPcs == {"marked", "installing", "ready", "returning"}

(* The type invariant, with the points each kind of command can be at; a    *)
(* removal and a download are about one model.                              *)
KindsOfJobs ==
  /\ \A c \in Starts : job[c].pc \in StartPcs \union {"idle", "waiting", "done"}
  /\ \A s \in Stops : job[s].pc \in {"idle", "killing", "done"}
  /\ \A r \in Removes : job[r].pc \in {"idle", "waiting", "killing", "deleting", "done"}
  /\ \A d \in Downloads :
       job[d].pc \in {"idle", "waiting", "killing", "writing", "ending", "done"}
  /\ \A i \in Installs : job[i].pc \in {"idle", "killing", "swapping", "promoting", "done"}
  /\ \A j \in Removes \union Downloads : \A m, n \in job[j].ids : m = n

Typed ==
  /\ guard \in Guards /\ live \in SUBSET Procs /\ spawned \in 0..MaxProcs
  /\ job \in [Jobs -> JobStates] /\ KindsOfJobs
  /\ watchers \in SUBSET Watches
  /\ modelGate \in [Models -> Jobs \union {None}]
  /\ engineGate \in Jobs \union Nat \union {None}

(* A process has one number, and whoever took it away from the guard kills   *)
(* it alone.                                                                *)
OneChild ==
  /\ guard.child # None => guard.child < spawned /\ guard.serves # None
  /\ \A p \in live : p.id < spawned /\ (p.id = guard.child => p.ids = guard.serves)
  /\ \A p, q \in live : p.id = q.id => p = q
  /\ \A j \in Jobs : job[j].victim # None =>
       job[j].victim # guard.child /\ job[j].victim < spawned /\ job[j].pc = "killing"

(* The watcher of the current generation, of which there is one at most,    *)
(* knows what the guard serves and whether it has a child.                  *)
WatcherFollows ==
  /\ \A w \in watchers : w.gen <= guard.generation /\ w.proc < spawned
  /\ \A v, w \in watchers : v.gen = w.gen => v = w
  /\ \A w \in watchers : w.gen = guard.generation =>
       /\ guard.serves = w.ids
       /\ guard.child = IF w.pc = "watching" THEN w.proc ELSE None

(* A start keeps the gates of its models until it returns; a removal and a  *)
(* download keep the gate of theirs, which is not served while they do.     *)
GatesAreHeld ==
  /\ \A c \in Starts : job[c].pc \in StartPcs => \A m \in job[c].ids : modelGate[m] = c
  /\ \A j \in Removes \union Downloads : job[j].pc \in {"killing", "deleting", "writing"} =>
       \A m \in job[j].ids : modelGate[m] = j /\ (guard.serves = None \/ m \notin guard.serves)

(* Spawning, respawning and the swap of the engine exclude each other.      *)
EngineGateIsHeld ==
  /\ \A c \in Starts : job[c].pc \in {"installing", "ready"} => engineGate = c
  /\ \A i \in Installs : job[i].pc \in {"killing", "swapping", "promoting"} =>
       engineGate = i /\ guard.child = None
  /\ \A w \in watchers : w.pc = "probing" => engineGate = w.gen

Counted == {c \in Starts : job[c].pc \in StartPcs /\ job[c].epoch = guard.epoch}
StartsAreCounted ==
  /\ guard.starting = Cardinality(Counted)
  /\ \A c \in Starts : job[c].epoch <= guard.epoch

SidecarInv ==
  /\ Typed /\ OneChild /\ NoStrayProcess /\ WatcherFollows /\ GatesAreHeld
  /\ EngineGateIsHeld /\ StartsAreCounted

----------------------------------------------------------------------------
(* What the operations on the guard do to its fields.                       *)
LEMMA GuardOps ==
  ASSUME NEW g \in Guards
  PROVE  /\ LET h == CancelPendingStarts(g)
            IN  /\ h \in Guards /\ h.epoch = g.epoch + 1 /\ h.starting = 0
                /\ h.generation = g.generation /\ h.child = g.child /\ h.serves = g.serves
                /\ h.shuttingDown = g.shuttingDown
         /\ LET h == Wiped(g)
            IN  /\ h \in Guards /\ h.epoch = g.epoch + 1 /\ h.starting = 0
                /\ h.generation = g.generation + 1 /\ h.child = None /\ h.serves = None
                /\ h.shuttingDown = g.shuttingDown
         /\ LET h == MarkStarting(g)
            IN  /\ h \in Guards /\ h.epoch = g.epoch /\ h.starting = g.starting + 1
                /\ h.generation = g.generation /\ h.child = g.child /\ h.serves = g.serves
                /\ h.shuttingDown = g.shuttingDown
         /\ LET h == GivesUp(g)
            IN  /\ h \in Guards /\ h.epoch = g.epoch /\ h.starting = g.starting
                /\ h.generation = g.generation /\ h.child = g.child /\ h.serves = g.serves
                /\ h.shuttingDown = g.shuttingDown
<1> DEFINE c == CancelPendingStarts(g)
<1>0. g.epoch + 1 \in Nat /\ g.generation + 1 \in Nat /\ g.starting + 1 \in Nat
  BY DEF Guards
<1>1. /\ c \in Guards /\ c.epoch = g.epoch + 1 /\ c.starting = 0
      /\ c.generation = g.generation /\ c.child = g.child /\ c.serves = g.serves
      /\ c.shuttingDown = g.shuttingDown
  <2>1. c \in Guards
    BY <1>0 DEF Guards, CancelPendingStarts
  <2>2. /\ c.epoch = g.epoch + 1 /\ c.starting = 0
        /\ c.generation = g.generation /\ c.child = g.child /\ c.serves = g.serves
        /\ c.shuttingDown = g.shuttingDown
    BY DEF Guards, CancelPendingStarts
  <2> QED BY <2>1, <2>2
<1>2. Wiped(g) = [c EXCEPT !.generation = @ + 1, !.child = None, !.serves = None,
                           !.errored = FALSE]
  BY DEF Wiped
<1> HIDE DEF c
<1>3. LET h == Wiped(g)
      IN  /\ h \in Guards /\ h.epoch = g.epoch + 1 /\ h.starting = 0
          /\ h.generation = g.generation + 1 /\ h.child = None /\ h.serves = None
          /\ h.shuttingDown = g.shuttingDown
  <2>1. c.generation + 1 \in Nat
    BY <1>0, <1>1
  <2>2. Wiped(g) \in Guards
    <3> DEFINE b == [c EXCEPT !.generation = @ + 1, !.child = None]
    <3>1. b \in Guards
      BY <1>1, <2>1 DEF Guards
    <3>2. Wiped(g) = [b EXCEPT !.serves = None, !.errored = FALSE]
      BY <1>1, <1>2 DEF Guards
    <3> HIDE DEF b
    <3>3. None \in Served
      BY DEF Served
    <3> QED BY <3>1, <3>2, <3>3 DEF Guards
  <2> QED BY <1>1, <1>2, <2>2 DEF Guards
<1>4. LET h == MarkStarting(g)
      IN  /\ h \in Guards /\ h.epoch = g.epoch /\ h.starting = g.starting + 1
          /\ h.generation = g.generation /\ h.child = g.child /\ h.serves = g.serves
          /\ h.shuttingDown = g.shuttingDown
  <2>1. MarkStarting(g) \in Guards
    BY <1>0 DEF Guards, MarkStarting
  <2> QED BY <2>1 DEF Guards, MarkStarting
<1>5. LET h == GivesUp(g)
      IN  /\ h \in Guards /\ h.epoch = g.epoch /\ h.starting = g.starting
          /\ h.generation = g.generation /\ h.child = g.child /\ h.serves = g.serves
          /\ h.shuttingDown = g.shuttingDown
  BY DEF Guards, GivesUp
<1> QED BY <1>1, <1>3, <1>4, <1>5 DEF c

(* What a command's own step leaves of the others, and of itself.           *)
Alters(j, r) == /\ job' \in [Jobs -> JobStates] /\ job'[j] = r
                /\ \A k \in Jobs : k # j => job'[k] = job[k]

LEMMA JobGoes ==
  ASSUME Typed, NEW j \in Jobs, NEW pc \in JobPcs, Goes(j, pc)
  PROVE  /\ job' \in [Jobs -> JobStates]
         /\ job'[j].pc = pc /\ job'[j].ids = job[j].ids /\ job'[j].epoch = job[j].epoch
         /\ job'[j].victim = job[j].victim
         /\ \A k \in Jobs : k # j => job'[k] = job[k]
<1> DEFINE r == [job[j] EXCEPT !.pc = pc]
<1>1. job[j] \in JobStates
  BY DEF Typed
<1>2. /\ r \in JobStates /\ r.pc = pc /\ r.ids = job[j].ids /\ r.epoch = job[j].epoch
      /\ r.victim = job[j].victim
  BY <1>1 DEF JobStates
<1>3. job' = [job EXCEPT ![j] = r]
  BY DEF Goes
<1> HIDE DEF r
<1> QED BY <1>2, <1>3 DEF Typed

LEMMA JobKills ==
  ASSUME Typed, NEW j \in Jobs, NEW pc \in JobPcs, Kills(j, pc)
  PROVE  /\ live' = {p \in live : p.id # job[j].victim}
         /\ job' \in [Jobs -> JobStates]
         /\ job'[j].pc = pc /\ job'[j].ids = job[j].ids /\ job'[j].epoch = job[j].epoch
         /\ job'[j].victim = None
         /\ \A k \in Jobs : k # j => job'[k] = job[k]
<1> DEFINE r == [job[j] EXCEPT !.pc = pc, !.victim = None]
<1>1. job[j] \in JobStates
  BY DEF Typed
<1>2. /\ r \in JobStates /\ r.pc = pc /\ r.ids = job[j].ids /\ r.epoch = job[j].epoch
      /\ r.victim = None
  BY <1>1 DEF JobStates
<1>3. job' = [job EXCEPT ![j] = r]
  BY DEF Kills
<1> HIDE DEF r
<1> QED BY <1>2, <1>3 DEF Typed, Kills, Without

LEMMA JobTakes ==
  ASSUME Typed, NEW j \in Jobs, NEW pc \in JobPcs, TakesChild(j, pc)
  PROVE  /\ guard' \in Guards /\ guard'.child = None /\ guard'.serves = None
         /\ guard'.generation = guard.generation + 1 /\ guard'.epoch = guard.epoch + 1
         /\ guard'.starting = 0 /\ guard'.shuttingDown = guard.shuttingDown
         /\ job' \in [Jobs -> JobStates]
         /\ job'[j].pc = pc /\ job'[j].ids = job[j].ids /\ job'[j].epoch = job[j].epoch
         /\ job'[j].victim = guard.child
         /\ \A k \in Jobs : k # j => job'[k] = job[k]
<1> DEFINE r == [job[j] EXCEPT !.pc = pc, !.victim = guard.child]
<1>1. job[j] \in JobStates /\ guard.child \in Nat \union {None}
  BY DEF Typed, Guards
<1>2. /\ r \in JobStates /\ r.pc = pc /\ r.ids = job[j].ids /\ r.epoch = job[j].epoch
      /\ r.victim = guard.child
  BY <1>1 DEF JobStates
<1>3. job' = [job EXCEPT ![j] = r] /\ guard' = Wiped(guard) /\ guard \in Guards
  BY DEF TakesChild, Typed
<1> HIDE DEF r
<1> QED BY <1>2, <1>3, GuardOps DEF Typed

(* Steps that touch neither a process nor a victim.                         *)
LEMMA PassiveStep ==
  ASSUME SidecarInv, UNCHANGED <<live, spawned, watchers>>,
         guard'.child = guard.child, guard'.serves = guard.serves,
         guard'.generation = guard.generation,
         \A k \in Jobs : /\ job'[k].victim = job[k].victim
                         /\ job[k].victim # None => job'[k].pc = job[k].pc
  PROVE  OneChild' /\ NoStrayProcess' /\ WatcherFollows'
<1>1. OneChild'
  BY DEF SidecarInv, OneChild
<1>2. NoStrayProcess'
  BY DEF SidecarInv, NoStrayProcess
<1>3. WatcherFollows'
  BY DEF SidecarInv, WatcherFollows
<1> QED BY <1>1, <1>2, <1>3

(* Steps that neither begin nor end a counted start.                        *)
LEMMA SameCount ==
  ASSUME SidecarInv, guard'.epoch = guard.epoch, guard'.starting = guard.starting,
         \A c \in Starts : /\ job'[c].epoch <= guard.epoch
                           /\ job'[c].pc \in StartPcs /\ job'[c].epoch = guard.epoch
                                <=> job[c].pc \in StartPcs /\ job[c].epoch = guard.epoch
  PROVE  StartsAreCounted'
<1>1. Counted' = Counted
  BY DEF Counted
<1> QED BY <1>1 DEF SidecarInv, StartsAreCounted

(* After a stop no start is counted.                                        *)
LEMMA NoneCounted ==
  ASSUME SidecarInv, guard'.epoch = guard.epoch + 1, guard'.starting = 0,
         \A c \in Starts : job'[c].epoch = job[c].epoch
  PROVE  StartsAreCounted'
<1>1. \A c \in Starts : job[c].epoch \in Nat /\ job[c].epoch <= guard.epoch
  BY DEF SidecarInv, Typed, JobStates, Jobs, StartsAreCounted
<1>2. guard.epoch \in Nat
  BY DEF SidecarInv, Typed, Guards
<1>3. Counted' = {}
  BY <1>1, <1>2 DEF Counted
<1> QED BY <1>1, <1>2, <1>3, FS_EmptySet DEF StartsAreCounted

LEMMA CountedIsFinite == IsFiniteSet(Counted) /\ Cardinality(Counted) \in Nat
<1>1. IsFiniteSet(Jobs) /\ Counted \subseteq Jobs
  BY JobsAssumption DEF Counted, Jobs
<1> QED BY <1>1, FS_Subset, FS_CardinalityType

LEMMA SidecarInvInit == SidecarInit => SidecarInv
<1> SUFFICES ASSUME SidecarInit PROVE SidecarInv
  OBVIOUS
<1>1. FreshGuard \in Guards /\ FreshGuard.child = None /\ FreshGuard.starting = 0
  <2>1. FreshGuard \in Guards
    <3>1. 0 \in Nat /\ FALSE \in BOOLEAN /\ None \in Nat \union {None} /\ None \in Served
      BY DEF Served
    <3> QED BY <3>1, Zenon DEF FreshGuard, Guards
  <2> QED BY <2>1 DEF FreshGuard
<1>2. Idle \in JobStates /\ Idle.pc = "idle" /\ Idle.victim = None /\ Idle.epoch = 0
  BY DEF Idle, JobStates, JobPcs
<1>3. MaxProcs \in Nat
  BY BudgetAssumption
<1>4. \A j \in Jobs : job[j] = Idle
  BY DEF SidecarInit
<1>5. Typed
  <2>1. \A j \in Jobs : job[j].ids = {}
    BY <1>4 DEF Idle
  <2>2. KindsOfJobs
    BY <1>2, <1>4, <2>1 DEF KindsOfJobs, Jobs
  <2> QED BY <1>1, <1>2, <1>3, <2>2 DEF SidecarInit, Typed
<1>6. OneChild /\ NoStrayProcess /\ WatcherFollows
  BY <1>1, <1>2, <1>4 DEF SidecarInit, OneChild, NoStrayProcess, WatcherFollows
<1>7. GatesAreHeld /\ EngineGateIsHeld
  BY <1>2, <1>4 DEF SidecarInit, GatesAreHeld, EngineGateIsHeld, StartPcs, Jobs
<1>8. Counted = {}
  BY <1>2, <1>4 DEF Counted, StartPcs, Jobs
<1>9. StartsAreCounted
  BY <1>1, <1>2, <1>4, <1>8, FS_EmptySet DEF SidecarInit, StartsAreCounted, Jobs, FreshGuard
<1> QED BY <1>5, <1>6, <1>7, <1>9 DEF SidecarInv

----------------------------------------------------------------------------
(* sidecar_start.                                                          *)
LEMMA StartCapturedKeeps ==
  ASSUME SidecarInv, NEW c \in Starts, NEW ids \in SUBSET Models, StartCaptured(c, ids)
  PROVE  SidecarInv'
<1> USE DEF SidecarInv
<1> DEFINE pc == IF ~guard.shuttingDown /\ ids \subseteq disk THEN "waiting" ELSE "done"
           r == [Idle EXCEPT !.ids = ids, !.epoch = guard.epoch, !.pc = pc]
<1>1. /\ job' = [job EXCEPT ![c] = r] /\ job[c].pc = "idle"
      /\ UNCHANGED <<guard, live, spawned, watchers, modelGate, engineGate>>
  BY DEF StartCaptured, Called, At
<1>2. c \in Jobs /\ guard.epoch \in Nat /\ pc \in {"waiting", "done"}
  BY DEF Jobs, Typed, Guards
<1> HIDE DEF pc
<1>3. /\ r \in JobStates /\ r.pc = pc /\ r.epoch = guard.epoch /\ r.victim = None
  BY <1>2 DEF Idle, JobStates, JobPcs
<1> HIDE DEF r
<1>4. Alters(c, r)
  BY <1>1, <1>2, <1>3 DEF Alters, Typed
<1>5. job[c].victim = None
  BY <1>1, <1>2 DEF OneChild
<1>6. Typed'
  BY <1>1, <1>2, <1>3, <1>4, JobsAssumption DEF Alters, Typed, KindsOfJobs, Jobs
<1>7. OneChild' /\ NoStrayProcess' /\ WatcherFollows'
  BY <1>1, <1>3, <1>4, <1>5, PassiveStep DEF Alters
<1>8. GatesAreHeld' /\ EngineGateIsHeld'
  BY <1>1, <1>2, <1>3, <1>4, JobsAssumption
     DEF Alters, GatesAreHeld, EngineGateIsHeld, StartPcs, Jobs
<1>9. StartsAreCounted'
  BY <1>1, <1>2, <1>3, <1>4, SameCount DEF Alters, StartPcs, Jobs, StartsAreCounted
<1> QED BY <1>6, <1>7, <1>8, <1>9

(* Taking one gate takes it from nobody.                                    *)
LEMMA TakeGateKeeps ==
  ASSUME SidecarInv, NEW j \in Jobs, TakeGate(j) PROVE SidecarInv'
<1> USE DEF SidecarInv
<1>1. /\ modelGate' = [modelGate EXCEPT ![NextGate(j)] = j]
      /\ modelGate[NextGate(j)] = None
      /\ UNCHANGED <<guard, live, spawned, job, watchers, engineGate>>
  BY DEF TakeGate
<1>2. Typed'
  BY <1>1 DEF Typed, KindsOfJobs
<1>3. OneChild' /\ NoStrayProcess' /\ WatcherFollows'
  BY <1>1, PassiveStep
<1>4. GatesAreHeld'
  <2>1. \A m \in Models, k \in Jobs : modelGate[m] = k => modelGate'[m] = k
    BY <1>1, NoneAssumption DEF Typed
  <2>2. \A k \in Jobs : job[k].ids \subseteq Models
    BY DEF Typed, JobStates
  <2> QED BY <1>1, <2>1, <2>2 DEF GatesAreHeld, Jobs
<1>5. EngineGateIsHeld'
  BY <1>1 DEF EngineGateIsHeld
<1>6. StartsAreCounted'
  BY <1>1, SameCount DEF StartsAreCounted
<1> QED BY <1>2, <1>3, <1>4, <1>5, <1>6

(* Giving back the gates of a command that needs them no more.              *)
LEMMA GatesReleased ==
  ASSUME SidecarInv, NEW j \in Jobs
  PROVE  /\ Released(j) \in [Models -> Jobs \union {None}]
         /\ \A m \in Models, k \in Jobs : k # j /\ modelGate[m] = k => Released(j)[m] = k
BY DEF SidecarInv, Typed, Released

(* A child that is there is never lost to a start; what a watcher left is   *)
(* wiped, and with it the starts of before.                                 *)
LEMMA StartMarkedKeeps ==
  ASSUME SidecarInv, NEW c \in Starts, StartMarked(c) PROVE SidecarInv'
<1> USE DEF SidecarInv
<1>1. /\ job[c].pc = "waiting" /\ \A m \in job[c].ids : modelGate[m] = c
      /\ UNCHANGED <<live, spawned, watchers, engineGate>>
      /\ c \in Jobs
  BY DEF StartMarked, HasGates, At, Held, Jobs
<1>2. job[c].victim = None
  BY <1>1 DEF OneChild
<1>3. \A k \in Jobs : job[k].ids \subseteq Models
  BY DEF Typed, JobStates
<1>4. CASE Goes(c, "done") /\ modelGate' = Released(c) /\ UNCHANGED guard
  <2>1. /\ job' \in [Jobs -> JobStates] /\ job'[c].pc = "done"
        /\ job'[c].epoch = job[c].epoch /\ job'[c].victim = job[c].victim
        /\ \A k \in Jobs : k # c => job'[k] = job[k]
    BY <1>1, <1>4, JobGoes DEF JobPcs
  <2>2. Typed'
    BY <1>1, <1>4, <2>1, GatesReleased, JobsAssumption DEF Typed, KindsOfJobs, Jobs
  <2>3. OneChild' /\ NoStrayProcess' /\ WatcherFollows'
    BY <1>1, <1>2, <1>4, <2>1, PassiveStep
  <2>4. GatesAreHeld'
    BY <1>1, <1>3, <1>4, <2>1, GatesReleased, JobsAssumption DEF GatesAreHeld, StartPcs, Jobs
  <2>5. EngineGateIsHeld'
    BY <1>1, <1>4, <2>1, JobsAssumption DEF EngineGateIsHeld, Jobs
  <2>6. StartsAreCounted'
    BY <1>1, <1>4, <2>1, SameCount DEF StartPcs, Jobs, StartsAreCounted
  <2> QED BY <2>2, <2>3, <2>4, <2>5, <2>6
<1>5. CASE ~(~EpochValid(guard, job[c].epoch) \/ guard.child # None)
  <2> DEFINE g == IF guard.serves # None THEN Wiped(guard) ELSE guard
             r == [job[c] EXCEPT !.pc = "marked", !.epoch = g.epoch]
  <2>1. /\ guard' = MarkStarting(g) /\ job' = [job EXCEPT ![c] = r]
        /\ UNCHANGED modelGate
    BY <1>5 DEF StartMarked
  <2>2. guard.child = None /\ job[c].epoch = guard.epoch /\ guard \in Guards
    BY <1>5 DEF EpochValid, Typed
  <2>3. /\ g \in Guards /\ g.child = None /\ g.serves = None
        /\ \/ g = guard
           \/ g.epoch = guard.epoch + 1 /\ g.starting = 0
              /\ g.generation = guard.generation + 1
    BY <2>2, GuardOps
  <2> HIDE DEF g
  <2>4. /\ guard' \in Guards /\ guard'.child = None /\ guard'.serves = None
        /\ guard'.epoch = g.epoch /\ guard'.starting = g.starting + 1
        /\ guard'.generation = g.generation
    BY <2>1, <2>3, GuardOps
  <2>5. /\ r \in JobStates /\ r.pc = "marked" /\ r.epoch = g.epoch
        /\ r.victim = None /\ r.ids = job[c].ids
    <3>1. job[c] \in JobStates /\ g.epoch \in Nat /\ "marked" \in JobPcs
      BY <1>1, <2>3 DEF Typed, Guards, JobPcs
    <3> QED BY <1>2, <3>1 DEF JobStates
  <2> HIDE DEF r
  <2>6. Alters(c, r)
    BY <1>1, <2>1, <2>5 DEF Alters, Typed
  <2>7. Typed'
    BY <1>1, <2>1, <2>4, <2>5, <2>6, JobsAssumption
       DEF Alters, Typed, KindsOfJobs, Jobs, StartPcs
  <2>8. OneChild' /\ NoStrayProcess'
    <3>1. \A p \in live : p.id # None
      BY NoneAssumption DEF Typed, Procs
    <3>2. \A j \in Jobs : job'[j].victim = job[j].victim /\ (j # c => job'[j] = job[j])
      BY <1>2, <2>5, <2>6 DEF Alters
    <3>3. OneChild'
      BY <1>1, <1>2, <2>2, <2>4, <3>1, <3>2 DEF OneChild
    <3>4. NoStrayProcess'
      BY <1>1, <2>2, <3>1, <3>2 DEF NoStrayProcess
    <3> QED BY <3>3, <3>4
  <2>9. WatcherFollows'
    <3>1. \A w \in watchers : w.gen \in Nat /\ w.gen <= guard.generation
      BY DEF Typed, Watches, WatcherFollows
    <3>2. guard.generation \in Nat
      BY <2>2 DEF Guards
    <3>3. CASE g = guard
      BY <1>1, <2>2, <2>3, <2>4, <3>3 DEF WatcherFollows
    <3>4. CASE g.generation = guard.generation + 1
      BY <1>1, <2>4, <3>1, <3>2, <3>4 DEF WatcherFollows
    <3> QED BY <2>3, <3>3, <3>4
  <2>10. GatesAreHeld'
    BY <1>1, <2>1, <2>4, <2>5, <2>6, JobsAssumption DEF Alters, GatesAreHeld, StartPcs, Jobs
  <2>11. EngineGateIsHeld'
    BY <1>1, <2>2, <2>4, <2>5, <2>6, JobsAssumption DEF Alters, EngineGateIsHeld, Jobs
  <2>12. StartsAreCounted'
    <3>1. /\ \A d \in Starts : job[d].epoch \in Nat /\ job[d].epoch <= guard.epoch
          /\ guard.epoch \in Nat
      BY <2>2 DEF Typed, JobStates, Jobs, Guards, StartsAreCounted
    <3>2. CASE g = guard
      <4>1. Counted' = Counted \union {c} /\ c \notin Counted
        BY <1>1, <2>4, <2>5, <2>6, <3>2 DEF Alters, Counted, StartPcs, Jobs
      <4>2. Cardinality(Counted') = Cardinality(Counted) + 1
        BY <4>1, CountedIsFinite, FS_AddElement
      <4> QED BY <2>4, <2>5, <2>6, <3>1, <3>2, <4>2 DEF Alters, StartsAreCounted, Jobs
    <3>3. CASE g.epoch = guard.epoch + 1 /\ g.starting = 0
      <4>1. Counted' = {c}
        BY <1>1, <2>4, <2>5, <2>6, <3>1, <3>3 DEF Alters, Counted, StartPcs, Jobs
      <4>2. Cardinality(Counted') = 1
        BY <4>1, FS_Singleton
      <4> QED BY <2>4, <2>5, <2>6, <3>1, <3>3, <4>2 DEF Alters, StartsAreCounted, Jobs
    <3> QED BY <2>3, <3>2, <3>3
  <2> QED BY <2>7, <2>8, <2>9, <2>10, <2>11, <2>12
<1> QED BY <1>4, <1>5 DEF StartMarked

(* Steps of a counted start that only take or return the engine gate.       *)
LEMMA StartStepKeeps ==
  ASSUME SidecarInv, NEW c \in Starts, NEW pc \in StartPcs, Goes(c, pc),
         job[c].pc \in StartPcs,
         UNCHANGED <<guard, live, spawned, watchers, modelGate>>,
         \/ engineGate = None /\ engineGate' = c
         \/ engineGate' = engineGate /\ pc \notin {"installing", "ready"}
         \/ engineGate = c /\ engineGate' = None /\ pc \notin {"installing", "ready"}
  PROVE  SidecarInv'
<1> USE DEF SidecarInv
<1>1. c \in Jobs /\ pc \in JobPcs
  BY DEF Jobs, StartPcs, JobPcs
<1>2. /\ job' \in [Jobs -> JobStates] /\ job'[c].pc = pc /\ job'[c].ids = job[c].ids
      /\ job'[c].epoch = job[c].epoch /\ job'[c].victim = job[c].victim
      /\ \A k \in Jobs : k # c => job'[k] = job[k]
  BY <1>1, JobGoes
<1>3. job[c].victim = None
  BY <1>1 DEF OneChild, StartPcs
<1>4. Typed'
  BY <1>1, <1>2, JobsAssumption DEF Typed, KindsOfJobs, Jobs
<1>5. OneChild' /\ NoStrayProcess' /\ WatcherFollows'
  BY <1>2, <1>3, PassiveStep
<1>6. GatesAreHeld'
  BY <1>2, JobsAssumption DEF GatesAreHeld, Jobs
<1>7. EngineGateIsHeld'
  <2>1. \A k \in Jobs : k # None
    BY NoneAssumption
  <2>2. \A w \in watchers : w.gen # None /\ w.gen # c
    BY <1>1, JobsAssumption, NoneAssumption DEF Typed, Watches
  <2> QED BY <1>1, <1>2, <2>1, <2>2, JobsAssumption DEF EngineGateIsHeld, Jobs
<1>8. StartsAreCounted'
  BY <1>2, SameCount DEF Jobs, StartsAreCounted
<1> QED BY <1>4, <1>5, <1>6, <1>7, <1>8

(* Under the lock and the engine gate a new child gets a number of its own. *)
LEMMA StartSpawnsKeeps ==
  ASSUME SidecarInv, NEW c \in Starts, StartSpawns(c) PROVE SidecarInv'
<1> USE DEF SidecarInv
<1>1. /\ c \in Jobs /\ job[c].pc = "ready" /\ engineGate = c /\ engineGate' = None
      /\ Goes(c, "returning") /\ UNCHANGED modelGate
      /\ \A m \in job[c].ids : modelGate[m] = c
  BY DEF StartSpawns, At, Jobs, EngineGateIsHeld, GatesAreHeld, StartPcs
<1>2. CASE UNCHANGED <<guard, live, spawned, watchers>>
  BY <1>1, <1>2, StartStepKeeps DEF StartPcs
<1> DEFINE g == [guard EXCEPT !.generation = @ + 1]
<1>3. /\ g \in Guards /\ g.generation = guard.generation + 1 /\ g.child = guard.child
      /\ g.serves = guard.serves /\ g.epoch = guard.epoch /\ g.starting = guard.starting
      /\ guard.generation \in Nat
  BY DEF Typed, Guards
<1>4. /\ job' \in [Jobs -> JobStates] /\ job'[c].pc = "returning"
      /\ job'[c].ids = job[c].ids /\ job'[c].epoch = job[c].epoch
      /\ job'[c].victim = job[c].victim
      /\ \A k \in Jobs : k # c => job'[k] = job[k]
  BY <1>1, JobGoes DEF JobPcs
<1>5. /\ job[c] \in JobStates /\ job[c].victim = None
      /\ \A w \in watchers : /\ w \in Watches /\ w.gen <= guard.generation
                             /\ w.proc < spawned /\ w.pc # "probing"
  <2>1. \A w \in watchers : w.gen # c
    BY <1>1, JobsAssumption DEF Typed, Watches
  <2> QED BY <1>1, <2>1 DEF Typed, OneChild, WatcherFollows, EngineGateIsHeld
<1>6. \A i \in Installs : job[i].pc \notin {"killing", "swapping", "promoting"}
  BY <1>1, JobsAssumption DEF EngineGateIsHeld
<1>7. \A d \in Starts : d # c => job[d].pc \notin {"installing", "ready"}
  BY <1>1 DEF EngineGateIsHeld
<1>8. CASE guard.child = None /\ guard' = g /\ UNCHANGED <<live, spawned, watchers>>
  <2> HIDE DEF g
  <2>1. Typed'
    BY <1>1, <1>3, <1>4, <1>8, JobsAssumption DEF Typed, KindsOfJobs, Jobs, StartPcs
  <2>2. OneChild' /\ NoStrayProcess'
    BY <1>1, <1>3, <1>4, <1>5, <1>8 DEF OneChild, NoStrayProcess
  <2>3. \A w \in watchers : w.gen # guard.generation + 1 /\ w.gen <= guard.generation + 1
    BY <1>3, <1>5 DEF Watches
  <2>4. WatcherFollows'
    BY <1>3, <1>8, <2>3 DEF WatcherFollows
  <2>5. GatesAreHeld'
    BY <1>1, <1>3, <1>4, <1>8, JobsAssumption DEF GatesAreHeld, StartPcs, Jobs
  <2>6. EngineGateIsHeld'
    BY <1>1, <1>4, <1>5, <1>6, <1>7, <1>8, JobsAssumption DEF EngineGateIsHeld, Jobs
  <2>7. StartsAreCounted'
    BY <1>1, <1>3, <1>4, <1>8, SameCount DEF StartPcs, Jobs, StartsAreCounted
  <2> QED BY <2>1, <2>2, <2>4, <2>5, <2>6, <2>7
<1>9. CASE /\ guard.child = None
           /\ Spawn([g EXCEPT !.errored = FALSE], job[c].ids)
           /\ watchers' = watchers \union
                {[gen |-> g.generation, proc |-> spawned, ids |-> job[c].ids,
                  pc |-> "watching", streak |-> 0, total |-> 0]}
  <2> DEFINE w == [gen |-> g.generation, proc |-> spawned, ids |-> job[c].ids,
                   pc |-> "watching", streak |-> 0, total |-> 0]
             h == [g EXCEPT !.errored = FALSE]
             p == [id |-> spawned, ids |-> job[c].ids]
  <2>1. /\ job[c].ids \in SUBSET Models /\ spawned \in Nat /\ spawned < MaxProcs
        /\ spawned \in 0..MaxProcs /\ spawned + 1 \in 0..MaxProcs
    BY <1>5, <1>9, BudgetAssumption DEF JobStates, Spawn, Typed
  <2>2. /\ h \in Guards /\ h.generation = g.generation /\ h.epoch = g.epoch
        /\ h.starting = g.starting
    <3> HIDE DEF g
    <3> QED BY <1>3 DEF Guards
  <2>3. w \in Watches /\ w.gen = guard.generation + 1 /\ w.proc = spawned
        /\ w.ids = job[c].ids /\ w.pc = "watching"
    <3>1. g.generation = guard.generation + 1 /\ g.generation \in Nat
      BY <1>3
    <3> HIDE DEF g
    <3> QED BY <2>1, <3>1 DEF Watches
  <2>4. p \in Procs /\ p.id = spawned /\ p.ids = job[c].ids
    BY <2>1 DEF Procs
  <2>5. /\ spawned' = spawned + 1 /\ live' = live \union {p}
        /\ guard' = [h EXCEPT !.child = spawned, !.serves = job[c].ids]
        /\ watchers' = watchers \union {w}
    BY <1>9 DEF Spawn, NewProc
  <2> HIDE DEF g, h, w, p
  <2>6. /\ guard' \in Guards /\ guard'.child = spawned /\ guard'.serves = job[c].ids
        /\ guard'.generation = guard.generation + 1 /\ guard'.epoch = guard.epoch
        /\ guard'.starting = guard.starting
    <3>1. spawned \in Nat \union {None} /\ job[c].ids \in Served
      BY <2>1 DEF Served
    <3> QED BY <1>3, <2>2, <2>5, <3>1 DEF Guards
  <2>7. Typed'
    BY <1>1, <1>4, <2>1, <2>3, <2>4, <2>5, <2>6, JobsAssumption
       DEF Typed, KindsOfJobs, Jobs, StartPcs
  <2>8. \A q \in live : q.id \in Nat /\ q.id < spawned
    BY DEF Typed, Procs, OneChild
  <2>9. \A j \in Jobs : /\ job'[j].victim = job[j].victim
                        /\ job[j].victim # None =>
                             /\ job[j].victim < spawned /\ job[j].victim \in Nat
                             /\ job'[j].pc = "killing"
    BY <1>4, <1>5 DEF Typed, JobStates, OneChild
  <2>10. OneChild'
    <3>1. guard'.child < spawned' /\ guard'.serves # None
      BY <2>1, <2>5, <2>6, NoneAssumption
    <3>2. \A q \in live' : q.id < spawned' /\ (q.id = guard'.child => q.ids = guard'.serves)
      BY <2>1, <2>4, <2>5, <2>6, <2>8
    <3>3. \A q, r \in live' : q.id = r.id => q = r
      BY <2>1, <2>4, <2>5, <2>8 DEF OneChild
    <3>4. \A j \in Jobs : job'[j].victim # None =>
            /\ job'[j].victim # guard'.child /\ job'[j].victim < spawned'
            /\ job'[j].pc = "killing"
      BY <2>1, <2>5, <2>6, <2>9
    <3> QED BY <3>1, <3>2, <3>3, <3>4 DEF OneChild
  <2>11. NoStrayProcess'
    <3>1. \A q \in live : q.id # None
      BY <2>8, NoneAssumption
    <3> QED BY <1>9, <2>4, <2>5, <2>6, <2>9, <3>1 DEF NoStrayProcess
  <2>12. WatcherFollows'
    <3>1. \A v \in watchers : /\ v.gen # guard.generation + 1
                              /\ v.gen <= guard.generation + 1 /\ v.proc < spawned + 1
      BY <1>3, <1>5, <2>1 DEF Watches
    <3>2. spawned < spawned + 1
      BY <2>1
    <3> QED BY <1>3, <2>3, <2>5, <2>6, <3>1, <3>2 DEF WatcherFollows
  <2>13. GatesAreHeld'
    <3>1. ASSUME NEW j \in Removes \union Downloads,
                 job[j].pc \in {"killing", "deleting", "writing"}, NEW m \in job[j].ids
          PROVE  m \notin job[c].ids
      BY <1>1, <3>1, JobsAssumption DEF GatesAreHeld
    <3>2. \A j \in Removes \union Downloads : job'[j] = job[j]
      BY <1>4, JobsAssumption DEF Jobs
    <3> QED BY <1>1, <1>4, <2>6, <3>1, <3>2 DEF GatesAreHeld, StartPcs, Jobs
  <2>14. EngineGateIsHeld'
    BY <1>1, <1>4, <1>5, <1>6, <1>7, <2>3, <2>5, JobsAssumption DEF EngineGateIsHeld, Jobs
  <2>15. StartsAreCounted'
    BY <1>1, <1>4, <2>6, SameCount DEF StartPcs, Jobs, StartsAreCounted
  <2> QED BY <2>7, <2>10, <2>11, <2>12, <2>13, <2>14, <2>15
<1> QED BY <1>2, <1>8, <1>9 DEF StartSpawns

LEMMA StartReturnsKeeps ==
  ASSUME SidecarInv, NEW c \in Starts, StartReturns(c) PROVE SidecarInv'
<1> USE DEF SidecarInv
<1>1. /\ c \in Jobs /\ job[c].pc = "returning" /\ Goes(c, "done")
      /\ guard' = UnmarkStarting(guard, job[c].epoch) /\ modelGate' = Released(c)
      /\ UNCHANGED <<live, spawned, watchers, engineGate>>
  BY DEF StartReturns, At, Jobs
<1>2. /\ job' \in [Jobs -> JobStates] /\ job'[c].pc = "done"
      /\ job'[c].epoch = job[c].epoch /\ job'[c].victim = job[c].victim
      /\ \A k \in Jobs : k # c => job'[k] = job[k]
  BY <1>1, JobGoes DEF JobPcs
<1>3. job[c].victim = None /\ job[c].epoch \in Nat
  BY <1>1 DEF OneChild, Typed, JobStates
<1>4. guard \in Guards /\ guard.starting \in Nat
  BY DEF Typed, Guards
<1>5. /\ guard' \in Guards /\ guard'.child = guard.child /\ guard'.serves = guard.serves
      /\ guard'.generation = guard.generation /\ guard'.epoch = guard.epoch
      /\ guard'.starting = IF guard.epoch = job[c].epoch /\ guard.starting > 0
                             THEN guard.starting - 1 ELSE guard.starting
  <2> DEFINE h == [guard EXCEPT !.starting = @ - 1]
  <2>1. CASE guard.epoch = job[c].epoch /\ guard.starting > 0
    <3>1. guard' = h
      BY <1>1, <2>1 DEF UnmarkStarting
    <3>2. guard.starting - 1 \in Nat
      BY <1>4, <2>1
    <3>3. /\ h \in Guards /\ h.child = guard.child /\ h.serves = guard.serves
          /\ h.generation = guard.generation /\ h.epoch = guard.epoch
          /\ h.starting = guard.starting - 1
      BY <1>4, <3>2 DEF Guards
    <3> QED BY <2>1, <3>1, <3>3
  <2>2. CASE ~(guard.epoch = job[c].epoch /\ guard.starting > 0)
    BY <1>1, <1>4, <2>2 DEF UnmarkStarting
  <2> QED BY <2>1, <2>2
<1>6. Typed'
  BY <1>1, <1>2, <1>5, GatesReleased, JobsAssumption DEF Typed, KindsOfJobs, Jobs
<1>7. OneChild' /\ NoStrayProcess' /\ WatcherFollows'
  BY <1>1, <1>2, <1>3, <1>5, PassiveStep
<1>8. GatesAreHeld'
  <2>1. \A k \in Jobs : job[k].ids \subseteq Models
    BY DEF Typed, JobStates
  <2> QED BY <1>1, <1>2, <1>5, <2>1, GatesReleased, JobsAssumption DEF GatesAreHeld, StartPcs, Jobs
<1>9. EngineGateIsHeld'
  BY <1>1, <1>2, <1>5, JobsAssumption DEF EngineGateIsHeld, Jobs
<1>10. StartsAreCounted'
  <2>1. CASE job[c].epoch = guard.epoch
    <3>1. c \in Counted /\ Counted' = Counted \ {c}
      BY <1>1, <1>2, <1>5, <2>1 DEF Counted, StartPcs, Jobs
    <3>2. Cardinality(Counted') = Cardinality(Counted) - 1 /\ Cardinality(Counted) # 0
      BY <3>1, CountedIsFinite, FS_RemoveElement, FS_EmptySet
    <3>3. guard.starting = Cardinality(Counted) /\ guard.starting > 0
      BY <1>4, <3>2 DEF StartsAreCounted
    <3>4. \A d \in Starts : job'[d].epoch = job[d].epoch
      BY <1>2 DEF Jobs
    <3> QED BY <1>5, <2>1, <3>2, <3>3, <3>4 DEF StartsAreCounted
  <2>2. CASE job[c].epoch # guard.epoch
    <3>1. guard'.starting = guard.starting
      BY <1>5, <2>2
    <3> QED BY <1>1, <1>2, <1>5, <2>2, <3>1, SameCount DEF StartPcs, Jobs, StartsAreCounted
  <2> QED BY <2>1, <2>2
<1> QED BY <1>6, <1>7, <1>8, <1>9, <1>10

LEMMA StartKeeps ==
  ASSUME SidecarInv, NEW c \in Starts, Start(c) PROVE SidecarInv'
<1>1. ASSUME NEW ids \in SUBSET Models, StartCaptured(c, ids) PROVE SidecarInv'
  BY <1>1, StartCapturedKeeps
<1>2. CASE TakeGate(c)
  BY <1>2, TakeGateKeeps DEF Jobs
<1>3. CASE StartMarked(c)
  BY <1>3, StartMarkedKeeps
<1>4. CASE StartWithoutEngine(c)
  BY <1>4, StartStepKeeps DEF StartWithoutEngine, At, StartPcs
<1>5. CASE StartInstalls(c)
  BY <1>5, StartStepKeeps DEF StartInstalls, At, StartPcs
<1>6. CASE StartInstalled(c)
  <2>1. engineGate = c
    BY <1>6 DEF StartInstalled, At, SidecarInv, EngineGateIsHeld
  <2> QED BY <1>6, <2>1, StartStepKeeps DEF StartInstalled, At, StartPcs
<1>7. CASE StartTakesEngine(c)
  <2>1. PICK pc \in {"ready", "returning"} :
          /\ Goes(c, pc)
          /\ \/ engineGate = None /\ engineGate' = c
             \/ engineGate' = engineGate /\ pc = "returning"
    BY <1>7 DEF StartTakesEngine
  <2> QED BY <1>7, <2>1, StartStepKeeps DEF StartTakesEngine, At, StartPcs
<1>8. CASE StartSpawns(c)
  BY <1>8, StartSpawnsKeeps
<1>9. CASE StartReturns(c)
  BY <1>9, StartReturnsKeeps
<1> QED BY <1>1, <1>2, <1>3, <1>4, <1>5, <1>6, <1>7, <1>8, <1>9 DEF Start

----------------------------------------------------------------------------
(* The commands that stop.                                                  *)
Others == Stops \union Removes \union Downloads \union Installs
NextPc(j) == IF j \in Stops THEN "done" ELSE IF j \in Removes THEN "deleting"
             ELSE IF j \in Downloads THEN "writing" ELSE "swapping"

(* A command takes the child: what it took it alone will kill, no watcher   *)
(* of before goes on, and no start of before is counted.                    *)
LEMMA TakesKeeps ==
  ASSUME SidecarInv, NEW j \in Others, TakesChild(j, "killing"),
         job[j].pc \in {"idle", "waiting"},
         UNCHANGED <<live, spawned, watchers, modelGate>>,
         j \in Removes \union Downloads => \A m \in job[j].ids : modelGate[m] = j,
         IF j \in Installs THEN engineGate = None /\ engineGate' = j
                          ELSE engineGate' = engineGate
  PROVE  SidecarInv'
<1> USE DEF SidecarInv
<1>1. j \in Jobs /\ j \notin Starts
  BY JobsAssumption DEF Others, Jobs
<1>2. /\ guard' \in Guards /\ guard'.child = None /\ guard'.serves = None
      /\ guard'.generation = guard.generation + 1 /\ guard'.epoch = guard.epoch + 1
      /\ guard'.starting = 0
      /\ job' \in [Jobs -> JobStates]
      /\ job'[j].pc = "killing" /\ job'[j].ids = job[j].ids /\ job'[j].victim = guard.child
      /\ \A k \in Jobs : k # j => job'[k] = job[k]
  BY <1>1, JobTakes DEF JobPcs
<1>3. Typed'
  <2>1. \A i \in Installs : i # j => job'[i] = job[i]
    BY <1>2 DEF Jobs
  <2>2. engineGate' \in Jobs \union Nat \union {None}
    BY <1>1 DEF Typed
  <2>3. KindsOfJobs'
    BY <1>1, <1>2, JobsAssumption DEF Typed, KindsOfJobs, Jobs, Others
  <2> QED BY <1>2, <2>2, <2>3 DEF Typed
<1>4. job[j].victim = None
  BY <1>1 DEF OneChild
<1>5. \A p \in live : p.id # None
  BY NoneAssumption DEF Typed, Procs
<1>6. OneChild'
  BY <1>1, <1>2, <1>4, <1>5 DEF OneChild
<1>7. NoStrayProcess'
  BY <1>1, <1>2, <1>4, <1>5 DEF NoStrayProcess
<1>8. WatcherFollows'
  <2>1. \A w \in watchers : w.gen # guard.generation + 1 /\ w.gen <= guard.generation + 1
    BY DEF Typed, Watches, Guards, WatcherFollows
  <2> QED BY <1>2, <2>1 DEF WatcherFollows
<1>9. GatesAreHeld'
  BY <1>1, <1>2 DEF GatesAreHeld, Jobs
<1>10. EngineGateIsHeld'
  <2>1. \A k \in Jobs : k # None
    BY NoneAssumption
  <2>2. \A w \in watchers : w.gen # None
    BY NoneAssumption DEF Typed, Watches
  <2> QED BY <1>1, <1>2, <2>1, <2>2, JobsAssumption DEF EngineGateIsHeld, Jobs
<1>11. StartsAreCounted'
  BY <1>1, <1>2, NoneCounted DEF Jobs
<1> QED BY <1>3, <1>6, <1>7, <1>8, <1>9, <1>10, <1>11

(* There was nothing to take, or the model is not served.                   *)
LEMMA NothingTaken ==
  ASSUME SidecarInv, NEW j \in Removes \union Downloads, Goes(j, "killing"),
         job[j].pc = "waiting",
         \A m \in job[j].ids : modelGate[m] = j /\ (guard.serves = None \/ m \notin guard.serves),
         UNCHANGED <<guard, live, spawned, watchers, modelGate, engineGate>>
  PROVE  SidecarInv'
<1> USE DEF SidecarInv
<1>1. j \in Jobs /\ j \notin Starts /\ j \notin Installs /\ j \notin Stops
  BY JobsAssumption DEF Jobs
<1>2. /\ job' \in [Jobs -> JobStates]
      /\ job'[j].pc = "killing" /\ job'[j].ids = job[j].ids
      /\ job'[j].victim = job[j].victim
      /\ \A k \in Jobs : k # j => job'[k] = job[k]
  BY <1>1, JobGoes DEF JobPcs
<1>3. Typed'
  BY <1>1, <1>2, JobsAssumption DEF Typed, KindsOfJobs, Jobs
<1>4. job[j].victim = None
  BY <1>1 DEF OneChild
<1>5. OneChild' /\ NoStrayProcess' /\ WatcherFollows'
  BY <1>2, <1>4, PassiveStep
<1>6. GatesAreHeld' /\ EngineGateIsHeld'
  BY <1>1, <1>2 DEF GatesAreHeld, EngineGateIsHeld, Jobs
<1>7. StartsAreCounted'
  BY <1>1, <1>2, SameCount DEF Jobs, StartsAreCounted
<1> QED BY <1>3, <1>5, <1>6, <1>7

(* A removal or a download has the gate of its one model, and takes the     *)
(* child if it serves that.                                                 *)
LEMMA ServedOrNot ==
  ASSUME SidecarInv, NEW j \in Removes \union Downloads, HasGates(j),
         \E m \in job[j].ids : TakesChildIfServing(j, m, "killing"),
         UNCHANGED <<live, spawned, watchers, modelGate, engineGate>>
  PROVE  SidecarInv'
<1>1. PICK m \in job[j].ids : TakesChildIfServing(j, m, "killing")
  OBVIOUS
<1>2. job[j].pc = "waiting" /\ \A n \in job[j].ids : modelGate[n] = j
  BY DEF HasGates, At, Held
<1>3. j \in Others /\ j \notin Installs
  BY JobsAssumption DEF Others
<1>4. CASE TakesChild(j, "killing")
  BY <1>2, <1>3, <1>4, TakesKeeps
<1>5. CASE Goes(j, "killing") /\ UNCHANGED guard /\ ~(guard.serves # None /\ m \in guard.serves)
  <2>1. \A n \in job[j].ids : n = m
    BY DEF SidecarInv, Typed, KindsOfJobs
  <2> QED BY <1>2, <1>5, <2>1, NothingTaken
<1> QED BY <1>1, <1>4, <1>5 DEF TakesChildIfServing

LEMMA KillsKeeps ==
  ASSUME SidecarInv, NEW j \in Others, job[j].pc = "killing", Kills(j, NextPc(j)),
         UNCHANGED <<guard, spawned, watchers, modelGate, engineGate>>
  PROVE  SidecarInv'
<1> USE DEF SidecarInv
<1>1. j \in Jobs /\ j \notin Starts
  BY JobsAssumption DEF Others, Jobs
<1>2. /\ live' = {p \in live : p.id # job[j].victim}
      /\ job' \in [Jobs -> JobStates]
      /\ job'[j].pc = NextPc(j) /\ job'[j].ids = job[j].ids
      /\ job'[j].victim = None
      /\ \A k \in Jobs : k # j => job'[k] = job[k]
  <2>1. NextPc(j) \in JobPcs
    BY DEF NextPc, JobPcs
  <2> QED BY <1>1, <2>1, JobKills
<1>3. Typed'
  <2>1. KindsOfJobs'
    BY <1>1, <1>2, JobsAssumption DEF Typed, KindsOfJobs, Jobs, Others, NextPc
  <2> QED BY <1>2, <2>1 DEF Typed
<1>4. OneChild'
  BY <1>1, <1>2 DEF OneChild
<1>5. NoStrayProcess'
  BY <1>1, <1>2 DEF NoStrayProcess
<1>6. WatcherFollows'
  BY DEF WatcherFollows
<1>7. GatesAreHeld'
  BY <1>1, <1>2 DEF GatesAreHeld, Jobs
<1>8. EngineGateIsHeld'
  BY <1>1, <1>2 DEF EngineGateIsHeld, Jobs
<1>9. StartsAreCounted'
  BY <1>1, <1>2, SameCount DEF Jobs, StartsAreCounted
<1> QED BY <1>3, <1>4, <1>5, <1>6, <1>7, <1>8, <1>9

(* The last steps of a command, with which it gives its gates back.         *)
LEMMA EndsKeeps ==
  ASSUME SidecarInv, NEW j \in Others, NEW pc \in {"done", "ending", "promoting"},
         Goes(j, pc), job[j].pc # "killing", pc = "promoting" => j \in Installs,
         pc = "ending" => j \in Downloads, j \notin Stops,
         UNCHANGED <<guard, live, spawned, watchers>>,
         modelGate' = modelGate \/ modelGate' = Released(j),
         \/ engineGate' = engineGate
         \/ engineGate' = None /\ pc = "done" /\ j \in Installs
            /\ job[j].pc \in {"swapping", "promoting"},
         pc = "promoting" => job[j].pc = "swapping"
  PROVE  SidecarInv'
<1> USE DEF SidecarInv
<1>1. j \in Jobs /\ j \notin Starts /\ pc \in JobPcs
  BY JobsAssumption DEF Others, Jobs, JobPcs
<1>2. /\ job' \in [Jobs -> JobStates]
      /\ job'[j].pc = pc /\ job'[j].ids = job[j].ids
      /\ job'[j].victim = job[j].victim
      /\ \A k \in Jobs : k # j => job'[k] = job[k]
  BY <1>1, JobGoes
<1>3. Typed'
  <2>1. KindsOfJobs'
    BY <1>1, <1>2, JobsAssumption DEF Typed, KindsOfJobs, Jobs, Others
  <2>2. modelGate' \in [Models -> Jobs \union {None}]
    BY <1>1, GatesReleased DEF Typed
  <2> QED BY <1>2, <2>1, <2>2 DEF Typed
<1>4. job[j].victim = None
  BY <1>1 DEF OneChild
<1>5. OneChild' /\ NoStrayProcess' /\ WatcherFollows'
  BY <1>2, <1>4, PassiveStep
<1>6. GatesAreHeld'
  <2>1. \A m \in Models, k \in Jobs : k # j /\ modelGate[m] = k => modelGate'[m] = k
    BY <1>1, GatesReleased
  <2>2. \A k \in Jobs : job[k].ids \subseteq Models
    BY DEF Typed, JobStates
  <2> QED BY <1>1, <1>2, <2>1, <2>2 DEF GatesAreHeld, Jobs
<1>7. EngineGateIsHeld'
  <2>1. CASE engineGate' = engineGate
    BY <1>1, <1>2, <2>1 DEF EngineGateIsHeld, Jobs
  <2>2. CASE engineGate' = None /\ j \in Installs /\ job[j].pc \in {"swapping", "promoting"}
             /\ pc = "done"
    <3>1. engineGate = j
      BY <2>2 DEF EngineGateIsHeld
    <3>2. \A w \in watchers : w.gen # j
      BY <1>1, JobsAssumption DEF Typed, Watches
    <3> QED BY <1>1, <1>2, <2>2, <3>1, <3>2, JobsAssumption DEF EngineGateIsHeld, Jobs
  <2> QED BY <2>1, <2>2
<1>8. StartsAreCounted'
  BY <1>1, <1>2, SameCount DEF Jobs, StartsAreCounted
<1> QED BY <1>3, <1>5, <1>6, <1>7, <1>8

(* A removal or a download that is called waits for a gate.                 *)
LEMMA RequestKeeps ==
  ASSUME SidecarInv, NEW j \in Removes \union Downloads, NEW m \in Models, job[j].pc = "idle",
         job' = [job EXCEPT ![j] = [Idle EXCEPT !.pc = "waiting", !.ids = {m}]],
         UNCHANGED <<guard, live, spawned, watchers, modelGate, engineGate>>
  PROVE  SidecarInv'
<1> USE DEF SidecarInv
<1> DEFINE r == [Idle EXCEPT !.pc = "waiting", !.ids = {m}]
<1>1. j \in Jobs /\ j \notin Starts /\ j \notin Installs /\ j \notin Stops
  BY JobsAssumption DEF Jobs
<1>2. r \in JobStates /\ r.pc = "waiting" /\ r.victim = None
  BY DEF Idle, JobStates, JobPcs
<1> HIDE DEF r
<1>3. /\ job' \in [Jobs -> JobStates] /\ job'[j] = r
      /\ \A k \in Jobs : k # j => job'[k] = job[k]
  BY <1>1, <1>2 DEF Typed, r
<1>4. Typed'
  BY <1>1, <1>2, <1>3, JobsAssumption DEF Typed, KindsOfJobs, Jobs
<1>5. job[j].victim = None
  BY <1>1 DEF OneChild
<1>6. OneChild' /\ NoStrayProcess' /\ WatcherFollows'
  BY <1>2, <1>3, <1>5, PassiveStep
<1>7. GatesAreHeld' /\ EngineGateIsHeld'
  BY <1>1, <1>2, <1>3 DEF GatesAreHeld, EngineGateIsHeld, Jobs
<1>8. StartsAreCounted'
  BY <1>1, <1>3, SameCount DEF Jobs, StartsAreCounted
<1> QED BY <1>4, <1>6, <1>7, <1>8

LEMMA NothingChanges ==
  ASSUME SidecarInv,
         UNCHANGED <<guard, live, spawned, job, watchers, modelGate, engineGate>>
  PROVE  SidecarInv'
<1> USE DEF SidecarInv
<1>1. Typed'
  BY DEF Typed, KindsOfJobs
<1>2. OneChild' /\ NoStrayProcess' /\ WatcherFollows'
  BY DEF OneChild, NoStrayProcess, WatcherFollows
<1>3. GatesAreHeld' /\ EngineGateIsHeld' /\ StartsAreCounted'
  BY DEF GatesAreHeld, EngineGateIsHeld, StartsAreCounted, Counted
<1> QED BY <1>1, <1>2, <1>3

LEMMA OthersKeep ==
  ASSUME SidecarInv,
         \/ \E s \in Stops : Stop(s)
         \/ \E r \in Removes : RemovalStarts(r)
         \/ \E d \in Downloads : Download(d) \/ DownloadCancel(d)
         \/ \E i \in Installs : Install(i)
  PROVE  SidecarInv'
<1>1. ASSUME NEW s \in Stops, Stop(s) PROVE SidecarInv'
  <2>1. s \in Others /\ s \notin Removes \union Downloads /\ s \notin Installs /\ NextPc(s) = "done"
    BY JobsAssumption DEF Others, NextPc
  <2> QED BY <1>1, <2>1, TakesKeeps, KillsKeeps DEF Stop, Called, At
<1>2. ASSUME NEW r \in Removes, RemovalStarts(r) PROVE SidecarInv'
  <2>1. /\ r \in Others /\ r \in Jobs /\ r \notin Installs /\ r \notin Stops
        /\ NextPc(r) = "deleting"
    BY JobsAssumption DEF Others, Jobs, NextPc
  <2>2. ASSUME NEW m \in Models, RemoveRequested(r, m) PROVE SidecarInv'
    BY <2>2, RequestKeeps DEF RemoveRequested, Called, At
  <2>3. CASE RemoveStops(r)
    BY <2>1, <2>3, ServedOrNot DEF RemoveStops
  <2>4. CASE RemoveKills(r)
    BY <2>1, <2>4, KillsKeeps DEF RemoveKills, At
  <2>5. CASE RemoveDeletes(r)
    BY <2>1, <2>5, EndsKeeps DEF RemoveDeletes, At
  <2> QED BY <1>2, <2>1, <2>2, <2>3, <2>4, <2>5, TakeGateKeeps DEF RemovalStarts
<1>3. ASSUME NEW d \in Downloads, Download(d) PROVE SidecarInv'
  <2>1. /\ d \in Others /\ d \in Jobs /\ d \notin Installs /\ d \notin Stops
        /\ NextPc(d) = "writing"
    BY JobsAssumption DEF Others, Jobs, NextPc
  <2>2. ASSUME NEW m \in Models, DownloadRegistered(d, m) PROVE SidecarInv'
    <3>1. CASE Goes(d, "done")
      BY <2>1, <2>2, <3>1, EndsKeeps DEF DownloadRegistered, Called, At
    <3> QED BY <2>2, <3>1, RequestKeeps DEF DownloadRegistered, Called, At
  <2>3. CASE DownloadStops(d)
    <3>1. CASE Goes(d, "ending") /\ modelGate' = Released(d) /\ UNCHANGED guard
      BY <2>1, <2>3, <3>1, EndsKeeps DEF DownloadStops, HasGates, At
    <3>2. CASE /\ \E m \in job[d].ids : TakesChildIfServing(d, m, "killing")
               /\ UNCHANGED modelGate
      BY <2>1, <2>3, <3>2, ServedOrNot DEF DownloadStops
    <3> QED BY <2>3, <3>1, <3>2 DEF DownloadStops
  <2>4. CASE DownloadKills(d)
    BY <2>1, <2>4, KillsKeeps DEF DownloadKills, At
  <2>5. CASE DownloadEnds(d)
    BY <2>1, <2>5, EndsKeeps DEF DownloadEnds, At
  <2>6. CASE DownloadUnregistered(d)
    BY <2>1, <2>6, EndsKeeps DEF DownloadUnregistered, At
  <2> QED BY <1>3, <2>1, <2>2, <2>3, <2>4, <2>5, <2>6, TakeGateKeeps DEF Download
<1>4. ASSUME NEW d \in Downloads, DownloadCancel(d) PROVE SidecarInv'
  BY <1>4, NothingChanges DEF DownloadCancel
<1>5. ASSUME NEW i \in Installs, Install(i) PROVE SidecarInv'
  <2>1. /\ i \in Others /\ i \notin Removes \union Downloads /\ i \notin Stops
        /\ NextPc(i) = "swapping"
    BY JobsAssumption DEF Others, NextPc
  <2>2. CASE InstallTakesGate(i)
    BY <2>1, <2>2, TakesKeeps DEF InstallTakesGate, Called, At
  <2>3. CASE InstallKills(i)
    BY <2>1, <2>3, KillsKeeps DEF InstallKills, At
  <2>4. CASE InstallSwaps(i)
    BY <2>1, <2>4, EndsKeeps DEF InstallSwaps, At
  <2> QED BY <1>5, <2>2, <2>3, <2>4 DEF Install
<1> QED BY <1>1, <1>2, <1>3, <1>4, <1>5

----------------------------------------------------------------------------
(* A process that ends by itself leaves the handle where it was.            *)
LEMMA CrashKeeps ==
  ASSUME SidecarInv, NEW p \in live, Crash(p) PROVE SidecarInv'
<1> USE DEF SidecarInv
<1>1. /\ live' = live \ {p}
      /\ UNCHANGED <<guard, spawned, job, watchers, modelGate, engineGate>>
  BY DEF Crash
<1>2. Typed'
  BY <1>1 DEF Typed, KindsOfJobs
<1>3. OneChild' /\ NoStrayProcess' /\ WatcherFollows'
  BY <1>1 DEF OneChild, NoStrayProcess, WatcherFollows
<1>4. GatesAreHeld' /\ EngineGateIsHeld' /\ StartsAreCounted'
  BY <1>1 DEF GatesAreHeld, EngineGateIsHeld, StartsAreCounted, Counted
<1> QED BY <1>2, <1>3, <1>4

(* The exit kills the child and outdates every start and every watcher.     *)
LEMMA ExitKeeps ==
  ASSUME SidecarInv, Exit PROVE SidecarInv'
<1> USE DEF SidecarInv
<1> DEFINE c == CancelPendingStarts(guard)
           b == [c EXCEPT !.generation = @ + 1, !.child = None]
<1>1. /\ guard' = [c EXCEPT !.generation = @ + 1, !.child = None, !.shuttingDown = TRUE]
      /\ live' = {p \in live : p.id # guard.child}
      /\ UNCHANGED <<spawned, job, watchers, modelGate, engineGate>>
  BY DEF Exit, Without
<1>2. /\ c \in Guards /\ c.epoch = guard.epoch + 1 /\ c.starting = 0
      /\ c.generation = guard.generation /\ c.serves = guard.serves
  BY GuardOps DEF Typed
<1> HIDE DEF c
<1>3. /\ b \in Guards /\ b.epoch = c.epoch /\ b.starting = 0 /\ b.serves = c.serves
      /\ b.generation = guard.generation + 1 /\ b.child = None
  <2>1. c.generation + 1 \in Nat
    BY <1>2 DEF Guards
  <2> QED BY <1>2, <2>1 DEF Guards
<1>4. guard' = [b EXCEPT !.shuttingDown = TRUE]
  BY <1>1, <1>2 DEF Guards
<1> HIDE DEF b
<1>5. /\ guard' \in Guards /\ guard'.epoch = guard.epoch + 1 /\ guard'.starting = 0
      /\ guard'.generation = guard.generation + 1 /\ guard'.child = None
      /\ guard'.serves = guard.serves
  <2>1. guard' \in Guards
    BY <1>3, <1>4 DEF Guards
  <2> QED BY <1>2, <1>3, <1>4, <2>1 DEF Guards
<1>6. Typed'
  BY <1>1, <1>5 DEF Typed, KindsOfJobs
<1>7. \A p \in live : p.id # None
  BY NoneAssumption DEF Typed, Procs
<1>8. OneChild'
  BY <1>1, <1>5, <1>7 DEF OneChild
<1>9. NoStrayProcess'
  BY <1>1, <1>5, <1>7 DEF NoStrayProcess
<1>10. WatcherFollows'
  <2>1. \A w \in watchers : w.gen # guard.generation + 1 /\ w.gen <= guard.generation + 1
    BY DEF Typed, Watches, Guards, WatcherFollows
  <2> QED BY <1>1, <1>5, <2>1 DEF WatcherFollows
<1>11. GatesAreHeld'
  BY <1>1, <1>5 DEF GatesAreHeld
<1>12. EngineGateIsHeld'
  BY <1>1, <1>5 DEF EngineGateIsHeld
<1>13. StartsAreCounted'
  BY <1>1, <1>5, NoneCounted
<1> QED BY <1>6, <1>8, <1>9, <1>10, <1>11, <1>12, <1>13

----------------------------------------------------------------------------
(* watch.  A watcher that ends, or that goes on while the guard keeps what  *)
(* it serves and loses no live child.                                       *)
LEMMA WatcherStepKeeps ==
  ASSUME SidecarInv, NEW w \in watchers,
         NEW v \in Watches, v.gen = w.gen, v.proc = w.proc, v.ids = w.ids,
         watchers' = watchers \ {w} \/ watchers' = (watchers \ {w}) \union {v},
         guard' \in Guards, guard'.epoch = guard.epoch, guard'.starting = guard.starting,
         guard'.generation = guard.generation, guard'.serves = guard.serves,
         \/ guard'.child = guard.child
         \/ guard'.child = None /\ \A p \in live : p.id # guard.child,
         guard.generation = w.gen /\ v \in watchers' =>
            guard'.child = IF v.pc = "watching" THEN v.proc ELSE None,
         guard.generation # w.gen => guard'.child = guard.child,
         \/ engineGate' = engineGate /\ v.pc # "probing"
         \/ engineGate = None /\ engineGate' = w.gen
         \/ engineGate = w.gen /\ engineGate' = None /\ watchers' = watchers \ {w},
         UNCHANGED <<live, spawned, job, modelGate>>
  PROVE  SidecarInv'
<1> USE DEF SidecarInv
<1>1. /\ w \in Watches /\ w.gen \in Nat
      /\ \A u \in watchers' : (u \in watchers /\ u # w) \/ u = v
  BY DEF Typed, Watches
<1>2. Typed'
  BY <1>1 DEF Typed, KindsOfJobs
<1>3. OneChild'
  <2>1. \A p \in live : p.id # None
    BY NoneAssumption DEF Typed, Procs
  <2> QED BY <2>1 DEF OneChild
<1>4. NoStrayProcess'
  BY DEF NoStrayProcess
<1>5. WatcherFollows'
  BY <1>1 DEF WatcherFollows
<1>6. GatesAreHeld'
  BY DEF GatesAreHeld
<1>7. EngineGateIsHeld'
  <2>1. \A k \in Jobs : k # None /\ k # w.gen
    BY <1>1, NoneAssumption, JobsAssumption
  <2>2. \A u \in watchers : u.gen # None /\ (u.gen = w.gen => u = w)
    BY NoneAssumption DEF Typed, Watches, WatcherFollows
  <2> QED BY <1>1, <2>1, <2>2 DEF EngineGateIsHeld, Jobs
<1>8. StartsAreCounted'
  BY SameCount DEF StartsAreCounted
<1> QED BY <1>2, <1>3, <1>4, <1>5, <1>6, <1>7, <1>8

LEMMA WatcherSeesDeathKeeps ==
  ASSUME SidecarInv, NEW w \in watchers, WatcherSeesDeath(w) PROVE SidecarInv'
<1>1. /\ w \in Watches /\ w.pc = "watching" /\ \A p \in live : p.id # w.proc
      /\ UNCHANGED <<live, spawned, job, modelGate, engineGate>>
      /\ guard \in Guards /\ (w.gen = guard.generation => guard.child = w.proc)
  BY DEF SidecarInv, Typed, WatcherFollows, WatcherSeesDeath
<1>2. CASE Ends(w) /\ UNCHANGED guard
  BY <1>1, <1>2, WatcherStepKeeps DEF Ends
<1> DEFINE down == [guard EXCEPT !.child = None]
<1>3. /\ down \in Guards /\ down.epoch = guard.epoch /\ down.starting = guard.starting
      /\ down.generation = guard.generation /\ down.serves = guard.serves
      /\ down.child = None
  BY <1>1 DEF Guards
<1> HIDE DEF down
<1>4. CASE /\ w.gen = guard.generation
           /\ \/ guard' = GivesUp(down) /\ Ends(w)
              \/ \E n \in NextAttempts(w) :
                   /\ guard' = down
                   /\ Becomes(w, [w EXCEPT !.pc = "backoff", !.streak = n, !.total = @ + 1])
  <2>1. CASE guard' = GivesUp(down) /\ Ends(w)
    <3>1. /\ guard' \in Guards /\ guard'.epoch = guard.epoch
          /\ guard'.starting = guard.starting /\ guard'.generation = guard.generation
          /\ guard'.serves = guard.serves /\ guard'.child = None
      BY <1>3, <2>1, GuardOps
    <3>2. watchers' = watchers \ {w}
      BY <2>1 DEF Ends
    <3> QED BY <1>1, <1>4, <3>1, <3>2, WatcherStepKeeps
  <2>2. ASSUME NEW n \in NextAttempts(w), guard' = down,
               Becomes(w, [w EXCEPT !.pc = "backoff", !.streak = n, !.total = @ + 1])
        PROVE  SidecarInv'
    <3> DEFINE v == [w EXCEPT !.pc = "backoff", !.streak = n, !.total = @ + 1]
    <3>1. n \in Nat /\ w.total + 1 \in Nat
      BY <1>1, <2>2 DEF NextAttempts, Watches
    <3>2. /\ v \in Watches /\ v.gen = w.gen /\ v.proc = w.proc /\ v.ids = w.ids
          /\ v.pc = "backoff"
      BY <1>1, <3>1 DEF Watches
    <3>3. watchers' = (watchers \ {w}) \union {v}
      BY <2>2 DEF Becomes
    <3> HIDE DEF v
    <3> QED BY <1>1, <1>3, <1>4, <2>2, <3>2, <3>3, WatcherStepKeeps
  <2> QED BY <1>4, <2>1, <2>2
<1> QED BY <1>2, <1>4 DEF WatcherSeesDeath, CanRespawn, down

LEMMA WatcherProbesKeeps ==
  ASSUME SidecarInv, NEW w \in watchers, WatcherProbes(w) PROVE SidecarInv'
<1> DEFINE v == [w EXCEPT !.pc = "probing"]
<1>1. /\ w \in Watches /\ w.pc = "backoff" /\ guard \in Guards
      /\ engineGate = None /\ engineGate' = w.gen
      /\ watchers' = (watchers \ {w}) \union {v}
      /\ UNCHANGED <<guard, live, spawned, job, modelGate>>
      /\ (w.gen = guard.generation => guard.child = None)
  BY DEF SidecarInv, Typed, WatcherFollows, WatcherProbes, Becomes
<1>2. /\ v \in Watches /\ v.gen = w.gen /\ v.proc = w.proc /\ v.ids = w.ids
      /\ v.pc = "probing"
  BY <1>1 DEF Watches
<1> HIDE DEF v
<1> QED BY <1>1, <1>2, WatcherStepKeeps

(* A respawn under the lock: the generation is the watcher's, which serves  *)
(* what the guard says; nobody writes those files.                          *)
LEMMA WatcherRespawnsKeeps ==
  ASSUME SidecarInv, NEW w \in watchers, WatcherRespawns(w) PROVE SidecarInv'
<1>1. /\ w \in Watches /\ w.pc = "probing" /\ guard \in Guards
      /\ engineGate = w.gen /\ engineGate' = None
      /\ UNCHANGED <<job, modelGate>>
      /\ (w.gen = guard.generation => guard.child = None /\ guard.serves = w.ids)
  BY DEF SidecarInv, Typed, WatcherFollows, WatcherRespawns, EngineGateIsHeld
<1>2. CASE Ends(w) /\ guard' \in {guard, GivesUp(guard)} /\ UNCHANGED <<live, spawned>>
  <2>1. /\ guard' \in Guards /\ guard'.epoch = guard.epoch
        /\ guard'.starting = guard.starting /\ guard'.generation = guard.generation
        /\ guard'.serves = guard.serves /\ guard'.child = guard.child
    BY <1>1, <1>2, GuardOps
  <2>2. watchers' = watchers \ {w}
    BY <1>2 DEF Ends
  <2> QED BY <1>1, <1>2, <2>1, <2>2, WatcherStepKeeps
<1>3. CASE /\ w.gen = guard.generation
           /\ Spawn(guard, w.ids)
           /\ Becomes(w, [w EXCEPT !.pc = "watching", !.proc = spawned])
  <2> USE DEF SidecarInv
  <2> DEFINE v == [w EXCEPT !.pc = "watching", !.proc = spawned]
             p == NewProc(w.ids)
  <2>1. /\ spawned < MaxProcs /\ spawned' = spawned + 1 /\ spawned \in Nat
        /\ MaxProcs \in Nat
        /\ live' = live \union {p}
        /\ guard' = [guard EXCEPT !.child = spawned, !.serves = w.ids]
        /\ watchers' = (watchers \ {w}) \union {v}
    <3>1. MaxProcs \in Nat
      BY BudgetAssumption
    <3> QED BY <1>3, <3>1 DEF Spawn, Becomes, Typed
  <2>2. /\ v \in Watches /\ v.gen = w.gen /\ v.proc = spawned /\ v.ids = w.ids
        /\ v.pc = "watching"
    BY <1>1, <2>1 DEF Watches
  <2>3. p \in Procs /\ p.id = spawned /\ p.ids = w.ids
    BY <1>1, <2>1 DEF NewProc, Procs, Watches
  <2>4. /\ guard' \in Guards /\ guard'.child = spawned /\ guard'.serves = w.ids
        /\ guard'.generation = guard.generation /\ guard'.epoch = guard.epoch
        /\ guard'.starting = guard.starting
    <3>1. w.ids \in Served
      BY <1>1 DEF Watches, Served
    <3> QED BY <1>1, <2>1, <3>1 DEF Guards
  <2> HIDE DEF v, p
  <2>5. /\ guard.child = None /\ guard.serves = w.ids /\ w.ids # None
        /\ spawned # None
    BY <1>1, <1>3, <2>1, NoneAssumption DEF Watches
  <2>6. Typed'
    <3>1. spawned' \in 0..MaxProcs
      BY <2>1
    <3> QED BY <1>1, <2>1, <2>2, <2>3, <2>4, <3>1 DEF Typed, KindsOfJobs
  <2>7. OneChild'
    <3>1. \A q \in live : q.id < spawned /\ q.id \in Nat
      BY DEF OneChild, Typed, Procs
    <3>2. \A k \in Jobs : job[k].victim # None =>
             job[k].victim \in Nat /\ job[k].victim < spawned
      BY DEF OneChild, Typed, JobStates
    <3> QED BY <1>1, <2>1, <2>3, <2>4, <2>5, <3>1, <3>2 DEF OneChild
  <2>8. NoStrayProcess'
    <3>1. \A q \in live : q.id # None
      BY NoneAssumption DEF Typed, Procs
    <3> QED BY <1>1, <2>1, <2>3, <2>4, <2>5, <3>1 DEF NoStrayProcess
  <2>9. WatcherFollows'
    <3>1. \A u \in watchers : u.proc \in Nat
      BY DEF Typed, Watches
    <3> QED BY <1>3, <2>1, <2>2, <2>4, <3>1 DEF WatcherFollows
  <2>10. GatesAreHeld'
    BY <1>1, <2>4, <2>5 DEF GatesAreHeld
  <2>11. EngineGateIsHeld'
    <3>1. \A k \in Jobs : k # w.gen
      BY <1>1, JobsAssumption DEF Watches
    <3>2. \A u \in watchers : u.gen = w.gen => u = w
      BY DEF WatcherFollows
    <3> QED BY <1>1, <2>1, <2>2, <3>1, <3>2 DEF EngineGateIsHeld, Jobs
  <2>12. StartsAreCounted'
    BY <1>1, <2>4, SameCount DEF StartsAreCounted
  <2> QED BY <2>6, <2>7, <2>8, <2>9, <2>10, <2>11, <2>12
<1> QED BY <1>2, <1>3 DEF WatcherRespawns, CanRespawn

----------------------------------------------------------------------------
LEMMA SidecarInvNext ==
  ASSUME SidecarInv, [SidecarNext]_sidecarVars PROVE SidecarInv'
<1>1. CASE UNCHANGED sidecarVars
  BY <1>1, NothingChanges DEF sidecarVars
<1>2. ASSUME NEW w \in watchers, Watcher(w) PROVE SidecarInv'
  BY <1>2, WatcherSeesDeathKeeps, WatcherProbesKeeps, WatcherRespawnsKeeps DEF Watcher
<1>3. CASE SidecarNext
  BY <1>2, <1>3, StartKeeps, OthersKeep, CrashKeeps, ExitKeeps DEF SidecarNext
<1> QED BY <1>1, <1>3

(* What the invariant says of the processes: a removal, a download or an    *)
(* installation that has killed what it took finds no other process, since  *)
(* the child serves no model whose gate is held by another command.         *)
LEMMA SidecarInvSound == SidecarInv => ProcessesAreSound
<1> SUFFICES ASSUME SidecarInv PROVE ProcessesAreSound
  OBVIOUS
<1> USE DEF SidecarInv
<1>1. ReplacedFilesAreUnmapped
  <2> SUFFICES ASSUME NEW j \in Jobs, NEW p \in live,
                      \A k \in Jobs : job[k].victim # p.id
               PROVE  /\ job[j].pc \in {"deleting", "writing"} =>
                           job[j].ids \intersect p.ids = {}
                      /\ job[j].pc \notin {"swapping", "promoting"}
    BY DEF ReplacedFilesAreUnmapped
  <2>1. guard.child = p.id /\ p.id # None
    BY NoneAssumption DEF NoStrayProcess, Typed, Procs
  <2>2. p.ids = guard.serves /\ guard.serves # None
    BY <2>1 DEF OneChild
  <2>3. job[j].pc \in {"deleting", "writing"} => j \in Removes \union Downloads
    BY DEF Typed, KindsOfJobs, Jobs, StartPcs
  <2>4. job[j].pc \in {"swapping", "promoting"} => j \in Installs
    BY DEF Typed, KindsOfJobs, Jobs, StartPcs
  <2> QED BY <2>1, <2>2, <2>3, <2>4 DEF GatesAreHeld, EngineGateIsHeld
<1>2. StartingIsCounted
  BY DEF StartsAreCounted, Counted, StartPcs, StartingIsCounted
<1> QED BY <1>1, <1>2 DEF ProcessesAreSound

(* The main results on the sidecar (commands/sidecar.rs).  In every         *)
(* reachable state a process that runs is where stop and exit find it, no   *)
(* file in use is deleted, written or swapped, and `starting` is the number *)
(* of starts under way since the last stop.                                 *)
THEOREM ProcessesAlwaysSound == SidecarSpec => []ProcessesAreSound
<1>1. SidecarSpec => []SidecarInv
  BY SidecarInvInit, SidecarInvNext, PTL DEF SidecarSpec
<1> QED BY <1>1, SidecarInvSound, PTL

----------------------------------------------------------------------------
(* The sidecar implements OneServer: every step is one of its steps or a    *)
(* stutter.  In a state that satisfies the invariant, what OneServer sees   *)
(* is told by the guard.                                                    *)
ChildLives == \E p \in live : p.id = guard.child
Watched == ~guard.shuttingDown /\ \E w \in watchers : w.gen = guard.generation
Mapped ==
  /\ ServerUp = IF ChildLives THEN guard.serves ELSE None
  /\ ServerStanding = IF Watched THEN guard.serves ELSE None
  /\ ChildLives => guard.child # None /\ guard.serves # None
  /\ Watched => guard.serves # None

LEMMA MappedNow == SidecarInv => Mapped
<1> SUFFICES ASSUME SidecarInv PROVE Mapped
  OBVIOUS
<1> USE DEF SidecarInv
<1>1. ASSUME ChildLives
      PROVE  ServerUp = guard.serves /\ guard.child # None /\ guard.serves # None
  <2> DEFINE p == CHOOSE p \in live : p.id = guard.child
  <2>1. p \in live /\ p.id = guard.child
    BY <1>1 DEF ChildLives
  <2>2. p.id # None
    BY <2>1, NoneAssumption DEF Typed, Procs
  <2>3. ServerUp = p.ids
    BY <1>1 DEF ServerUp, ChildLives
  <2> QED BY <2>1, <2>2, <2>3 DEF OneChild
<1>2. ASSUME Watched PROVE ServerStanding = guard.serves /\ guard.serves # None
  <2> DEFINE w == CHOOSE w \in watchers : w.gen = guard.generation
  <2>1. w \in watchers /\ w.gen = guard.generation
    BY <1>2 DEF Watched
  <2>2. w.ids # None
    BY <2>1, NoneAssumption DEF Typed, Watches
  <2>3. ServerStanding = w.ids
    BY <1>2 DEF ServerStanding, Watched
  <2> QED BY <2>1, <2>2, <2>3 DEF WatcherFollows
<1>3. ~ChildLives => ServerUp = None
  BY DEF ServerUp, ChildLives
<1>4. ~Watched => ServerStanding = None
  BY DEF ServerStanding, Watched
<1> QED BY <1>1, <1>2, <1>3, <1>4 DEF Mapped

LEMMA MappedNext == SidecarInv' => Mapped'
BY MappedNow, PTL

(* The permits go with the epoch, and with the points the starts are at.    *)
LEMMA PermitsStay ==
  ASSUME guard'.epoch = guard.epoch, guard'.shuttingDown = guard.shuttingDown,
         \A c \in Starts : job'[c] = job[c]
  PROVE  ServerPermits' = ServerPermits
BY DEF ServerPermits, EpochValid

LEMMA PermitsGo ==
  ASSUME SidecarInv, guard'.epoch = guard.epoch + 1,
         \A c \in Starts : job'[c].epoch = job[c].epoch
  PROVE  ServerPermits' = {}
<1>1. \A c \in Starts : job[c].epoch \in Nat /\ job[c].epoch <= guard.epoch
  BY DEF SidecarInv, Typed, JobStates, Jobs, StartsAreCounted
<1>2. guard.epoch \in Nat
  BY DEF SidecarInv, Typed, Guards
<1> QED BY <1>1, <1>2 DEF ServerPermits, EpochValid

LEMMA Stutters ==
  ASSUME Mapped, Mapped', ChildLives' <=> ChildLives, Watched' <=> Watched,
         guard'.serves = guard.serves, guard'.shuttingDown = guard.shuttingDown,
         ServerPermits' = ServerPermits
  PROVE  UNCHANGED One!oneVars
BY DEF Mapped, One!oneVars, ServerClosed

OneStep == One!Next \/ UNCHANGED One!oneVars

(* A new generation has no watcher yet.                                     *)
LEMMA NobodyWatches ==
  ASSUME SidecarInv, UNCHANGED watchers, guard'.generation = guard.generation + 1
  PROVE  ~Watched'
BY DEF SidecarInv, Typed, Watches, Guards, WatcherFollows, Watched

LEMMA NobodyServes == SidecarInv /\ guard.child = None => ~ChildLives
BY NoneAssumption DEF SidecarInv, Typed, Procs, ChildLives

LEMMA TakesIsStop ==
  ASSUME SidecarInv, Mapped', NEW j \in Others, TakesChild(j, "killing"),
         UNCHANGED <<live, watchers>>
  PROVE  One!Stop
<1>1. /\ guard'.child = None /\ guard'.generation = guard.generation + 1
      /\ guard'.epoch = guard.epoch + 1 /\ guard'.shuttingDown = guard.shuttingDown
      /\ \A c \in Starts : job'[c] = job[c]
  <2>1. j \in Jobs /\ j \notin Starts /\ "killing" \in JobPcs
    BY JobsAssumption DEF Others, Jobs, JobPcs
  <2> QED BY <2>1, JobTakes DEF SidecarInv, Jobs
<1>2. ~ChildLives'
  BY <1>1, NoneAssumption DEF SidecarInv, Typed, Procs, ChildLives
<1>3. ~Watched'
  BY <1>1, NobodyWatches
<1>4. ServerPermits' = {}
  BY <1>1, PermitsGo
<1> QED BY <1>1, <1>2, <1>3, <1>4 DEF One!Stop, Mapped, ServerClosed

(* A start that only changes its own point, with the guard as it was.       *)
PermitPcs == {"waiting", "marked", "installing", "ready"}
LEMMA StartGoesMaps ==
  ASSUME SidecarInv, Mapped, Mapped', NEW c \in Starts, NEW pc \in JobPcs, Goes(c, pc),
         UNCHANGED <<live, watchers>>,
         guard'.child = guard.child, guard'.serves = guard.serves,
         guard'.generation = guard.generation, guard'.epoch = guard.epoch,
         guard'.shuttingDown = guard.shuttingDown,
         pc \in PermitPcs => job[c].pc \in PermitPcs
  PROVE  OneStep
<1>1. /\ job'[c].pc = pc /\ job'[c].epoch = job[c].epoch
      /\ \A d \in Starts : d # c => job'[d] = job[d]
  BY JobGoes DEF SidecarInv, Jobs
<1>2. (ChildLives' <=> ChildLives) /\ (Watched' <=> Watched)
  BY DEF ChildLives, Watched
<1>3. CASE pc \in PermitPcs \/ job[c].pc \notin PermitPcs
  <2>1. ServerPermits' = ServerPermits
    BY <1>1, <1>3 DEF ServerPermits, EpochValid, PermitPcs
  <2> QED BY <1>2, <2>1, Stutters DEF OneStep
<1>4. CASE pc \notin PermitPcs
  <2>1. ServerPermits' = ServerPermits \ {c}
    BY <1>1, <1>4 DEF ServerPermits, EpochValid, PermitPcs
  <2>2. ServerUp' = ServerUp /\ ServerStanding' = ServerStanding
    BY <1>2 DEF Mapped
  <2> QED BY <2>1, <2>2 DEF OneStep, One!Next, One!Forgo, ServerClosed
<1> QED BY <1>3, <1>4

LEMMA StartMarkedMaps ==
  ASSUME SidecarInv, Mapped, Mapped', NEW c \in Starts, StartMarked(c)
  PROVE  OneStep
<1>1. CASE Goes(c, "done") /\ UNCHANGED guard
  BY <1>1, StartGoesMaps DEF StartMarked, JobPcs, PermitPcs
<1>2. CASE ~(~EpochValid(guard, job[c].epoch) \/ guard.child # None)
  <2> DEFINE g == IF guard.serves # None THEN Wiped(guard) ELSE guard
  <2>1. /\ guard' = MarkStarting(g) /\ UNCHANGED <<live, watchers>>
        /\ job' = [job EXCEPT ![c].pc = "marked", ![c].epoch = g.epoch]
        /\ job[c].pc = "waiting" /\ EpochValid(guard, job[c].epoch)
        /\ guard.child = None
    BY <1>2 DEF StartMarked, HasGates, At
  <2>2. guard \in Guards /\ c \in Jobs /\ job \in [Jobs -> JobStates]
    BY DEF SidecarInv, Typed, Jobs
  <2>3. /\ g \in Guards /\ g.child = None /\ g.serves = None
        /\ g.shuttingDown = guard.shuttingDown
        /\ \/ g = guard
           \/ /\ g.epoch = guard.epoch + 1
              /\ g.generation = guard.generation + 1
    BY <2>1, <2>2, GuardOps
  <2> HIDE DEF g
  <2>4. /\ guard'.child = None /\ guard'.serves = None /\ guard'.epoch = g.epoch
        /\ guard'.generation = g.generation /\ guard'.shuttingDown = guard.shuttingDown
    BY <2>1, <2>3, GuardOps
  <2>5. /\ job'[c].pc = "marked" /\ job'[c].epoch = g.epoch
        /\ \A d \in Starts : d # c => job'[d] = job[d]
    BY <2>1, <2>2 DEF JobStates, Jobs
  <2>6. ~ChildLives /\ ~ChildLives'
    BY <2>1, <2>4, NoneAssumption DEF SidecarInv, Typed, Procs, ChildLives
  <2>7. c \in ServerPermits /\ job[c].epoch = guard.epoch /\ ~guard.shuttingDown
    BY <2>1 DEF ServerPermits, EpochValid
  <2>8. CASE g = guard
    <3>1. ServerPermits' = ServerPermits
      BY <2>1, <2>4, <2>5, <2>7, <2>8 DEF ServerPermits, EpochValid
    <3>2. guard.serves = None /\ (Watched' <=> Watched)
      BY <2>1, <2>3, <2>4, <2>8 DEF Watched
    <3> QED BY <2>4, <2>6, <3>1, <3>2, Stutters DEF OneStep
  <2>9. CASE g.epoch = guard.epoch + 1 /\ g.generation = guard.generation + 1
    <3>1. /\ \A d \in Starts : job[d].epoch \in Nat /\ job[d].epoch <= guard.epoch
          /\ guard.epoch \in Nat
      BY <2>2 DEF SidecarInv, JobStates, Jobs, Guards, StartsAreCounted
    <3>2. ServerPermits' = {c}
      BY <2>4, <2>5, <2>7, <2>9, <3>1 DEF ServerPermits, EpochValid
    <3>3. ~Watched'
      BY <2>1, <2>4, <2>9, NobodyWatches
    <3> QED BY <2>4, <2>6, <2>7, <3>2, <3>3
            DEF OneStep, One!Next, One!Supersede, Mapped, ServerClosed
  <2> QED BY <2>3, <2>8, <2>9
<1> QED BY <1>1, <1>2 DEF StartMarked

LEMMA StartSpawnsMaps ==
  ASSUME SidecarInv, SidecarInv', Mapped, Mapped', NEW c \in Starts, StartSpawns(c)
  PROVE  OneStep
<1>1. CASE UNCHANGED <<guard, live, spawned, watchers>>
  BY <1>1, StartGoesMaps DEF StartSpawns, JobPcs, PermitPcs
<1> DEFINE g == [guard EXCEPT !.generation = @ + 1]
           h == [g EXCEPT !.errored = FALSE]
<1>2. /\ g \in Guards /\ g.generation = guard.generation + 1 /\ g.child = guard.child
      /\ g.serves = guard.serves /\ g.epoch = guard.epoch
      /\ g.shuttingDown = guard.shuttingDown
  BY DEF SidecarInv, Typed, Guards
<1>3. /\ h \in Guards /\ h.generation = guard.generation + 1
      /\ h.epoch = guard.epoch /\ h.shuttingDown = guard.shuttingDown
  <2> HIDE DEF g
  <2> QED BY <1>2 DEF Guards
<1>4. /\ job[c].pc = "ready" /\ job'[c].pc = "returning"
      /\ \A d \in Starts : d # c => job'[d] = job[d]
  BY JobGoes DEF StartSpawns, At, JobPcs, SidecarInv, Jobs
<1>5. CASE /\ EpochValid(guard, job[c].epoch) /\ guard.child = None
           /\ guard' = g /\ UNCHANGED <<live, spawned, watchers>>
  <2>1. ~ChildLives /\ ~ChildLives' /\ ~Watched'
    <3> HIDE DEF g
    <3> QED BY <1>2, <1>5, NobodyWatches, NoneAssumption DEF SidecarInv, Typed, Procs, ChildLives
  <2>2. ServerPermits' = ServerPermits \ {c}
    <3> HIDE DEF g
    <3> QED BY <1>2, <1>4, <1>5 DEF ServerPermits, EpochValid
  <2>3. ServerUp' = ServerUp /\ ServerUp = None /\ ServerStanding' = None /\ UNCHANGED ServerClosed
    <3> HIDE DEF g
    <3> QED BY <1>2, <1>5, <2>1 DEF Mapped, ServerClosed
  <2> QED BY <2>2, <2>3 DEF OneStep, One!Next, One!Forgo
<1>6. CASE /\ EpochValid(guard, job[c].epoch) /\ guard.child = None
           /\ Spawn([g EXCEPT !.errored = FALSE], job[c].ids)
           /\ watchers' = watchers \union
                {[gen |-> g.generation, proc |-> spawned, ids |-> job[c].ids,
                  pc |-> "watching", streak |-> 0, total |-> 0]}
  <2>1. /\ live' = live \union {[id |-> spawned, ids |-> job[c].ids]}
        /\ guard' = [h EXCEPT !.child = spawned, !.serves = job[c].ids]
    BY <1>6 DEF Spawn, NewProc
  <2> DEFINE w == [gen |-> g.generation, proc |-> spawned, ids |-> job[c].ids,
                   pc |-> "watching", streak |-> 0, total |-> 0]
  <2>2. w \in watchers' /\ w.gen = guard.generation + 1
    BY <1>2, <1>6
  <2> HIDE DEF g, h, w
  <2>3. /\ guard'.child = spawned /\ guard'.serves = job[c].ids
        /\ guard'.generation = guard.generation + 1 /\ guard'.epoch = guard.epoch
        /\ guard'.shuttingDown = guard.shuttingDown /\ ~guard.shuttingDown
    BY <1>3, <1>6, <2>1 DEF Guards, EpochValid
  <2>4. ChildLives' /\ Watched'
    <3>1. [id |-> spawned, ids |-> job[c].ids].id = spawned
      OBVIOUS
    <3> QED BY <2>1, <2>2, <2>3, <3>1 DEF ChildLives, Watched
  <2>5. ~ChildLives
    BY <1>6, NobodyServes
  <2>6. c \in ServerPermits /\ ServerPermits' = ServerPermits \ {c}
    BY <1>4, <1>6, <2>3 DEF ServerPermits, EpochValid
  <2>7. job[c].ids \in SUBSET Models
    BY DEF SidecarInv, Typed, JobStates, Jobs
  <2>8. One!Serve(c, job[c].ids)
    BY <2>3, <2>4, <2>5, <2>6 DEF One!Serve, Mapped, ServerClosed
  <2> QED BY <2>7, <2>8 DEF OneStep, One!Next
<1> QED BY <1>1, <1>5, <1>6 DEF StartSpawns

LEMMA StartMaps ==
  ASSUME SidecarInv, SidecarInv', Mapped, Mapped', NEW c \in Starts, Start(c)
  PROVE  OneStep
<1>1. ASSUME NEW ids \in SUBSET Models, StartCaptured(c, ids) PROVE OneStep
  <2> DEFINE pc == IF ~guard.shuttingDown /\ ids \subseteq disk THEN "waiting" ELSE "done"
             r == [Idle EXCEPT !.ids = ids, !.epoch = guard.epoch, !.pc = pc]
  <2>1. /\ job' = [job EXCEPT ![c] = r] /\ job[c].pc = "idle" /\ c \in Jobs
        /\ UNCHANGED <<guard, live, watchers>> /\ job \in [Jobs -> JobStates]
    BY <1>1 DEF StartCaptured, Called, At, Jobs, SidecarInv, Typed
  <2>2. r.pc = pc /\ r.epoch = guard.epoch
    BY DEF Idle
  <2> HIDE DEF r
  <2>3. /\ job'[c].pc = pc /\ job'[c].epoch = guard.epoch
        /\ \A d \in Starts : d # c => job'[d] = job[d]
    BY <2>1, <2>2 DEF Jobs
  <2>4. (ChildLives' <=> ChildLives) /\ (Watched' <=> Watched)
    BY <2>1 DEF ChildLives, Watched
  <2>5. CASE pc = "waiting"
    <3>1. ~guard.shuttingDown
      BY <2>5
    <3>2. ServerPermits' = ServerPermits \union {c}
      BY <2>1, <2>3, <2>5, <3>1 DEF ServerPermits, EpochValid
    <3>3. ServerUp' = ServerUp /\ ServerStanding' = ServerStanding
      BY <2>1, <2>4 DEF Mapped
    <3> QED BY <2>1, <3>1, <3>2, <3>3 DEF OneStep, One!Next, One!Ask, ServerClosed
  <2>6. CASE pc = "done"
    <3> HIDE DEF pc
    <3>1. ServerPermits' = ServerPermits
      BY <2>1, <2>3, <2>6 DEF ServerPermits, EpochValid
    <3> QED BY <2>1, <2>4, <3>1, Stutters DEF OneStep
  <2> QED BY <2>5, <2>6
<1>2. CASE TakeGate(c)
  <2>1. (ChildLives' <=> ChildLives) /\ (Watched' <=> Watched) /\ ServerPermits' = ServerPermits
    BY <1>2 DEF TakeGate, ChildLives, Watched, ServerPermits, EpochValid
  <2> QED BY <1>2, <2>1, Stutters DEF OneStep, TakeGate
<1>3. CASE StartMarked(c)
  BY <1>3, StartMarkedMaps
<1>4. CASE StartWithoutEngine(c)
  BY <1>4, StartGoesMaps DEF StartWithoutEngine, At, PermitPcs, JobPcs
<1>5. CASE StartInstalls(c)
  BY <1>5, StartGoesMaps DEF StartInstalls, At, PermitPcs, JobPcs
<1>6. CASE StartInstalled(c)
  BY <1>6, StartGoesMaps DEF StartInstalled, At, PermitPcs, JobPcs
<1>7. CASE StartTakesEngine(c)
  BY <1>7, StartGoesMaps DEF StartTakesEngine, At, PermitPcs, JobPcs
<1>8. CASE StartSpawns(c)
  BY <1>8, StartSpawnsMaps
<1>9. CASE StartReturns(c)
  <2>1. guard' = UnmarkStarting(guard, job[c].epoch) /\ guard \in Guards
    BY <1>9 DEF StartReturns, SidecarInv, Typed
  <2>2. /\ guard'.child = guard.child /\ guard'.serves = guard.serves
        /\ guard'.generation = guard.generation /\ guard'.epoch = guard.epoch
        /\ guard'.shuttingDown = guard.shuttingDown
    BY <2>1 DEF UnmarkStarting, Guards
  <2> QED BY <1>9, <2>2, StartGoesMaps DEF StartReturns, At, PermitPcs, JobPcs
<1> QED BY <1>1, <1>2, <1>3, <1>4, <1>5, <1>6, <1>7, <1>8, <1>9 DEF Start

(* Steps of the other commands that touch neither the guard nor a process. *)
LEMMA OtherGoesMaps ==
  ASSUME Mapped, Mapped', UNCHANGED <<guard, live, watchers>>,
         \A c \in Starts : job'[c] = job[c]
  PROVE  OneStep
<1>1. (ChildLives' <=> ChildLives) /\ (Watched' <=> Watched)
  BY DEF ChildLives, Watched
<1> QED BY <1>1, PermitsStay, Stutters DEF OneStep

(* What is killed after the unlock is no longer the child.                  *)
LEMMA KillsMaps ==
  ASSUME SidecarInv, Mapped, Mapped', NEW j \in Others, NEW pc \in JobPcs, Kills(j, pc),
         UNCHANGED <<guard, watchers>>
  PROVE  OneStep
<1>1. j \in Jobs /\ \A c \in Starts : c # j
  BY JobsAssumption DEF Others, Jobs
<1>2. /\ live' = {p \in live : p.id # job[j].victim}
      /\ \A c \in Starts : job'[c] = job[c]
  BY <1>1, JobKills DEF SidecarInv, Jobs
<1>3. \A p \in live : p.id = guard.child => p.id # job[j].victim
  BY <1>1, NoneAssumption DEF SidecarInv, OneChild, Typed, Procs
<1>4. (ChildLives' <=> ChildLives) /\ (Watched' <=> Watched)
  BY <1>2, <1>3 DEF ChildLives, Watched
<1> QED BY <1>2, <1>4, PermitsStay, Stutters DEF OneStep

LEMMA OthersMap ==
  ASSUME SidecarInv, Mapped, Mapped',
         \/ \E s \in Stops : Stop(s)
         \/ \E r \in Removes : RemovalStarts(r)
         \/ \E d \in Downloads : Download(d) \/ DownloadCancel(d)
         \/ \E i \in Installs : Install(i)
  PROVE  OneStep
<1> DEFINE Quiet(j) == UNCHANGED <<guard, live, watchers>>
                       /\ \A k \in Jobs : k # j => job'[k] = job[k]
<1>1. \A j \in Others : j \in Jobs /\ \A c \in Starts : c \in Jobs /\ c # j
  BY JobsAssumption DEF Others, Jobs
<1>2. ASSUME NEW j \in Others, Quiet(j) PROVE OneStep
  BY <1>1, <1>2, OtherGoesMaps
<1>3. ASSUME NEW j \in Others, NEW pc, Goes(j, pc), UNCHANGED <<guard, live, watchers>>
      PROVE  OneStep
  <2>1. Quiet(j)
    BY <1>3 DEF Goes, SidecarInv, Typed
  <2> QED BY <1>2, <2>1
<1>4. ASSUME NEW j \in Others, TakesChild(j, "killing"), UNCHANGED <<live, watchers>>
      PROVE  OneStep
  BY <1>4, TakesIsStop DEF OneStep, One!Next
<1>5. ASSUME NEW j \in Others, TakeGate(j) PROVE OneStep
  BY <1>2, <1>5 DEF TakeGate
<1>6. ASSUME NEW j \in Others, NEW m, TakesChildIfServing(j, m, "killing"),
             UNCHANGED <<live, watchers>>
      PROVE  OneStep
  BY <1>3, <1>4, <1>6 DEF TakesChildIfServing
<1> HIDE DEF Quiet
<1>7. ASSUME NEW s \in Stops, Stop(s) PROVE OneStep
  <2>1. s \in Others /\ "done" \in JobPcs
    BY DEF Others, JobPcs
  <2> QED BY <1>4, <1>7, <2>1, KillsMaps DEF Stop
<1>8. ASSUME NEW r \in Removes, RemovalStarts(r) PROVE OneStep
  <2>1. r \in Others /\ "deleting" \in JobPcs
    BY DEF Others, JobPcs
  <2>2. ASSUME NEW m \in Models, RemoveRequested(r, m) PROVE OneStep
    <3>1. Quiet(r)
      BY <2>2 DEF RemoveRequested, SidecarInv, Typed, Quiet
    <3> QED BY <1>2, <2>1, <3>1
  <2>3. CASE RemoveStops(r)
    BY <1>6, <2>1, <2>3 DEF RemoveStops
  <2>4. CASE RemoveKills(r)
    BY <2>1, <2>4, KillsMaps DEF RemoveKills
  <2>5. CASE RemoveDeletes(r)
    BY <1>3, <2>1, <2>5 DEF RemoveDeletes
  <2> QED BY <1>5, <1>8, <2>1, <2>2, <2>3, <2>4, <2>5 DEF RemovalStarts
<1>9. ASSUME NEW d \in Downloads, Download(d) PROVE OneStep
  <2>1. d \in Others /\ "writing" \in JobPcs
    BY DEF Others, JobPcs
  <2>2. ASSUME NEW m \in Models, DownloadRegistered(d, m) PROVE OneStep
    <3>1. Quiet(d)
      BY <2>2 DEF DownloadRegistered, Goes, SidecarInv, Typed, Quiet
    <3> QED BY <1>2, <2>1, <3>1
  <2>3. CASE DownloadStops(d)
    BY <1>3, <1>6, <2>1, <2>3 DEF DownloadStops
  <2>4. CASE DownloadKills(d)
    BY <2>1, <2>4, KillsMaps DEF DownloadKills
  <2>5. CASE DownloadEnds(d)
    BY <1>3, <2>1, <2>5 DEF DownloadEnds
  <2>6. CASE DownloadUnregistered(d)
    BY <1>3, <2>1, <2>6 DEF DownloadUnregistered
  <2> QED BY <1>5, <1>9, <2>1, <2>2, <2>3, <2>4, <2>5, <2>6 DEF Download
<1>10. ASSUME NEW d \in Downloads, DownloadCancel(d) PROVE OneStep
  BY <1>10, OtherGoesMaps DEF DownloadCancel
<1>11. ASSUME NEW i \in Installs, Install(i) PROVE OneStep
  <2>1. i \in Others /\ "swapping" \in JobPcs
    BY DEF Others, JobPcs
  <2>2. CASE InstallTakesGate(i)
    BY <1>4, <2>1, <2>2 DEF InstallTakesGate
  <2>3. CASE InstallKills(i)
    BY <2>1, <2>3, KillsMaps DEF InstallKills
  <2>4. CASE InstallSwaps(i)
    BY <1>3, <2>1, <2>4 DEF InstallSwaps
  <2> QED BY <1>11, <2>2, <2>3, <2>4 DEF Install
<1> QED BY <1>7, <1>8, <1>9, <1>10, <1>11

LEMMA CrashMaps ==
  ASSUME SidecarInv, Mapped, Mapped', NEW p \in live, Crash(p) PROVE OneStep
<1>1. live' = live \ {p} /\ UNCHANGED <<guard, job, watchers>>
  BY DEF Crash
<1>2. Watched' <=> Watched
  BY <1>1 DEF Watched
<1>3. CASE p.id = guard.child
  <2>1. ChildLives /\ ~ChildLives'
    BY <1>1, <1>3 DEF ChildLives, SidecarInv, OneChild
  <2>2. ServerPermits' = ServerPermits
    BY <1>1, PermitsStay
  <2> QED BY <1>1, <1>2, <2>1, <2>2
          DEF OneStep, One!Next, One!Crash, Mapped, ServerClosed
<1>4. CASE p.id # guard.child
  <2>1. ChildLives' <=> ChildLives
    BY <1>1, <1>4 DEF ChildLives
  <2> QED BY <1>1, <1>2, <2>1, PermitsStay, Stutters DEF OneStep
<1> QED BY <1>3, <1>4

LEMMA ExitMaps ==
  ASSUME SidecarInv, Mapped', Exit PROVE OneStep
<1> DEFINE c == CancelPendingStarts(guard)
<1>1. /\ guard' = [c EXCEPT !.generation = @ + 1, !.child = None, !.shuttingDown = TRUE]
      /\ live' \subseteq live /\ UNCHANGED <<job, watchers>>
  BY DEF Exit, Without
<1>2. c \in Guards /\ c.epoch = guard.epoch + 1
  BY GuardOps DEF SidecarInv, Typed
<1> HIDE DEF c
<1>3. guard'.epoch = guard.epoch + 1 /\ guard'.child = None /\ guard'.shuttingDown = TRUE
  BY <1>1, <1>2 DEF Guards
<1>4. ~ChildLives' /\ ~Watched'
  BY <1>1, <1>3, NoneAssumption DEF SidecarInv, Typed, Procs, ChildLives, Watched
<1>5. ServerPermits' = {}
  BY <1>1, <1>3, PermitsGo
<1> QED BY <1>3, <1>4, <1>5 DEF OneStep, One!Next, One!Stop, Mapped, ServerClosed

(* A watcher respawns what is standing, or gives it up; one that is         *)
(* outdated says nothing about the server.                                  *)
LEMMA WatcherMaps ==
  ASSUME SidecarInv, SidecarInv', Mapped, Mapped', NEW w \in watchers, Watcher(w)
  PROVE  OneStep
<1>1. /\ w \in Watches /\ guard \in Guards /\ UNCHANGED job
      /\ \A u \in watchers : u.gen = w.gen => u = w
  BY DEF SidecarInv, Typed, WatcherFollows, Watcher, WatcherSeesDeath, WatcherProbes,
         WatcherRespawns
<1>2. ASSUME UNCHANGED <<guard, live>>, NEW v, v.gen = w.gen, Becomes(w, v) PROVE OneStep
  <2>1. (ChildLives' <=> ChildLives) /\ (Watched' <=> Watched)
    BY <1>2 DEF ChildLives, Watched, Becomes
  <2> QED BY <1>1, <1>2, <2>1, PermitsStay, Stutters DEF OneStep
<1>3. ASSUME UNCHANGED <<guard, live>>, ~CanRespawn(w), Ends(w) PROVE OneStep
  <2>1. (ChildLives' <=> ChildLives) /\ (Watched' <=> Watched)
    BY <1>3 DEF ChildLives, Watched, Ends, CanRespawn
  <2> QED BY <1>1, <1>3, <2>1, PermitsStay, Stutters DEF OneStep
<1>4. ASSUME CanRespawn(w), ~ChildLives, ~ChildLives', UNCHANGED live, Ends(w),
             guard'.epoch = guard.epoch, guard'.generation = guard.generation,
             guard'.shuttingDown = guard.shuttingDown
      PROVE  OneStep
  <2>1. ~Watched'
    BY <1>1, <1>4 DEF Watched, Ends, CanRespawn
  <2>2. ServerPermits' = ServerPermits
    BY <1>1, <1>4, PermitsStay
  <2> QED BY <1>4, <2>1, <2>2 DEF OneStep, One!Next, One!GiveUp, Mapped, ServerClosed
<1>5. CASE WatcherSeesDeath(w)
  <2>1. CASE ~CanRespawn(w)
    BY <1>3, <1>5, <2>1 DEF WatcherSeesDeath
  <2>2. CASE CanRespawn(w)
    <3> DEFINE down == [guard EXCEPT !.child = None]
    <3>1. /\ down \in Guards /\ down.epoch = guard.epoch /\ down.serves = guard.serves
          /\ down.generation = guard.generation /\ down.child = None
          /\ down.shuttingDown = guard.shuttingDown
      BY <1>1 DEF Guards
    <3>2. ~ChildLives
      BY <1>5, <2>2 DEF WatcherSeesDeath, CanRespawn, SidecarInv, WatcherFollows, ChildLives
    <3>3. PICK n \in NextAttempts(w) :
            \/ guard' = GivesUp(down) /\ Ends(w)
            \/ /\ guard' = down
               /\ Becomes(w, [w EXCEPT !.pc = "backoff", !.streak = n, !.total = @ + 1])
      BY <1>5, <2>2 DEF WatcherSeesDeath
    <3>4. UNCHANGED live
      BY <1>5 DEF WatcherSeesDeath
    <3> HIDE DEF down
    <3>5. /\ guard'.epoch = guard.epoch /\ guard'.serves = guard.serves
          /\ guard'.generation = guard.generation /\ guard'.child = None
          /\ guard'.shuttingDown = guard.shuttingDown
      BY <3>1, <3>3, GuardOps
    <3>6. ~ChildLives'
      BY <3>4, <3>5, NoneAssumption DEF ChildLives, SidecarInv, Typed, Procs
    <3>7. CASE Ends(w)
      BY <1>4, <2>2, <3>2, <3>4, <3>5, <3>6, <3>7
    <3>8. CASE Becomes(w, [w EXCEPT !.pc = "backoff", !.streak = n, !.total = @ + 1])
      <4> DEFINE v == [w EXCEPT !.pc = "backoff", !.streak = n, !.total = @ + 1]
      <4>1. v.gen = w.gen
        BY <1>1 DEF Watches
      <4>2. watchers' = (watchers \ {w}) \union {v}
        BY <3>8 DEF Becomes
      <4> HIDE DEF v
      <4>3. Watched' <=> Watched
        BY <3>5, <4>1, <4>2 DEF Watched
      <4> QED BY <1>1, <3>2, <3>5, <3>6, <4>3, PermitsStay, Stutters DEF OneStep
    <3> QED BY <3>3, <3>7, <3>8
  <2> QED BY <2>1, <2>2
<1>6. CASE WatcherProbes(w)
  <2>1. [w EXCEPT !.pc = "probing"].gen = w.gen
    BY <1>1 DEF Watches
  <2> QED BY <1>2, <1>6, <2>1 DEF WatcherProbes
<1>7. CASE WatcherRespawns(w)
  <2>1. w.gen = guard.generation => ~ChildLives /\ guard.child = None /\ guard.serves = w.ids
    BY <1>7, NobodyServes DEF WatcherRespawns, SidecarInv, WatcherFollows
  <2>2. CASE ~CanRespawn(w)
    BY <1>3, <1>7, <2>2 DEF WatcherRespawns
  <2>3. CASE CanRespawn(w) /\ Ends(w) /\ guard' = GivesUp(guard) /\ UNCHANGED live
    <3>1. /\ guard'.epoch = guard.epoch /\ guard'.child = guard.child
          /\ guard'.generation = guard.generation
          /\ guard'.shuttingDown = guard.shuttingDown
      BY <1>1, <2>3, GuardOps
    <3> QED BY <1>4, <2>1, <2>3, <3>1 DEF CanRespawn, ChildLives
  <2>4. CASE /\ CanRespawn(w) /\ Spawn(guard, w.ids)
             /\ Becomes(w, [w EXCEPT !.pc = "watching", !.proc = spawned])
    <3> DEFINE v == [w EXCEPT !.pc = "watching", !.proc = spawned]
    <3>1. v.gen = w.gen
      BY <1>1 DEF Watches
    <3>2. /\ watchers' = (watchers \ {w}) \union {v}
          /\ guard' = [guard EXCEPT !.child = spawned, !.serves = w.ids]
          /\ NewProc(w.ids) \in live' /\ NewProc(w.ids).id = spawned
      BY <2>4 DEF Becomes, Spawn, NewProc
    <3> HIDE DEF v
    <3>3. /\ guard'.child = spawned /\ guard'.serves = w.ids
          /\ guard'.generation = guard.generation /\ guard'.epoch = guard.epoch
          /\ guard'.shuttingDown = guard.shuttingDown
      BY <1>1, <3>2 DEF Guards
    <3>4. ChildLives' /\ Watched' /\ Watched
      BY <2>4, <3>1, <3>2, <3>3 DEF ChildLives, Watched, CanRespawn
    <3>5. ServerPermits' = ServerPermits
      BY <1>1, <3>3, PermitsStay
    <3> QED BY <2>1, <2>4, <3>3, <3>4, <3>5
            DEF OneStep, One!Next, One!Respawn, Mapped, CanRespawn, ServerClosed
  <2> QED BY <1>7, <2>2, <2>3, <2>4 DEF WatcherRespawns
<1> QED BY <1>5, <1>6, <1>7 DEF Watcher

LEMMA SidecarMaps ==
  ASSUME SidecarInv, SidecarInv', Mapped, Mapped', [SidecarNext]_sidecarVars
  PROVE  [One!Next]_(One!oneVars)
<1>1. CASE UNCHANGED sidecarVars
  BY <1>1, OtherGoesMaps DEF sidecarVars, OneStep
<1>2. CASE SidecarNext
  <2>1. OneStep
    BY <1>2, StartMaps, OthersMap, CrashMaps, ExitMaps, WatcherMaps DEF SidecarNext
  <2> QED BY <2>1 DEF OneStep
<1> QED BY <1>1, <1>2

LEMMA SidecarMapsInit == SidecarInit => One!Init
<1> SUFFICES ASSUME SidecarInit PROVE One!Init
  OBVIOUS
<1>1. \A c \in Starts : job[c].pc = "idle"
  BY DEF SidecarInit, Idle, Jobs
<1>2. ServerUp = None /\ ServerStanding = None
  BY DEF SidecarInit, ServerUp, ServerStanding
<1>3. ServerPermits = {}
  BY <1>1 DEF ServerPermits
<1>4. ServerClosed = FALSE
  BY DEF SidecarInit, FreshGuard, ServerClosed
<1> QED BY <1>2, <1>3, <1>4 DEF One!Init

(* The sidecar implements OneServer: at most one engine process serves, by  *)
(* permission of a start no stop has outdated, and a process that crashed   *)
(* is replaced by one that serves the same models, unless it was stopped.   *)
THEOREM SidecarImplementsOneServer == SidecarSpec => OneServer
<1>1. SidecarSpec => []SidecarInv
  BY SidecarInvInit, SidecarInvNext, PTL DEF SidecarSpec
<1> QED BY <1>1, SidecarMapsInit, SidecarMaps, MappedNow, PTL DEF SidecarSpec, OneServer, One!Spec

----------------------------------------------------------------------------
(* The sample loop: whoever was asked for has somebody who waits for it,    *)
(* and a loop that was started and runs is the view's.                      *)

(* The types, as far as the proof needs them.                               *)
LoopStates ==
  [boot : BootSteps, stopped : BOOLEAN, wants : SUBSET Attempts, held : Seq(Attempts),
   target : Nat, captureDenied : BOOLEAN, tick : Awaiting \cup {"idle", "timer"},
   port : Nat, stallReason : BOOLEAN, overdue : BOOLEAN, stallReported : BOOLEAN]
Views == [mounted : BOOLEAN, aiOn : BOOLEAN, denied : BOOLEAN, told : BOOLEAN,
          loop : 0..MaxLoops, all : BOOLEAN]

(* The types of the variables.                                              *)
LoopsTyped ==
  /\ slView \in Views
  /\ slAttempt \in [Attempts -> {"unused", "asked", "live", "refused", "over"}]
  /\ slStash \in SUBSET Attempts /\ slDropped \in SUBSET Attempts
  /\ slLoop \in [Loops -> LoopStates]
  /\ slEngine \in [state : {"warming", "healthy", "errored"}, port : Nat]

(* At most one attempt is awaited at a time.                                *)
Single(S) == \A a, b \in S : a = b

(* A boot waits for an attempt; a running loop holds its stream; an attempt *)
(* is open until it is refused or over.                                     *)
Waits(loop, a) == loop.boot = "acquiring" /\ a \in loop.wants
Holds(loop, a) == ~loop.stopped /\ a \in Range(loop.held)
Open == {a \in Attempts : slAttempt[a] \in {"asked", "live"}}

(* Whoever was asked for, and every live stream, has somebody who waits for *)
(* it or will stop it.                                                      *)
OpenAreOwned ==
  \A a \in Open :
    \/ a \in slStash \cup slDropped
    \/ \E l \in Loops : Waits(slLoop[l], a)
    \/ slAttempt[a] = "live" /\ \E l \in Loops : Holds(slLoop[l], a)

(* A loop that was started and runs is the view's; what it awaits is one;   *)
(* its chain is alive, and the view says what it reported.                  *)
LoopIsOwn(l, loop, view) ==
  /\ loop.boot = "none" => loop = NewLoop /\ view.loop # l
  /\ loop.boot = "over" => loop.stopped
  /\ loop.stopped \/ loop.boot = "none" \/ view.loop = l
  /\ Single(loop.wants)
  /\ loop.boot = "ready" /\ ~loop.stopped /\ loop.tick = "idle"
       => loop.captureDenied \/ ~view.aiOn
  /\ view.loop = l /\ ~loop.stopped => view.told = loop.stallReported
LoopsAreOwn == \A l \in Loops : LoopIsOwn(l, slLoop[l], slView)

(* The inductive invariant.                                                 *)
SampleInv == LoopsTyped /\ Single(slStash) /\ OpenAreOwned /\ LoopsAreOwn

(* The types once more, one by one.                                         *)
AttemptStates == {"unused", "asked", "live", "refused", "over"}
Engines == [state : {"warming", "healthy", "errored"}, port : Nat]

(* The loops are numbered from one; zero is no loop.                        *)
LEMMA LoopNumbers ==
  MaxLoops \in Nat \ {0} /\ 0 \notin Loops /\ Loops \subseteq 0..MaxLoops
BY SampleLoopAssumption DEF Loops

(* A view that has started no loop yet.                                     *)
LEMMA SampleStart == SampleInit => SampleInv
<1> SUFFICES ASSUME SampleInit PROVE SampleInv
  OBVIOUS
<1>1. NewLoop \in LoopStates /\ NewLoop.boot = "none" /\ NewLoop.wants = {}
      /\ ~NewLoop.stopped
  BY DEF NewLoop, LoopStates, BootSteps, Awaiting
<1>2. LoopsTyped
  BY <1>1, LoopNumbers, SampleLoopAssumption
     DEF SampleInit, LoopsTyped, Views
<1>3. Single(slStash) /\ OpenAreOwned
  BY DEF SampleInit, Single, OpenAreOwned, Open
<1>4. LoopsAreOwn
  BY <1>1, LoopNumbers DEF SampleInit, LoopsAreOwn, LoopIsOwn, Single
<1> QED BY <1>2, <1>3, <1>4 DEF SampleInv

(* One loop moves on to r. What it awaited or held it still awaits, holds   *)
(* or has dropped, and nobody else loses anything.                          *)
LEMMA LoopMoves ==
  ASSUME SampleInv, NEW l \in Loops, NEW r \in LoopStates,
         slLoop' = [slLoop EXCEPT ![l] = r],
         slView' \in Views, slAttempt' \in [Attempts -> AttemptStates],
         slStash' \in SUBSET Attempts, slDropped' \in SUBSET Attempts, slEngine' \in Engines,
         Single(slStash'), LoopIsOwn(l, r, slView'),
         slView'.aiOn = slView.aiOn,
         slView'.loop \in {slView.loop, l, 0},
         slView'.loop # slView.loop => slView.loop \in {0, l},
         slView'.loop # l => slView'.told = slView.told,
         \A a \in Open' : a \in Open \/ a \in slStash' \/ Waits(r, a),
         \A a \in Open \cap Open' : slAttempt'[a] = slAttempt[a],
         \A a \in Open' \cap (slStash \cup slDropped) :
           a \in slStash' \cup slDropped' \/ Waits(r, a),
         \A a \in Open' : Waits(slLoop[l], a) =>
           Waits(r, a) \/ a \in slDropped' \/ (slAttempt'[a] = "live" /\ Holds(r, a)),
         \A a \in Open' : slAttempt'[a] = "live" /\ Holds(slLoop[l], a) => Holds(r, a)
  PROVE  SampleInv'
<1>1. /\ slLoop' \in [Loops -> LoopStates] /\ slLoop'[l] = r
      /\ \A k \in Loops : k # l => slLoop'[k] = slLoop[k]
  BY DEF SampleInv, LoopsTyped
<1>2. LoopsTyped'
  BY <1>1 DEF LoopsTyped, AttemptStates, Engines
<1>3. LoopsAreOwn'
  <2> SUFFICES ASSUME NEW k \in Loops, k # l PROVE LoopIsOwn(k, slLoop[k], slView')
    BY <1>1 DEF LoopsAreOwn
  <2>1. LoopIsOwn(k, slLoop[k], slView)
    BY DEF SampleInv, LoopsAreOwn
  <2>2. k # 0
    BY LoopNumbers
  <2>3. slView'.loop = k <=> slView.loop = k
    BY <2>2
  <2> QED BY <2>1, <2>3 DEF LoopIsOwn
<1>4. OpenAreOwned'
  <2> SUFFICES ASSUME NEW a \in Open', a \notin slStash' \cup slDropped',
                      ~\E k \in Loops : Waits(slLoop'[k], a)
               PROVE  slAttempt'[a] = "live" /\ \E k \in Loops : Holds(slLoop'[k], a)
    BY DEF OpenAreOwned
  <2>1. a \in Open /\ slAttempt'[a] = slAttempt[a] /\ ~Waits(r, a)
    BY <1>1
  <2>2. a \notin slStash \cup slDropped
    BY <2>1
  <2>3. \/ \E k \in Loops : Waits(slLoop[k], a)
        \/ slAttempt[a] = "live" /\ \E k \in Loops : Holds(slLoop[k], a)
    BY <2>1, <2>2 DEF SampleInv, OpenAreOwned
  <2>4. CASE \E k \in Loops : Waits(slLoop[k], a)
    <3>1. Waits(slLoop[l], a)
      BY <1>1, <2>4
    <3> QED BY <1>1, <2>1, <3>1
  <2>5. CASE slAttempt[a] = "live" /\ \E k \in Loops : Holds(slLoop[k], a)
    BY <1>1, <2>1, <2>5
  <2> QED BY <2>3, <2>4, <2>5
<1> QED BY <1>2, <1>3, <1>4 DEF SampleInv

(* Stopping the tracks of streams opens none.                               *)
LEMMA StoppedIs ==
  ASSUME LoopsTyped, NEW S
  PROVE  /\ Stopped(S, slAttempt) \in [Attempts -> AttemptStates]
         /\ \A a \in Attempts :
              Stopped(S, slAttempt)[a] \in {"asked", "live"} =>
                /\ a \in Open /\ Stopped(S, slAttempt)[a] = slAttempt[a]
                /\ ~(a \in S /\ slAttempt[a] = "live")
BY DEF Stopped, LoopsTyped, AttemptStates, Open

(* A loop that is torn down has stopped, at the same point of its boot.     *)
LEMMA TornDownIs ==
  ASSUME NEW loop \in LoopStates
  PROVE  /\ TornDown(loop) \in LoopStates /\ TornDown(loop).stopped
         /\ TornDown(loop).boot = loop.boot /\ TornDown(loop).wants = loop.wants
<1>1. NewLoop \in LoopStates
  BY DEF NewLoop, LoopStates, BootSteps, Awaiting
<1>2. loop.tick \in Awaiting \cup {"idle", "timer"} /\ loop.boot \in BootSteps
      /\ loop.wants \in SUBSET Attempts
  BY DEF LoopStates
<1> DEFINE t == IF loop.tick = "timer" THEN "idle" ELSE loop.tick
<1>3. t \in Awaiting \cup {"idle", "timer"}
  BY <1>2
<1>4. TornDown(loop) = IF loop.stopped THEN loop
        ELSE [NewLoop EXCEPT !.stopped = TRUE, !.boot = loop.boot, !.wants = loop.wants,
                             !.tick = t]
  BY DEF TornDown
<1> HIDE DEF t
<1>5. CASE loop.stopped
  BY <1>4, <1>5
<1>6. CASE ~loop.stopped
  <2> DEFINE n == NewLoop
  <2>1. TornDown(loop) = [n EXCEPT !.stopped = TRUE, !.boot = loop.boot,
                                   !.wants = loop.wants, !.tick = t]
    BY <1>4, <1>6
  <2> HIDE DEF n
  <2>2. n \in LoopStates
    BY <1>1 DEF n
  <2> DEFINE n1 == [n EXCEPT !.stopped = TRUE]
             n2 == [n1 EXCEPT !.boot = loop.boot]
             n3 == [n2 EXCEPT !.wants = loop.wants]
             n4 == [n3 EXCEPT !.tick = t]
  <2>3. TornDown(loop) = n4
    BY <2>1
  <2>4. n1 \in LoopStates /\ n1.stopped
    BY <2>2 DEF LoopStates
  <2> HIDE DEF n1
  <2>5. n2 \in LoopStates /\ n2.stopped /\ n2.boot = loop.boot
    BY <1>2, <2>4 DEF LoopStates
  <2> HIDE DEF n2
  <2>6. /\ n3 \in LoopStates /\ n3.stopped /\ n3.boot = loop.boot
        /\ n3.wants = loop.wants
    BY <1>2, <2>5 DEF LoopStates
  <2> HIDE DEF n3
  <2>7. /\ n4 \in LoopStates /\ n4.stopped /\ n4.boot = loop.boot
        /\ n4.wants = loop.wants
    BY <1>3, <2>6 DEF LoopStates
  <2> HIDE DEF n4
  <2> QED BY <2>3, <2>7
<1> QED BY <1>5, <1>6

(* Tearing down a loop that has passed to another point of its boot.        *)
LEMMA TearsDownKeeps ==
  ASSUME SampleInv, NEW l \in Loops, NEW loop \in LoopStates, TearsDown(l, loop),
         loop.held = slLoop[l].held, loop.boot # "none", Single(loop.wants),
         slView' \in Views, slStash' \in SUBSET Attempts, slDropped' \in SUBSET Attempts,
         Single(slStash'), UNCHANGED slEngine,
         slView'.aiOn = slView.aiOn, slView'.told = slView.told,
         slView'.loop \in {slView.loop, 0},
         slView'.loop # slView.loop => slView.loop \in {0, l},
         slStash \cup slDropped \subseteq slStash' \cup slDropped',
         \A a \in Open : Waits(slLoop[l], a) => Waits(loop, a) \/ a \in slDropped'
  PROVE  SampleInv'
<1> DEFINE r == TornDown(loop)
<1>1. r \in LoopStates /\ r.stopped /\ r.boot = loop.boot /\ r.wants = loop.wants
  BY TornDownIs
<1>2. slLoop' = [slLoop EXCEPT ![l] = r] /\ slAttempt' = Stopped(Range(loop.held), slAttempt)
  BY DEF TearsDown
<1> HIDE DEF r
<1>3. /\ slAttempt' \in [Attempts -> AttemptStates]
      /\ \A a \in Open' : /\ a \in Open /\ slAttempt'[a] = slAttempt[a]
                          /\ ~(a \in Range(loop.held) /\ slAttempt[a] = "live")
  BY <1>2, StoppedIs DEF SampleInv, Open
<1>4. LoopIsOwn(l, r, slView')
  BY <1>1 DEF LoopIsOwn
<1>5. slEngine' \in Engines
  BY DEF SampleInv, LoopsTyped, Engines
<1>6. \A a \in Open' : ~(slAttempt'[a] = "live" /\ Holds(slLoop[l], a))
  BY <1>3 DEF Holds
<1>7. \A a \in Attempts : Waits(r, a) <=> Waits(loop, a)
  BY <1>1 DEF Waits
<1>8. Open' \subseteq Attempts
  BY DEF Open
<1> QED BY <1>1, <1>2, <1>3, <1>4, <1>5, <1>6, <1>7, <1>8, LoopMoves

(* The tick of a loop, which leaves its boot and its streams alone.         *)
Alike(r, loop) ==
  /\ r \in LoopStates /\ r.boot = loop.boot /\ r.stopped = loop.stopped
  /\ r.wants = loop.wants /\ r.held = loop.held /\ r.captureDenied = loop.captureDenied
  /\ loop.stopped => r.stallReported = loop.stallReported

(* A tick moves on: its chain goes on, or has a reason not to.              *)
LEMMA TickMoves ==
  ASSUME SampleInv, NEW l \in Loops, NEW r, Alike(r, slLoop[l]),
         slLoop[l].tick # "idle" \/ slLoop[l].boot # "none",
         r.tick = "idle" => r.stopped \/ r.captureDenied \/ ~slView.aiOn,
         slLoop' = [slLoop EXCEPT ![l] = r],
         Tells(l, r) \/ (UNCHANGED slView /\ r.stallReported = slLoop[l].stallReported),
         UNCHANGED <<slAttempt, slStash, slDropped, slEngine>>
  PROVE  SampleInv'
<1> DEFINE loop == slLoop[l]
<1>1. loop \in LoopStates /\ LoopIsOwn(l, loop, slView) /\ loop.boot # "none"
  <2>1. loop \in LoopStates /\ LoopIsOwn(l, loop, slView)
    BY DEF SampleInv, LoopsTyped, LoopsAreOwn
  <2>2. NewLoop.tick = "idle"
    BY DEF NewLoop
  <2> QED BY <2>1, <2>2 DEF LoopIsOwn
<1>2. slView' = [slView EXCEPT !.told =
                   IF r.stallReported # loop.stallReported THEN r.stallReported ELSE @]
      \/ (UNCHANGED slView /\ r.stallReported = loop.stallReported)
  BY DEF Tells
<1>3. r \in LoopStates /\ r.boot = loop.boot /\ r.stopped = loop.stopped
      /\ r.wants = loop.wants /\ r.held = loop.held
      /\ (loop.stopped => r.stallReported = loop.stallReported)
  BY DEF Alike
<1>4. slView \in Views /\ r.stallReported \in BOOLEAN
  BY <1>3 DEF SampleInv, LoopsTyped, LoopStates
<1> HIDE DEF loop
<1>5. /\ slView' \in Views /\ slView'.aiOn = slView.aiOn /\ slView'.loop = slView.loop
      /\ slView'.told = IF r.stallReported # loop.stallReported THEN r.stallReported
                        ELSE slView.told
  BY <1>2, <1>4 DEF Views
<1>6. slView.loop = l \/ loop.stopped
  BY <1>1 DEF LoopIsOwn
<1>7. slView'.loop # l => slView'.told = slView.told
  BY <1>3, <1>5, <1>6
<1>8. LoopIsOwn(l, r, slView')
  BY <1>1, <1>3, <1>5 DEF LoopIsOwn
<1>9. /\ slAttempt' \in [Attempts -> AttemptStates] /\ slStash' \in SUBSET Attempts
      /\ slDropped' \in SUBSET Attempts /\ slEngine' \in Engines /\ Single(slStash')
      /\ Open' = Open
  BY DEF SampleInv, LoopsTyped, AttemptStates, Engines, Single, Open
<1>10. \A a : (Waits(loop, a) <=> Waits(r, a)) /\ (Holds(loop, a) <=> Holds(r, a))
  BY <1>3 DEF Waits, Holds
<1>11. loop = slLoop[l]
  BY DEF loop
<1> QED BY <1>3, <1>5, <1>7, <1>8, <1>9, <1>10, <1>11, LoopMoves

(* What the helpers of a tick do to its loop.                               *)
LEMMA TickHelpers ==
  ASSUME NEW loop \in LoopStates
  PROVE  /\ Alike(Scheduled(loop), loop)
         /\ Scheduled(loop).tick = IF loop.stopped THEN "idle" ELSE "timer"
         /\ Scheduled(loop).stallReported = loop.stallReported
         /\ Alike(StallReset(loop), loop) /\ StallReset(loop).tick = loop.tick
         /\ StallReset(loop).stallReported = loop.stallReported
         /\ Alike(Evaluated(loop), loop) /\ Evaluated(loop).tick = loop.tick
<1>1. StallIsDue(loop) \in BOOLEAN /\ (loop.stopped => ~StallIsDue(loop))
  BY DEF StallIsDue
<1>2. (loop.stallReported \/ StallIsDue(loop)) \in BOOLEAN
  OBVIOUS
<1>3. Alike(Scheduled(loop), loop)
      /\ Scheduled(loop).tick = (IF loop.stopped THEN "idle" ELSE "timer")
      /\ Scheduled(loop).stallReported = loop.stallReported
  BY DEF Scheduled, Alike, LoopStates
<1>4. Alike(StallReset(loop), loop) /\ StallReset(loop).tick = loop.tick
      /\ StallReset(loop).stallReported = loop.stallReported
  BY DEF StallReset, Alike, LoopStates
<1>5. Alike(Evaluated(loop), loop) /\ Evaluated(loop).tick = loop.tick
  <2> DEFINE due == loop.stallReported \/ StallIsDue(loop)
  <2>1. due \in BOOLEAN /\ (loop.stopped => due = loop.stallReported)
    BY <1>1, <1>2 DEF LoopStates
  <2>2. Evaluated(loop) = [loop EXCEPT !.stallReported = due]
    BY DEF Evaluated
  <2> HIDE DEF due
  <2> QED BY <2>1, <2>2 DEF Alike, LoopStates
<1> QED BY <1>3, <1>4, <1>5

(* Two of them in a row.                                                    *)
LEMMA AlikeTwice ==
  ASSUME NEW r, NEW s, NEW t, Alike(r, s), Alike(s, t)
  PROVE  Alike(r, t)
BY DEF Alike

(* A tick that was blocked, and one whose sample was taken.                 *)
LEMMA BlockedIs ==
  ASSUME NEW loop \in LoopStates
  PROVE  /\ Alike(Blocked(loop), loop) /\ Blocked(loop).tick = loop.tick
         /\ Alike(Resolved(loop), loop) /\ Resolved(loop).tick = loop.tick
<1> DEFINE b == [loop EXCEPT !.stallReason = TRUE]
           q == [StallReset(loop) EXCEPT !.stallReported = FALSE]
<1>1. Alike(b, loop) /\ b.tick = loop.tick
  BY DEF Alike, LoopStates
<1>2. Alike(loop, loop)
  BY DEF Alike
<1>3. b \in LoopStates
  BY <1>1 DEF Alike
<1>4. ~loop.stopped => Alike(q, loop) /\ q.tick = loop.tick
  <2> DEFINE s == StallReset(loop)
  <2>1. Alike(s, loop) /\ s.tick = loop.tick
    BY TickHelpers
  <2>2. q = [s EXCEPT !.stallReported = FALSE]
    OBVIOUS
  <2> HIDE DEF s, q
  <2> QED BY <2>1, <2>2 DEF Alike, LoopStates
<1>5. Blocked(loop) = IF loop.stopped THEN loop ELSE Evaluated(b)
  BY DEF Blocked
<1>6. Resolved(loop) = IF loop.stopped THEN loop ELSE q
  BY DEF Resolved
<1> HIDE DEF b, q
<1>7. Alike(Evaluated(b), loop) /\ Evaluated(b).tick = loop.tick
  BY <1>1, <1>3, TickHelpers, AlikeTwice
<1> QED BY <1>2, <1>4, <1>5, <1>6, <1>7

(* What the invariant says of one loop.                                     *)
LEMMA OfLoop ==
  ASSUME SampleInv, NEW l \in Loops
  PROVE  slLoop[l] \in LoopStates /\ LoopIsOwn(l, slLoop[l], slView)
BY DEF SampleInv, LoopsTyped, LoopsAreOwn

(* A denial and the AI switch end the chain.                                *)
LEMMA TickEndsKeeps ==
  ASSUME SampleInv, NEW l \in Loops, TickEnds(l)
  PROVE  SampleInv'
<1> DEFINE loop == slLoop[l]
           base == IF loop.captureDenied THEN loop ELSE StallReset(loop)
           r == [base EXCEPT !.tick = "idle"]
<1>1. /\ loop.tick = "timer" /\ (loop.captureDenied \/ ~slView.aiOn)
      /\ slLoop' = [slLoop EXCEPT ![l] = r]
      /\ UNCHANGED <<slView, slAttempt, slStash, slDropped, slEngine>>
  BY DEF TickEnds, TickIsDue
<1>2. loop \in LoopStates
  BY OfLoop
<1>3. Alike(base, loop) /\ base.stallReported = loop.stallReported
  <2>1. Alike(loop, loop)
    BY <1>2 DEF Alike
  <2> QED BY <1>2, <2>1, TickHelpers
<1> HIDE DEF base
<1>4. Alike(r, loop) /\ r.tick = "idle" /\ r.stallReported = loop.stallReported
  BY <1>3 DEF Alike, LoopStates
<1>5. r.captureDenied = loop.captureDenied
  BY <1>4 DEF Alike
<1> HIDE DEF r
<1> QED BY <1>1, <1>4, <1>5, TickMoves

(* The many ways on: the next tick is armed, or the loop has stopped.       *)
LEMMA ReschedulesKeeps ==
  ASSUME SampleInv, NEW l \in Loops, NEW s, Alike(s, slLoop[l]), slLoop[l].tick # "idle",
         LoopBecomes(l, Scheduled(s)),
         UNCHANGED <<slAttempt, slStash, slDropped, slEngine>>
  PROVE  SampleInv'
<1>1. s \in LoopStates
  BY DEF Alike
<1>2. Alike(Scheduled(s), slLoop[l])
      /\ (Scheduled(s).tick = "idle" => Scheduled(s).stopped)
  BY <1>1, TickHelpers, AlikeTwice DEF Alike
<1> DEFINE r == Scheduled(s)
<1>3. Alike(r, slLoop[l]) /\ (r.tick = "idle" => r.stopped)
      /\ slLoop' = [slLoop EXCEPT ![l] = r] /\ Tells(l, r)
  BY <1>2 DEF LoopBecomes
<1> HIDE DEF r
<1> QED BY <1>3, TickMoves

(* Pauses, blocks, failures and reports arm the next tick.                  *)
LEMMA BlockedTicksKeep ==
  ASSUME SampleInv, NEW l \in Loops,
         \/ TickPauses(l) \/ StatusRefreshed(l) \/ TickLacksInput(l) \/ AskFails(l)
         \/ ReportEnds(l) \/ ReportDeadline(l)
  PROVE  SampleInv'
<1> DEFINE loop == slLoop[l]
<1>1. loop \in LoopStates
  BY OfLoop
<1>2. Alike(StallReset(loop), loop) /\ Alike(Blocked(loop), loop) /\ Alike(loop, loop)
  BY <1>1, TickHelpers, BlockedIs DEF Alike
<1>3. /\ loop.tick # "idle" /\ UNCHANGED <<slAttempt, slStash, slDropped, slEngine>>
      /\ \/ LoopBecomes(l, Scheduled(StallReset(loop))) \/ LoopBecomes(l, Scheduled(Blocked(loop)))
         \/ LoopBecomes(l, Scheduled(loop))
  BY DEF TickPauses, StatusRefreshed, TickLacksInput, AskFails, ReportEnds, ReportDeadline,
         DeadlineResolves, TickIsDue
<1> HIDE DEF loop
<1>4. loop = slLoop[l]
  BY DEF loop
<1> QED BY <1>2, <1>3, <1>4, ReschedulesKeeps

(* The engine is still warming up.                                          *)
LEMMA TickFindsEngineKeeps ==
  ASSUME SampleInv, NEW l \in Loops, TickFindsEngine(l)
  PROVE  SampleInv'
<1> DEFINE r == [slLoop[l] EXCEPT !.tick = "warming"]
<1>1. /\ slLoop[l].tick # "idle" /\ slLoop' = [slLoop EXCEPT ![l] = r]
      /\ UNCHANGED <<slView, slAttempt, slStash, slDropped, slEngine>>
  BY DEF TickFindsEngine, TickIsDue
<1>2. Alike(r, slLoop[l]) /\ r.tick = "warming" /\ r.stallReported = slLoop[l].stallReported
  BY OfLoop DEF Alike, LoopStates, Awaiting
<1> HIDE DEF r
<1> QED BY <1>1, <1>2, TickMoves

(* A capture returns, to an engine that may have moved, or fails.           *)
LEMMA CaptureReturnsKeeps ==
  ASSUME SampleInv, NEW l \in Loops, CaptureReturns(l) \/ CaptureFails(l)
  PROVE  SampleInv'
<1> DEFINE loop == slLoop[l]
           out == [loop EXCEPT !.port = 0]
           idle == [loop EXCEPT !.tick = "idle"]
           ask == [loop EXCEPT !.tick = "asking", !.port = 0]
<1>1. /\ loop.tick # "idle" /\ UNCHANGED <<slAttempt, slStash, slDropped, slEngine>>
      /\ \/ LoopBecomes(l, Scheduled(Blocked(out)))
         \/ loop.stopped /\ LoopBecomes(l, idle)
         \/ LoopBecomes(l, ask)
  BY DEF CaptureReturns, CaptureFails
<1>2. loop \in LoopStates
  BY OfLoop
<1>3. Alike(out, loop) /\ Alike(idle, loop) /\ Alike(ask, loop) /\ ask.tick = "asking"
  BY <1>2 DEF Alike, LoopStates, Awaiting
<1>4. Alike(Blocked(out), loop)
  <2>1. out \in LoopStates
    BY <1>3 DEF Alike
  <2> HIDE DEF out, loop
  <2> QED BY <1>3, <2>1, BlockedIs, AlikeTwice
<1>5. loop.stopped => idle.stopped
  BY <1>3 DEF Alike
<1> HIDE DEF loop, out, idle, ask
<1>6. loop = slLoop[l]
  BY DEF loop
<1>7. CASE LoopBecomes(l, Scheduled(Blocked(out)))
  BY <1>1, <1>4, <1>6, <1>7, ReschedulesKeeps
<1>8. CASE loop.stopped /\ LoopBecomes(l, idle)
  BY <1>1, <1>3, <1>5, <1>6, <1>8, TickMoves DEF LoopBecomes
<1>9. CASE LoopBecomes(l, ask)
  BY <1>1, <1>3, <1>6, <1>9, TickMoves DEF LoopBecomes
<1> QED BY <1>1, <1>7, <1>8, <1>9

(* The engine answers.                                                      *)
LEMMA FrameAnsweredKeeps ==
  ASSUME SampleInv, NEW l \in Loops, FrameAnswered(l)
  PROVE  SampleInv'
<1> DEFINE s == Resolved(slLoop[l])
           r == [s EXCEPT !.tick = "reporting"]
<1>1. /\ slLoop[l].tick # "idle" /\ slLoop' = [slLoop EXCEPT ![l] = r] /\ Tells(l, r)
      /\ UNCHANGED <<slAttempt, slStash, slDropped, slEngine>>
  BY DEF FrameAnswered, LoopBecomes
<1>2. Alike(s, slLoop[l])
  BY OfLoop, BlockedIs
<1> HIDE DEF s
<1>3. Alike(r, slLoop[l]) /\ r.tick = "reporting"
  BY <1>2 DEF Alike, LoopStates, Awaiting
<1> HIDE DEF r
<1> QED BY <1>1, <1>3, TickMoves

(* The watchdog: the chain stands where it stood.                           *)
LEMMA WatchdogKeeps ==
  ASSUME SampleInv, NEW l \in Loops, TwoMinutesPass(l) \/ StallTick(l)
  PROVE  SampleInv'
<1> DEFINE loop == slLoop[l]
           late == [loop EXCEPT !.overdue = TRUE]
           r == Evaluated(loop)
<1>1. /\ loop.boot = "ready" /\ UNCHANGED <<slAttempt, slStash, slDropped, slEngine>>
      /\ \/ slLoop' = [slLoop EXCEPT ![l] = late] /\ UNCHANGED slView
         \/ slLoop' = [slLoop EXCEPT ![l] = r] /\ Tells(l, r)
  BY DEF TwoMinutesPass, StallTick, LoopBecomes
<1>2. loop \in LoopStates /\ LoopIsOwn(l, loop, slView)
  BY OfLoop
<1>3. Alike(late, loop) /\ late.tick = loop.tick /\ late.stallReported = loop.stallReported
  BY <1>2 DEF Alike, LoopStates
<1>4. Alike(r, loop) /\ r.tick = loop.tick
  BY <1>2, TickHelpers
<1>5. loop.tick = "idle" => loop.stopped \/ loop.captureDenied \/ ~slView.aiOn
  BY <1>1, <1>2 DEF LoopIsOwn
<1> HIDE DEF late, r
<1>6. (late.tick = "idle" => late.stopped \/ late.captureDenied \/ ~slView.aiOn)
      /\ (r.tick = "idle" => r.stopped \/ r.captureDenied \/ ~slView.aiOn)
  BY <1>3, <1>4, <1>5 DEF Alike
<1> HIDE DEF loop
<1>7. loop = slLoop[l]
  BY DEF loop
<1>8. CASE slLoop' = [slLoop EXCEPT ![l] = late] /\ UNCHANGED slView
  BY <1>1, <1>3, <1>6, <1>7, <1>8, TickMoves
<1>9. CASE slLoop' = [slLoop EXCEPT ![l] = r] /\ Tells(l, r)
  BY <1>1, <1>4, <1>6, <1>7, <1>9, TickMoves
<1> QED BY <1>1, <1>8, <1>9

(* Coming back from a demotion releases every display but the first.        *)
LEMMA TickCapturesKeeps ==
  ASSUME SampleInv, NEW l \in Loops, TickCaptures(l)
  PROVE  SampleInv'
<1> DEFINE loop == slLoop[l]
           kept == IF slView.all THEN loop.held ELSE SubSeq(loop.held, 1, 1)
           r == [loop EXCEPT !.tick = "capturing", !.port = slEngine.port, !.held = kept]
<1>1. /\ loop.tick = "timer" /\ LiveHeld(loop) # {} /\ slLoop' = [slLoop EXCEPT ![l] = r]
      /\ slAttempt' = Stopped(Range(loop.held) \ Range(kept), slAttempt)
      /\ UNCHANGED <<slView, slStash, slDropped, slEngine>>
  BY DEF TickCaptures, TickIsDue, Capturable
<1>2. loop \in LoopStates /\ LoopIsOwn(l, loop, slView) /\ slEngine.port \in Nat
  BY OfLoop DEF SampleInv, LoopsTyped
<1>3. loop.held \in Seq(Attempts) /\ kept \in Seq(Attempts)
  <2>1. loop.held \in Seq(Attempts) /\ Len(loop.held) \in Nat \ {0}
    BY <1>1, <1>2 DEF LoopStates, LiveHeld, Range
  <2>2. SubSeq(loop.held, 1, 1) \in Seq(Attempts)
    BY <2>1
  <2> QED BY <2>1, <2>2
<1> HIDE DEF kept
<1>5. /\ r \in LoopStates /\ r.boot = loop.boot /\ r.stopped = loop.stopped
      /\ r.wants = loop.wants /\ r.held = kept /\ r.captureDenied = loop.captureDenied
      /\ r.stallReported = loop.stallReported /\ r.tick = "capturing"
  BY <1>2, <1>3 DEF LoopStates, Awaiting
<1>6. loop.boot # "none"
  BY <1>1, <1>2 DEF LoopIsOwn, NewLoop
<1> HIDE DEF r, loop
<1>7. LoopIsOwn(l, r, slView)
  BY <1>2, <1>5, <1>6 DEF LoopIsOwn
<1>8. /\ slAttempt' \in [Attempts -> AttemptStates]
      /\ \A a \in Open' : /\ a \in Open /\ slAttempt'[a] = slAttempt[a]
                          /\ slAttempt[a] = "live" => a \notin Range(loop.held) \ Range(kept)
  BY <1>1, StoppedIs DEF SampleInv, Open
<1>9. /\ slView' = slView /\ slView \in Views /\ slStash' \in SUBSET Attempts
      /\ slDropped' \in SUBSET Attempts /\ slEngine' \in Engines /\ Single(slStash')
  BY <1>1 DEF SampleInv, LoopsTyped, Engines, Single
<1>10. \A a : Waits(loop, a) <=> Waits(r, a)
  BY <1>5 DEF Waits
<1>11. \A a \in Open' : slAttempt'[a] = "live" /\ Holds(loop, a) => Holds(r, a)
  BY <1>5, <1>8 DEF Holds
<1>12. loop = slLoop[l]
  BY DEF loop
<1>13. \A a \in slStash \cup slDropped : a \in slStash' \cup slDropped'
  BY <1>1
<1> QED BY <1>1, <1>5, <1>7, <1>8, <1>9, <1>10, <1>11, <1>12, <1>13, LoopMoves

----------------------------------------------------------------------------
(* A boot asks for the next stream, once the one it awaited is its own.     *)
LEMMA AsksKeeps ==
  ASSUME SampleInv, NEW l \in Loops, NEW loop \in LoopStates, AsksForCapture(l, loop),
         UNCHANGED <<slView, slDropped, slEngine>>,
         slLoop[l].boot # "none", ~slLoop[l].stopped, ~loop.stopped,
         Range(slLoop[l].held) \subseteq Range(loop.held),
         loop.stallReported = slLoop[l].stallReported,
         \A a \in Attempts : Waits(slLoop[l], a) => a \in Range(loop.held)
                                                    /\ slAttempt[a] # "asked"
  PROVE  SampleInv'
<1> DEFINE r(W) == [loop EXCEPT !.boot = "acquiring", !.wants = W]
<1>1. PICK W \in SUBSET Attempts :
        /\ slLoop' = [slLoop EXCEPT ![l] = r(W)] /\ Single(W)
        /\ \/ W = slStash /\ slStash' = {} /\ UNCHANGED slAttempt
           \/ \E a \in Unused : W = {a} /\ slStash = {} /\ UNCHANGED slStash
                                 /\ slAttempt' = [slAttempt EXCEPT ![a] = "asked"]
           \/ W = {} /\ UNCHANGED <<slStash, slAttempt>>
  <2>1. Single(slStash) /\ slStash \in SUBSET Attempts /\ Single({}) /\ (\A a : Single({a}))
    BY DEF SampleInv, LoopsTyped, Single
  <2>2. CASE slStash # {} /\ slLoop' = [slLoop EXCEPT ![l] = r(slStash)] /\ slStash' = {}
             /\ UNCHANGED slAttempt
    BY <2>1, <2>2
  <2>3. CASE \E a \in Unused :
               /\ slStash = {} /\ slAttempt' = [slAttempt EXCEPT ![a] = "asked"]
               /\ slLoop' = [slLoop EXCEPT ![l] = r({a})] /\ UNCHANGED slStash
    <3>1. Unused \subseteq Attempts
      BY DEF Unused
    <3> QED BY <2>1, <2>3, <3>1
  <2>4. CASE slLoop' = [slLoop EXCEPT ![l] = r({})] /\ UNCHANGED <<slAttempt, slStash>>
    BY <2>1, <2>4
  <2> QED BY <2>2, <2>3, <2>4 DEF AsksForCapture
<1> DEFINE n == r(W)
<1>2. /\ n \in LoopStates /\ n.boot = "acquiring" /\ n.wants = W /\ ~n.stopped
      /\ n.held = loop.held /\ n.stallReported = loop.stallReported
  BY DEF LoopStates, BootSteps
<1> HIDE DEF n
<1>3. slLoop' = [slLoop EXCEPT ![l] = n]
  BY <1>1 DEF n
<1>4. LoopIsOwn(l, slLoop[l], slView)
  BY OfLoop
<1>5. LoopIsOwn(l, n, slView)
  BY <1>1, <1>2, <1>4 DEF LoopIsOwn
<1>6. /\ slAttempt \in [Attempts -> AttemptStates] /\ slView \in Views
      /\ slStash \in SUBSET Attempts /\ slDropped \in SUBSET Attempts /\ slEngine \in Engines
      /\ Single(slStash) /\ Single({})
  BY DEF SampleInv, LoopsTyped, AttemptStates, Engines, Single
<1>7. /\ slAttempt' \in [Attempts -> AttemptStates] /\ slStash' \in SUBSET Attempts
      /\ Single(slStash')
      /\ \A a \in Open' : (a \in Open /\ slAttempt'[a] = slAttempt[a]) \/ a \in W
      /\ \A a \in Open \cap Open' : slAttempt'[a] = slAttempt[a]
      /\ \A a \in slStash : a \in slStash' \/ a \in W
  <2>1. CASE UNCHANGED slAttempt
    BY <1>1, <1>6, <2>1 DEF Open, Unused
  <2>2. CASE \E a \in Unused : W = {a} /\ slStash = {} /\ UNCHANGED slStash
                                 /\ slAttempt' = [slAttempt EXCEPT ![a] = "asked"]
    BY <1>6, <2>2 DEF Open, Unused, AttemptStates
  <2> QED BY <1>1, <2>1, <2>2
<1>8. \A a \in W : Waits(n, a)
  BY <1>2 DEF Waits
<1>9. \A a \in Open' : slAttempt'[a] = "live" /\ Holds(slLoop[l], a) => Holds(n, a)
  BY <1>2 DEF Holds
<1>10. ASSUME NEW a \in Open', Waits(slLoop[l], a), a \notin W
       PROVE  slAttempt'[a] = "live" /\ Holds(n, a)
  <2>1. a \in Open /\ slAttempt'[a] = slAttempt[a] /\ a \in Attempts
    BY <1>7, <1>10 DEF Open
  <2>2. a \in Range(loop.held) /\ slAttempt[a] # "asked"
    BY <1>10, <2>1
  <2> QED BY <1>2, <2>1, <2>2 DEF Holds, Open
<1> HIDE DEF r
<1> QED BY <1>2, <1>3, <1>5, <1>6, <1>7, <1>8, <1>9, <1>10, LoopMoves

(* A boot goes on: its loop runs or has stopped as before.                  *)
LEMMA BootMoves ==
  ASSUME SampleInv, NEW l \in Loops, NEW r \in LoopStates,
         slLoop' = [slLoop EXCEPT ![l] = r],
         slLoop[l].boot # "none", r.boot # "none", r.stopped = slLoop[l].stopped,
         r.boot = "over" => r.stopped,
         r.boot = "ready" => r.stopped \/ r.tick # "idle",
         r.stallReported = slLoop[l].stallReported, Single(r.wants),
         Range(slLoop[l].held) \subseteq Range(r.held),
         UNCHANGED <<slView, slAttempt, slStash, slEngine>>,
         slDropped' \in SUBSET Attempts, slDropped \subseteq slDropped',
         \A a \in Open : Waits(slLoop[l], a) =>
           Waits(r, a) \/ a \in slDropped' \/ (slAttempt[a] = "live" /\ Holds(r, a))
  PROVE  SampleInv'
<1>1. LoopIsOwn(l, slLoop[l], slView)
  BY OfLoop
<1>2. LoopIsOwn(l, r, slView')
  BY <1>1 DEF LoopIsOwn
<1>3. /\ slAttempt' \in [Attempts -> AttemptStates] /\ slView' \in Views
      /\ slStash' \in SUBSET Attempts /\ slEngine' \in Engines /\ Single(slStash')
      /\ Open' = Open
  BY DEF SampleInv, LoopsTyped, AttemptStates, Engines, Single, Open
<1>4. \A a : Holds(slLoop[l], a) => Holds(r, a)
  BY DEF Holds
<1> QED BY <1>2, <1>3, <1>4, LoopMoves

(* The view starts a loop that is new.                                      *)
LEMMA EffectStartsKeeps ==
  ASSUME SampleInv, NEW l \in Loops, EffectStarts(l)
  PROVE  SampleInv'
<1> DEFINE loop == slLoop[l]
           r == [loop EXCEPT !.boot = "preflight"]
<1>1. /\ slView.loop = 0 /\ loop.boot = "none" /\ slLoop' = [slLoop EXCEPT ![l] = r]
      /\ slView' = [slView EXCEPT !.loop = l, !.told = FALSE]
      /\ UNCHANGED <<slAttempt, slStash, slDropped, slEngine>>
  BY DEF EffectStarts
<1>2. loop \in LoopStates /\ LoopIsOwn(l, loop, slView)
  BY OfLoop
<1>3. loop = NewLoop
  BY <1>1, <1>2 DEF LoopIsOwn
<1>4. loop.wants = {} /\ loop.held = <<>> /\ loop.stallReported = FALSE
  BY <1>3 DEF NewLoop
<1>5. /\ r \in LoopStates /\ r.boot = "preflight" /\ r.wants = {} /\ r.held = <<>>
      /\ r.stallReported = FALSE
  BY <1>2, <1>4 DEF LoopStates, BootSteps
<1> HIDE DEF r
<1>6. /\ slView' \in Views /\ slView'.aiOn = slView.aiOn /\ slView'.loop = l
      /\ slView'.told = FALSE
  BY <1>1, LoopNumbers DEF SampleInv, LoopsTyped, Views
<1>7. LoopIsOwn(l, r, slView')
  BY <1>2, <1>5, <1>6 DEF LoopIsOwn, Single
<1>8. /\ slAttempt' \in [Attempts -> AttemptStates] /\ slDropped' \in SUBSET Attempts
      /\ slStash' \in SUBSET Attempts /\ slEngine' \in Engines /\ Single(slStash')
      /\ Open' = Open
  BY <1>1 DEF SampleInv, LoopsTyped, AttemptStates, Engines, Single, Open
<1>9. \A a : ~Waits(loop, a) /\ ~Holds(loop, a)
  BY <1>4 DEF Waits, Holds, Range
<1> QED BY <1>1, <1>5, <1>6, <1>7, <1>8, <1>9, LoopMoves

(* The preflight fails, or ends and asks for the screen.                    *)
LEMMA PreflightFailsKeeps ==
  ASSUME SampleInv, NEW l \in Loops, NEW b \in BOOLEAN, PreflightFails(l, b)
  PROVE  SampleInv'
<1> DEFINE loop == [slLoop[l] EXCEPT !.boot = "over"]
<1>1. /\ slLoop[l].boot = "preflight" /\ TearsDown(l, loop) /\ UNCHANGED <<slView, slEngine>>
      /\ \/ slStash' = {} /\ slDropped' = slDropped \cup slStash
         \/ UNCHANGED <<slStash, slDropped>>
  BY DEF PreflightFails, StashDiscarded
<1>2. slLoop[l] \in LoopStates /\ LoopIsOwn(l, slLoop[l], slView)
  BY OfLoop
<1>3. /\ loop \in LoopStates /\ loop.boot = "over" /\ loop.held = slLoop[l].held
      /\ loop.wants = slLoop[l].wants
  BY <1>2 DEF LoopStates, BootSteps
<1> HIDE DEF loop
<1>4. Single(loop.wants)
  BY <1>2, <1>3 DEF LoopIsOwn
<1>5. /\ slView \in Views /\ slStash' \in SUBSET Attempts /\ slDropped' \in SUBSET Attempts
      /\ Single(slStash') /\ slStash \cup slDropped \subseteq slStash' \cup slDropped'
  BY <1>1 DEF SampleInv, LoopsTyped, Single
<1>6. \A a : ~Waits(slLoop[l], a)
  BY <1>1 DEF Waits
<1> QED BY <1>1, <1>3, <1>4, <1>5, <1>6, TearsDownKeeps

LEMMA PreflightEndsKeeps ==
  ASSUME SampleInv, NEW l \in Loops, PreflightEnds(l)
  PROVE  SampleInv'
<1> DEFINE old == slLoop[l]
           over == [old EXCEPT !.boot = "over"]
           n == IF slView.all THEN 2 ELSE 1
           asks == [old EXCEPT !.target = n]
<1>1. /\ old.boot = "preflight" /\ UNCHANGED <<slView, slDropped, slEngine>>
      /\ \/ old.stopped /\ slLoop' = [slLoop EXCEPT ![l] = over] /\ UNCHANGED <<slAttempt, slStash>>
         \/ ~old.stopped /\ AsksForCapture(l, asks)
  BY DEF PreflightEnds
<1>2. old \in LoopStates /\ LoopIsOwn(l, old, slView)
  BY OfLoop
<1>3. n \in Nat
  OBVIOUS
<1> HIDE DEF n
<1>4. /\ over \in LoopStates /\ over.boot = "over" /\ over.stopped = old.stopped
      /\ over.held = old.held /\ over.wants = old.wants
      /\ over.stallReported = old.stallReported
  BY <1>2 DEF LoopStates, BootSteps
<1>5. /\ asks \in LoopStates /\ asks.stopped = old.stopped /\ asks.held = old.held
      /\ asks.stallReported = old.stallReported
  BY <1>2, <1>3 DEF LoopStates
<1>6. \A a : ~Waits(old, a)
  BY <1>1 DEF Waits
<1>7. Single(over.wants)
  BY <1>2, <1>4 DEF LoopIsOwn
<1> HIDE DEF over, asks
<1>8. CASE old.stopped /\ slLoop' = [slLoop EXCEPT ![l] = over] /\ UNCHANGED <<slAttempt, slStash>>
  <2>1. slDropped' \in SUBSET Attempts
    BY <1>1 DEF SampleInv, LoopsTyped
  <2> QED BY <1>1, <1>4, <1>6, <1>7, <1>8, <2>1, BootMoves
<1>9. CASE ~old.stopped /\ AsksForCapture(l, asks)
  BY <1>1, <1>5, <1>6, <1>9, AsksKeeps
<1> QED BY <1>1, <1>8, <1>9

(* A stream arrives: it is kept, or stopped by a loop that has stopped.     *)
LEMMA AcquiredKeeps ==
  ASSUME SampleInv, NEW l \in Loops, Acquired(l)
  PROVE  SampleInv'
<1> DEFINE old == slLoop[l]
<1>1. old \in LoopStates /\ LoopIsOwn(l, old, slView)
  BY OfLoop
<1>2. PICK a \in old.wants :
        /\ old.boot = "acquiring" /\ slAttempt[a] \in {"live", "over"}
        /\ UNCHANGED <<slView, slDropped, slEngine>>
        /\ IF ~old.stopped
           THEN LET kept == [old EXCEPT !.held = Append(@, a), !.wants = {}]
                IN IF Len(kept.held) < kept.target
                   THEN AsksForCapture(l, kept)
                   ELSE /\ slLoop' = [slLoop EXCEPT ![l] = [kept EXCEPT !.boot = "starting"]]
                        /\ UNCHANGED <<slAttempt, slStash>>
           ELSE /\ slAttempt' = Stopped({a}, slAttempt)
                /\ slLoop' = [slLoop EXCEPT ![l].boot = "over", ![l].wants = {}]
                /\ UNCHANGED slStash
  BY DEF Acquired, Keeps
<1>3. a \in Attempts /\ old.held \in Seq(Attempts) /\ Single(old.wants)
  BY <1>1 DEF LoopStates, LoopIsOwn
<1>4. \A b : Waits(old, b) <=> b = a
  BY <1>2, <1>3 DEF Waits, Single
<1> DEFINE longer == Append(old.held, a)
           kept == [old EXCEPT !.held = longer, !.wants = {}]
           going == [kept EXCEPT !.boot = "starting"]
           over == [old EXCEPT !.boot = "over", !.wants = {}]
<1>5. longer \in Seq(Attempts) /\ Range(old.held) \subseteq Range(longer) /\ a \in Range(longer)
  <2>1. /\ longer \in Seq(Attempts) /\ DOMAIN longer = 1..(Len(old.held) + 1)
        /\ longer[Len(old.held) + 1] = a /\ Len(old.held) \in Nat
        /\ DOMAIN old.held = 1..Len(old.held)
        /\ \A i \in 1..Len(old.held) : longer[i] = old.held[i]
    BY <1>3
  <2> HIDE DEF longer
  <2> QED BY <2>1 DEF Range
<1> HIDE DEF longer
<1>6. /\ kept \in LoopStates /\ kept.boot = "acquiring" /\ kept.stopped = old.stopped
      /\ kept.held = longer /\ kept.wants = {} /\ kept.stallReported = old.stallReported
      /\ kept.tick = old.tick
  BY <1>1, <1>2, <1>5 DEF LoopStates
<1>7. /\ \/ ~old.stopped /\ AsksForCapture(l, kept)
         \/ /\ ~old.stopped /\ slLoop' = [slLoop EXCEPT ![l] = going]
            /\ UNCHANGED <<slAttempt, slStash>>
         \/ /\ slAttempt' = Stopped({a}, slAttempt) /\ slLoop' = [slLoop EXCEPT ![l] = over]
            /\ old.stopped /\ UNCHANGED slStash
  <2>1. CASE ~old.stopped
    BY <1>2, <2>1 DEF longer
  <2>2. CASE old.stopped
    <3>1. [slLoop EXCEPT ![l].boot = "over", ![l].wants = {}] = [slLoop EXCEPT ![l] = over]
      BY <1>1 DEF SampleInv, LoopsTyped, LoopStates
    <3> QED BY <1>2, <2>2, <3>1
  <2> QED BY <2>1, <2>2
<1> HIDE DEF kept
<1>8. /\ going \in LoopStates /\ going.boot = "starting" /\ going.stopped = old.stopped
      /\ going.held = longer /\ going.wants = {} /\ going.stallReported = old.stallReported
  BY <1>6 DEF LoopStates, BootSteps
<1>9. /\ over \in LoopStates /\ over.boot = "over" /\ over.stopped = old.stopped
      /\ over.wants = {} /\ over.stallReported = old.stallReported
  BY <1>1 DEF LoopStates, BootSteps
<1> HIDE DEF going, over
<1>10. Single({})
  BY DEF Single
<1>11. CASE ~old.stopped /\ AsksForCapture(l, kept)
  BY <1>2, <1>4, <1>5, <1>6, <1>11, AsksKeeps
<1>12. CASE /\ ~old.stopped /\ slLoop' = [slLoop EXCEPT ![l] = going]
            /\ UNCHANGED <<slAttempt, slStash>>
  <2>1. /\ slDropped' \in SUBSET Attempts /\ slDropped \subseteq slDropped'
        /\ UNCHANGED <<slView, slAttempt, slStash, slEngine>> /\ old.boot # "none"
    BY <1>2, <1>12 DEF SampleInv, LoopsTyped
  <2>2. \A b \in Open : Waits(old, b) => slAttempt[b] = "live" /\ Holds(going, b)
    BY <1>2, <1>4, <1>5, <1>8, <1>12 DEF Open, Holds
  <2>3. going.boot \notin {"none", "over", "ready"} /\ Single(going.wants)
        /\ Range(old.held) \subseteq Range(going.held)
    BY <1>5, <1>8, <1>10
  <2> QED BY <1>8, <1>12, <2>1, <2>2, <2>3, BootMoves
<1>13. CASE /\ slAttempt' = Stopped({a}, slAttempt) /\ slLoop' = [slLoop EXCEPT ![l] = over]
            /\ old.stopped /\ UNCHANGED slStash
  <2>1. /\ slAttempt' \in [Attempts -> AttemptStates]
        /\ \A b \in Open' : b \in Open /\ slAttempt'[b] = slAttempt[b]
                            /\ (slAttempt[b] = "live" => b # a)
    BY <1>13, StoppedIs DEF SampleInv, Open
  <2>2. \A b \in Open' : b # a
    BY <1>2, <2>1 DEF Open
  <2>3. /\ slView' = slView /\ slView \in Views /\ slStash' \in SUBSET Attempts
        /\ slDropped' \in SUBSET Attempts /\ slEngine' \in Engines /\ Single(slStash')
        /\ slStash' \cup slDropped' = slStash \cup slDropped
    BY <1>2, <1>13 DEF SampleInv, LoopsTyped, Engines, Single
  <2>4. LoopIsOwn(l, over, slView')
    BY <1>9, <1>10, <1>13 DEF LoopIsOwn
  <2>5. \A b : ~Holds(old, b)
    BY <1>13 DEF Holds
  <2> QED BY <1>4, <1>9, <1>13, <2>1, <2>2, <2>3, <2>4, <2>5, LoopMoves
<1> QED BY <1>7, <1>11, <1>12, <1>13

(* No stream arrives: nobody is left to wait for it.                        *)
LEMMA NoStreamKeeps ==
  ASSUME SampleInv, NEW l \in Loops, NEW b \in BOOLEAN, NoStream(l, b),
         slLoop[l].boot = "acquiring", UNCHANGED <<slStash, slEngine>>,
         slDropped' \in SUBSET Attempts, slDropped \subseteq slDropped',
         \A a \in Open \cap slLoop[l].wants : a \in slDropped'
  PROVE  SampleInv'
<1> DEFINE old == slLoop[l]
           loop == [old EXCEPT !.wants = {}]
           over == [loop EXCEPT !.boot = "over"]
           going == [loop EXCEPT !.boot = "starting"]
           denied == [loop EXCEPT !.boot = "over", !.captureDenied = b]
<1>1. old \in LoopStates /\ LoopIsOwn(l, old, slView)
  BY OfLoop
<1>2. /\ loop \in LoopStates /\ loop.stopped = old.stopped /\ loop.held = old.held
      /\ loop.wants = {} /\ loop.stallReported = old.stallReported /\ loop.tick = old.tick
  BY <1>1 DEF LoopStates
<1>3. \/ /\ old.stopped /\ slLoop' = [slLoop EXCEPT ![l] = over]
         /\ UNCHANGED <<slView, slAttempt>>
      \/ slLoop' = [slLoop EXCEPT ![l] = going] /\ UNCHANGED <<slView, slAttempt>>
      \/ /\ TearsDown(l, denied)
         /\ slView' = [slView EXCEPT !.denied = @ \/ b]
  BY <1>2 DEF NoStream
<1> HIDE DEF loop
<1>4. /\ over \in LoopStates /\ over.boot = "over" /\ over.stopped = old.stopped
      /\ over.held = old.held /\ over.wants = {} /\ over.stallReported = old.stallReported
  BY <1>2 DEF LoopStates, BootSteps
<1>5. /\ going \in LoopStates /\ going.boot = "starting" /\ going.stopped = old.stopped
      /\ going.held = old.held /\ going.wants = {} /\ going.stallReported = old.stallReported
  BY <1>2 DEF LoopStates, BootSteps
<1>6. /\ denied \in LoopStates /\ denied.boot = "over" /\ denied.held = old.held
      /\ denied.wants = {}
  BY <1>2 DEF LoopStates, BootSteps
<1> HIDE DEF over, going, denied
<1>7. Single({}) /\ (\A a \in Open : Waits(old, a) => a \in slDropped')
  BY DEF Single, Waits
<1>8. CASE /\ old.stopped /\ slLoop' = [slLoop EXCEPT ![l] = over]
           /\ UNCHANGED <<slView, slAttempt>>
  BY <1>4, <1>7, <1>8, BootMoves
<1>9. CASE slLoop' = [slLoop EXCEPT ![l] = going] /\ UNCHANGED <<slView, slAttempt>>
  BY <1>5, <1>7, <1>9, BootMoves
<1>10. CASE TearsDown(l, denied) /\ slView' = [slView EXCEPT !.denied = @ \/ b]
  <2>1. slView \in Views /\ (slView.denied \/ b) \in BOOLEAN
    BY DEF SampleInv, LoopsTyped, Views
  <2> DEFINE d == slView.denied \/ b
  <2>2. d \in BOOLEAN /\ slView' = [slView EXCEPT !.denied = d]
    BY <1>10, <2>1
  <2> HIDE DEF d
  <2>3. /\ slView' \in Views /\ slView'.aiOn = slView.aiOn /\ slView'.told = slView.told
        /\ slView'.loop = slView.loop
    BY <2>1, <2>2 DEF Views
  <2>4. slStash' \in SUBSET Attempts /\ Single(slStash')
        /\ slStash \cup slDropped \subseteq slStash' \cup slDropped'
    BY DEF SampleInv, LoopsTyped, Single
  <2>5. denied.boot # "none" /\ Single(denied.wants)
    BY <1>6, <1>7
  <2> QED BY <1>6, <1>7, <1>10, <2>3, <2>4, <2>5, TearsDownKeeps
<1> QED BY <1>3, <1>8, <1>9, <1>10

(* The picker is refused, or the bound passes and what may still come is    *)
(* dropped.                                                                 *)
LEMMA GivesUpKeeps ==
  ASSUME SampleInv, NEW l \in Loops,
         (\E b \in BOOLEAN : AcquireRefused(l, b)) \/ AcquireTimesOut(l)
  PROVE  SampleInv'
<1>1. slDropped \in SUBSET Attempts /\ slLoop[l].wants \in SUBSET Attempts
  BY OfLoop DEF SampleInv, LoopsTyped, LoopStates
<1>2. CASE AcquireTimesOut(l)
  <2>1. /\ slLoop[l].boot = "acquiring" /\ slDropped' = slDropped \cup slLoop[l].wants
        /\ NoStream(l, FALSE) /\ UNCHANGED <<slStash, slEngine>>
    BY <1>2 DEF AcquireTimesOut, GivenUp
  <2> QED BY <1>1, <2>1, NoStreamKeeps
<1>3. ASSUME NEW b \in BOOLEAN, AcquireRefused(l, b) PROVE SampleInv'
  <2>1. /\ slLoop[l].boot = "acquiring" /\ UNCHANGED <<slStash, slDropped, slEngine>>
        /\ NoStream(l, b) /\ \A a \in slLoop[l].wants : slAttempt[a] = "refused"
    BY <1>3 DEF AcquireRefused
  <2>2. Open \cap slLoop[l].wants = {}
    BY <2>1 DEF Open
  <2> QED BY <1>1, <2>1, <2>2, NoStreamKeeps
<1> QED BY <1>2, <1>3

(* The engine starts, or does not.                                          *)
LEMMA EngineStartsKeeps ==
  ASSUME SampleInv, NEW l \in Loops, NEW b \in BOOLEAN, EngineStarts(l, b)
  PROVE  SampleInv'
<1> DEFINE old == slLoop[l]
           over == [old EXCEPT !.boot = "over"]
           going == [old EXCEPT !.boot = "battery"]
<1>1. /\ old.boot = "starting" /\ UNCHANGED <<slView, slStash, slDropped, slEngine>>
      /\ \/ old.stopped /\ slLoop' = [slLoop EXCEPT ![l] = over] /\ UNCHANGED slAttempt
         \/ slLoop' = [slLoop EXCEPT ![l] = going] /\ UNCHANGED slAttempt
         \/ TearsDown(l, over)
  BY DEF EngineStarts
<1>2. old \in LoopStates /\ LoopIsOwn(l, old, slView)
  BY OfLoop
<1>3. /\ over \in LoopStates /\ over.boot = "over" /\ over.stopped = old.stopped
      /\ over.held = old.held /\ over.wants = old.wants
      /\ over.stallReported = old.stallReported
  BY <1>2 DEF LoopStates, BootSteps
<1>4. /\ going \in LoopStates /\ going.boot = "battery" /\ going.stopped = old.stopped
      /\ going.held = old.held /\ going.wants = old.wants
      /\ going.stallReported = old.stallReported
  BY <1>2 DEF LoopStates, BootSteps
<1> HIDE DEF over, going
<1>5. Single(old.wants) /\ (\A a : ~Waits(old, a))
  BY <1>1, <1>2 DEF LoopIsOwn, Waits
<1>6. /\ slView \in Views /\ slStash \in SUBSET Attempts /\ slDropped' \in SUBSET Attempts
      /\ Single(slStash')
  BY <1>1 DEF SampleInv, LoopsTyped, Single
<1>7. CASE old.stopped /\ slLoop' = [slLoop EXCEPT ![l] = over] /\ UNCHANGED slAttempt
  BY <1>1, <1>3, <1>5, <1>6, <1>7, BootMoves
<1>8. CASE slLoop' = [slLoop EXCEPT ![l] = going] /\ UNCHANGED slAttempt
  BY <1>1, <1>4, <1>5, <1>6, <1>8, BootMoves
<1>9. CASE TearsDown(l, over)
  BY <1>1, <1>3, <1>5, <1>6, <1>9, TearsDownKeeps
<1> QED BY <1>1, <1>7, <1>8, <1>9

(* The first tick is armed.                                                 *)
LEMMA BootEndsKeeps ==
  ASSUME SampleInv, NEW l \in Loops, BootEnds(l)
  PROVE  SampleInv'
<1> DEFINE old == slLoop[l]
           over == [old EXCEPT !.boot = "over"]
           up == [old EXCEPT !.boot = "ready", !.target = 1]
           armed == Scheduled(up)
<1>1. /\ old.boot = "battery" /\ UNCHANGED <<slView, slAttempt, slStash, slDropped, slEngine>>
      /\ \/ old.stopped /\ slLoop' = [slLoop EXCEPT ![l] = over]
         \/ ~old.stopped /\ slLoop' = [slLoop EXCEPT ![l] = armed]
  BY DEF BootEnds, SampleInv, LoopsTyped
<1>2. old \in LoopStates /\ LoopIsOwn(l, old, slView)
  BY OfLoop
<1>3. /\ over \in LoopStates /\ over.boot = "over" /\ over.stopped = old.stopped
      /\ over.held = old.held /\ over.wants = old.wants
      /\ over.stallReported = old.stallReported
  BY <1>2 DEF LoopStates, BootSteps
<1>4. /\ up \in LoopStates /\ up.boot = "ready" /\ up.stopped = old.stopped
      /\ up.held = old.held /\ up.wants = old.wants
      /\ up.stallReported = old.stallReported
  BY <1>2 DEF LoopStates, BootSteps
<1> HIDE DEF over, up
<1>5. /\ armed \in LoopStates /\ armed.boot = "ready" /\ armed.stopped = old.stopped
      /\ armed.held = old.held /\ armed.wants = old.wants
      /\ armed.stallReported = old.stallReported
      /\ armed.tick = IF old.stopped THEN "idle" ELSE "timer"
  BY <1>4, TickHelpers DEF Alike
<1> HIDE DEF armed
<1>6. Single(old.wants) /\ (\A a : ~Waits(old, a))
  BY <1>1, <1>2 DEF LoopIsOwn, Waits
<1>7. slDropped' \in SUBSET Attempts
  BY <1>1 DEF SampleInv, LoopsTyped
<1>8. CASE old.stopped /\ slLoop' = [slLoop EXCEPT ![l] = over]
  BY <1>1, <1>3, <1>6, <1>7, <1>8, BootMoves
<1>9. CASE ~old.stopped /\ slLoop' = [slLoop EXCEPT ![l] = armed]
  BY <1>1, <1>5, <1>6, <1>7, <1>9, BootMoves
<1> QED BY <1>1, <1>8, <1>9

(* The loops stand still and what the view says still fits them.            *)
LEMMA LoopsRest ==
  ASSUME SampleInv, UNCHANGED slLoop,
         slView' \in Views, slAttempt' \in [Attempts -> AttemptStates],
         slStash' \in SUBSET Attempts, slDropped' \in SUBSET Attempts, slEngine' \in Engines,
         Single(slStash'),
         \A l \in Loops : LoopIsOwn(l, slLoop[l], slView'),
         \A a \in Open' : \/ a \in slStash' \cup slDropped'
                          \/ /\ a \in Open \ (slStash \cup slDropped)
                             /\ slAttempt[a] = "live" => slAttempt'[a] = "live"
  PROVE  SampleInv'
<1>1. LoopsTyped'
  BY DEF SampleInv, LoopsTyped, AttemptStates, Engines
<1>2. LoopsAreOwn'
  BY DEF LoopsAreOwn
<1>3. OpenAreOwned'
  BY DEF SampleInv, OpenAreOwned
<1> QED BY <1>1, <1>2, <1>3 DEF SampleInv

(* The cleanup of the effect, and of the view with its stash.               *)
LEMMA TeardownsKeep ==
  ASSUME SampleInv, EffectStops \/ Unmount
  PROVE  SampleInv'
<1>1. /\ slView \in Views /\ slStash \in SUBSET Attempts /\ slDropped \in SUBSET Attempts
      /\ Single(slStash) /\ slEngine' \in Engines /\ UNCHANGED slEngine
      /\ slAttempt \in [Attempts -> AttemptStates]
  BY DEF SampleInv, LoopsTyped, Engines, AttemptStates, EffectStops, Unmount
<1>2. /\ slView' \in Views /\ slView'.aiOn = slView.aiOn /\ slView'.told = slView.told
      /\ slView'.loop = 0
  <2>1. slView' = [slView EXCEPT !.loop = 0]
        \/ slView' = [slView EXCEPT !.mounted = FALSE, !.loop = 0]
    BY DEF EffectStops, Unmount
  <2>2. 0 \in 0..MaxLoops
    BY LoopNumbers
  <2> QED BY <1>1, <2>1, <2>2 DEF Views
<1>3. /\ slStash' \in SUBSET Attempts /\ slDropped' \in SUBSET Attempts /\ Single(slStash')
      /\ slStash \cup slDropped = slStash' \cup slDropped'
  BY <1>1 DEF EffectStops, Unmount, StashDiscarded, Single
<1>4. CASE slView.loop # 0
  <2> DEFINE l == slView.loop
  <2>1. l \in Loops /\ TearsDown(l, slLoop[l])
    BY <1>1, <1>4 DEF EffectStops, Unmount, Views, Loops
  <2> HIDE DEF l
  <2>2. slLoop[l] \in LoopStates /\ LoopIsOwn(l, slLoop[l], slView)
    BY <2>1, OfLoop
  <2>3. CASE slLoop[l].boot # "none"
    <3>1. Single(slLoop[l].wants)
      BY <2>2 DEF LoopIsOwn
    <3> QED BY <1>1, <1>2, <1>3, <2>1, <2>2, <2>3, <3>1, TearsDownKeeps DEF l
  <2>4. CASE slLoop[l].boot = "none"
    BY <2>2, <2>4 DEF LoopIsOwn, l
  <2> QED BY <2>3, <2>4
<1>5. CASE slView.loop = 0
  <2>1. UNCHANGED <<slLoop, slAttempt>>
    BY <1>5 DEF EffectStops, Unmount
  <2>2. \A l \in Loops : LoopIsOwn(l, slLoop[l], slView')
    BY <1>2, <1>5, OfLoop DEF LoopIsOwn
  <2>3. Open' = Open
    BY <2>1 DEF Open
  <2> QED BY <1>1, <1>2, <1>3, <2>1, <2>2, <2>3, LoopsRest
<1> QED BY <1>4, <1>5

(* Clicks: a new attempt takes the stash, the one it replaces is dropped.   *)
LEMMA SwitchesKeep ==
  ASSUME SampleInv, AiOff \/ AiOn \/ CaptureRetry \/ Demote
  PROVE  SampleInv'
<1>1. /\ slView \in Views /\ slStash \in SUBSET Attempts /\ slDropped \in SUBSET Attempts
      /\ Single(slStash) /\ slEngine \in Engines
      /\ slAttempt \in [Attempts -> AttemptStates]
  BY DEF SampleInv, LoopsTyped, Engines, AttemptStates
<1>2. UNCHANGED <<slLoop, slEngine>>
  BY DEF AiOff, AiOn, CaptureRetry, Demote
<1>3. /\ slView' \in Views
      /\ slView'.loop = slView.loop /\ slView'.told = slView.told
      /\ slView'.aiOn => slView.aiOn \/ slView.loop = 0
  <2>1. \/ slView' = [slView EXCEPT !.aiOn = FALSE]
        \/ slView' = [slView EXCEPT !.aiOn = TRUE] /\ slView.loop = 0
        \/ slView' = [slView EXCEPT !.denied = FALSE]
        \/ slView' = [slView EXCEPT !.all = FALSE]
    BY DEF AiOff, AiOn, CaptureRetry, Demote
  <2> QED BY <1>1, <2>1 DEF Views
<1>4. \A l \in Loops : LoopIsOwn(l, slLoop[l], slView')
  <2> SUFFICES ASSUME NEW l \in Loops PROVE LoopIsOwn(l, slLoop[l], slView')
    OBVIOUS
  <2>1. LoopIsOwn(l, slLoop[l], slView) /\ l # 0
    BY OfLoop, LoopNumbers
  <2> QED BY <1>3, <2>1 DEF LoopIsOwn
<1>5. \/ UNCHANGED <<slAttempt, slStash, slDropped>>
      \/ \E a \in Attempts : Preacquire(a)
  BY DEF AiOff, AiOn, CaptureRetry, Demote
<1>6. /\ slAttempt' \in [Attempts -> AttemptStates] /\ slStash' \in SUBSET Attempts
      /\ slDropped' \in SUBSET Attempts /\ Single(slStash')
      /\ \A a \in Open' : \/ a \in slStash' \cup slDropped'
                          \/ a \in Open \ (slStash \cup slDropped) /\ slAttempt'[a] = slAttempt[a]
  <2>1. CASE UNCHANGED <<slAttempt, slStash, slDropped>>
    BY <1>1, <2>1 DEF Open, Single
  <2>2. ASSUME NEW a \in Attempts, Preacquire(a)
        PROVE  /\ slAttempt' \in [Attempts -> AttemptStates] /\ slStash' = {a}
               /\ slDropped' = slDropped \cup slStash
               /\ \A b \in Open' : b # a => b \in Open /\ slAttempt'[b] = slAttempt[b]
    BY <1>1, <2>2 DEF Preacquire, Open, AttemptStates
  <2> QED BY <1>1, <1>5, <2>1, <2>2 DEF Single
<1>7. slEngine' \in Engines /\ UNCHANGED slLoop
  BY <1>1, <1>2
<1> QED BY <1>3, <1>4, <1>6, <1>7, LoopsRest

(* The user answers, a dropped stream comes and is stopped, the engine      *)
(* changes.                                                                 *)
LEMMA OutsideKeeps ==
  ASSUME SampleInv,
         \/ \E a \in Attempts : (\E b \in BOOLEAN : PickerAnswers(a, b)) \/ DroppedStops(a)
         \/ EngineChanges
         \/ UNCHANGED sampleVars
  PROVE  SampleInv'
<1>1. /\ slView \in Views /\ slStash \in SUBSET Attempts /\ slDropped \in SUBSET Attempts
      /\ Single(slStash) /\ slEngine \in Engines
      /\ slAttempt \in [Attempts -> AttemptStates]
  BY DEF SampleInv, LoopsTyped, Engines, AttemptStates
<1>2. UNCHANGED <<slView, slLoop, slStash>>
  BY DEF PickerAnswers, DroppedStops, EngineChanges, sampleVars
<1>3. \A l \in Loops : LoopIsOwn(l, slLoop[l], slView')
  BY <1>2, OfLoop
<1>4. slEngine' \in Engines
  <2>1. CASE UNCHANGED slEngine
    BY <1>1, <2>1
  <2>2. CASE EngineChanges
    <3>1. slEngine.port \in Nat /\ slEngine.port + 1 \in Nat
      BY <1>1 DEF Engines
    <3> QED BY <2>2, <3>1, SampleLoopAssumption DEF EngineChanges, Engines
  <2> QED BY <2>1, <2>2 DEF PickerAnswers, DroppedStops, sampleVars
<1>5. /\ slAttempt' \in [Attempts -> AttemptStates] /\ slDropped' \in SUBSET Attempts
      /\ \A a \in Open' : \/ a \in slStash' \cup slDropped'
                          \/ /\ a \in Open \ (slStash \cup slDropped)
                             /\ slAttempt[a] = "live" => slAttempt'[a] = "live"
  <2>1. CASE UNCHANGED <<slAttempt, slDropped>>
    BY <1>1, <1>2, <2>1 DEF Open
  <2>2. ASSUME NEW a \in Attempts, NEW b \in BOOLEAN, PickerAnswers(a, b)
        PROVE  /\ slAttempt' \in [Attempts -> AttemptStates] /\ slDropped' = slDropped
               /\ \A c \in Open' : c \in Open /\ (slAttempt[c] = "live" => slAttempt'[c] = "live")
    BY <1>1, <2>2 DEF PickerAnswers, Open, AttemptStates
  <2>3. ASSUME NEW a \in Attempts, DroppedStops(a)
        PROVE  /\ slAttempt' \in [Attempts -> AttemptStates] /\ slDropped' = slDropped \ {a}
               /\ \A c \in Open' : c # a /\ c \in Open /\ slAttempt'[c] = slAttempt[c]
    <3>1. /\ slAttempt[a] # "asked" /\ slDropped' = slDropped \ {a}
          /\ slAttempt' = Stopped({a}, slAttempt)
      BY <2>3 DEF DroppedStops
    <3>2. LoopsTyped
      BY DEF SampleInv
    <3>3. /\ slAttempt' \in [Attempts -> AttemptStates]
          /\ \A c \in Open' : c \in Open /\ slAttempt'[c] = slAttempt[c]
                              /\ ~(c \in {a} /\ slAttempt[c] = "live")
      BY <3>1, <3>2, StoppedIs DEF Open
    <3> QED BY <3>1, <3>3 DEF Open
  <2> QED BY <1>1, <1>2, <2>1, <2>2, <2>3 DEF EngineChanges, sampleVars
<1> QED BY <1>1, <1>2, <1>3, <1>4, <1>5, LoopsRest

----------------------------------------------------------------------------
(* The induction principle of the library in the form the proof needs.      *)
LEMMA LeastNatural ==
  ASSUME NEW T \in SUBSET Nat, T # {}
  PROVE  \E n \in T : \A m \in T : n <= m
<1> DEFINE R == OpToRel(<, Nat)
<1>1. IsWellFoundedOn(R, Nat)
  BY NatLessThanWellFounded
<1>2. \A m, n \in Nat : m < n => <<m, n>> \in R
  BY DEF OpToRel
<1> HIDE DEF R
<1>3. \E n \in T : \A m \in T : <<m, n>> \notin R
  BY <1>1, WFMin
<1>4. PICK n \in T : \A m \in T : <<m, n>> \notin R
  BY <1>3
<1>5. \A m \in T : m \in Nat /\ n \in Nat /\ ~(m < n)
  BY <1>2, <1>4
<1>6. \A m \in T : n <= m
  BY <1>5
<1> QED BY <1>6

LEMMA RemovedAt ==
  ASSUME NEW S, NEW s \in Seq(S), NEW k \in 1..Len(s)
  PROVE  /\ RemoveAt(s, k) \in Seq(S)
         /\ Len(RemoveAt(s, k)) = Len(s) - 1
         /\ \A i \in 1..(Len(s) - 1) :
              RemoveAt(s, k)[i] = IF i < k THEN s[i] ELSE s[i + 1]
<1> DEFINE head == SubSeq(s, 1, k - 1)
           tail == SubSeq(s, k + 1, Len(s))
<1>1. head \in Seq(S) /\ tail \in Seq(S)
  OBVIOUS
<1>2. Len(head) = k - 1 /\ Len(tail) = Len(s) - k
  OBVIOUS
<1>3. \A i \in 1..(k - 1) : head[i] = s[i]
  OBVIOUS
<1>4. \A i \in 1..(Len(s) - k) : tail[i] = s[k + i]
  OBVIOUS
<1>5. RemoveAt(s, k) = head \o tail
  BY DEF RemoveAt
<1> HIDE DEF head, tail
<1>6. /\ head \o tail \in Seq(S) /\ Len(head \o tail) = Len(s) - 1
  BY <1>1, <1>2
<1>7. ASSUME NEW i \in 1..(Len(s) - 1)
      PROVE  (head \o tail)[i] = IF i < k THEN s[i] ELSE s[i + 1]
  <2>1. (head \o tail)[i] = IF i <= k - 1 THEN head[i] ELSE tail[i - (k - 1)]
    BY <1>1, <1>2, ConcatProperties
  <2>2. CASE i < k
    BY <1>3, <2>1, <2>2
  <2>3. CASE ~(i < k)
    <3>1. i - (k - 1) \in 1..(Len(s) - k) /\ k + (i - (k - 1)) = i + 1
      BY <2>3
    <3> QED BY <1>4, <2>1, <2>3, <3>1
  <2> QED BY <2>2, <2>3
<1> QED BY <1>5, <1>6, <1>7


(* Dropping one display keeps the others.                                   *)
LEMMA OneDropped ==
  ASSUME NEW S, NEW s \in Seq(S), NEW a
  PROVE  RemoveFirst(s, a) \in Seq(S) /\ Range(s) \ {a} \subseteq Range(RemoveFirst(s, a))
<1> DEFINE I == {i \in 1..Len(s) : s[i] = a}
<1>1. CASE ~\E i \in 1..Len(s) : s[i] = a
  BY <1>1 DEF RemoveFirst
<1>2. CASE \E i \in 1..Len(s) : s[i] = a
  <2>1. I # {} /\ I \in SUBSET Nat /\ SelectInSeq(s, LAMBDA v : v = a) = Min(I)
    BY <1>2 DEF SelectInSeq
  <2>2. I \subseteq 1..Len(s) /\ \A i \in I : s[i] = a
    OBVIOUS
  <2> HIDE DEF I
  <2>3. Min(I) \in I
    BY <2>1, LeastNatural DEF Min
  <2> DEFINE k == Min(I)
             t == RemoveAt(s, k)
  <2>4. RemoveFirst(s, a) = t
    BY <1>2, <2>1 DEF RemoveFirst
  <2>5. k \in 1..Len(s) /\ s[k] = a
    BY <2>2, <2>3
  <2> HIDE DEF k
  <2>6. /\ t \in Seq(S) /\ Len(t) = Len(s) - 1
        /\ \A i \in 1..(Len(s) - 1) : t[i] = IF i < k THEN s[i] ELSE s[i + 1]
    BY <2>5, RemovedAt
  <2> HIDE DEF t
  <2>7. ASSUME NEW x \in Range(s) \ {a} PROVE x \in Range(t)
    <3>1. PICK j \in 1..Len(s) : s[j] = x
      BY <2>7 DEF Range
    <3>2. DOMAIN t = 1..(Len(s) - 1) /\ Len(s) \in Nat
      BY <2>6
    <3>3. CASE j < k
      <4>1. j \in 1..(Len(s) - 1) /\ t[j] = x
        BY <2>5, <2>6, <3>1, <3>2, <3>3
      <4> QED BY <3>2, <4>1 DEF Range
    <3>4. CASE ~(j < k)
      <4>1. j # k
        BY <2>5, <2>7, <3>1
      <4>2. j - 1 \in 1..(Len(s) - 1) /\ ~(j - 1 < k) /\ (j - 1) + 1 = j
        BY <2>5, <3>1, <3>2, <3>4, <4>1
      <4>3. t[j - 1] = x
        BY <2>6, <3>1, <4>2
      <4> QED BY <3>2, <4>2, <4>3 DEF Range
    <3> QED BY <3>3, <3>4
  <2> QED BY <2>4, <2>6, <2>7
<1> QED BY <1>1, <1>2

(* A display goes: the loops that hold it keep the others, or are denied.   *)
LEMMA TrackEndsKeeps ==
  ASSUME SampleInv, NEW a \in Attempts, TrackEnds(a)
  PROVE  SampleInv'
<1> DEFINE held(l) == a \in Range(slLoop[l].held) /\ ~slLoop[l].captureDenied
           fewer(l) == RemoveFirst(slLoop[l].held, a)
           one(l) == [slLoop[l] EXCEPT !.held = fewer(l)]
           none(l) == [slLoop[l] EXCEPT !.captureDenied = TRUE]
<1>1. /\ slAttempt' = [slAttempt EXCEPT ![a] = "over"]
      /\ slLoop' = [l \in Loops |->
             IF l \notin {k \in Loops : held(k)} THEN slLoop[l]
             ELSE IF LiveHeld(slLoop[l]) \ {a} # {} THEN one(l) ELSE none(l)]
      /\ \/ slView' = [slView EXCEPT !.denied = TRUE]
         \/ slView' = slView
      /\ UNCHANGED <<slStash, slDropped, slEngine>>
  <2>1. slView \in Views
    BY DEF SampleInv, LoopsTyped
  <2>2. slView = [slView EXCEPT !.denied = slView.denied]
    BY <2>1 DEF Views
  <2> QED BY <2>1, <2>2 DEF TrackEnds, Views
<1>2. /\ slView' \in Views /\ slView'.aiOn = slView.aiOn /\ slView'.loop = slView.loop
      /\ slView'.told = slView.told
  BY <1>1 DEF SampleInv, LoopsTyped, Views
<1>3. /\ slAttempt' \in [Attempts -> AttemptStates] /\ slStash' \in SUBSET Attempts
      /\ slDropped' \in SUBSET Attempts /\ slEngine' \in Engines /\ Single(slStash')
      /\ \A b \in Open' : b # a /\ b \in Open /\ slAttempt'[b] = slAttempt[b]
  BY <1>1 DEF SampleInv, LoopsTyped, AttemptStates, Engines, Single, Open
<1> DEFINE Same(r, loop) ==
      /\ r \in LoopStates /\ r.boot = loop.boot /\ r.stopped = loop.stopped
      /\ r.wants = loop.wants /\ r.tick = loop.tick /\ r.stallReported = loop.stallReported
      /\ (loop.captureDenied => r.captureDenied)
      /\ Range(loop.held) \ {a} \subseteq Range(r.held)
      /\ (loop.boot = "none" => r = loop)
<1>4. ASSUME NEW l \in Loops PROVE Same(slLoop'[l], slLoop[l])
  <2> DEFINE loop == slLoop[l]
  <2>1. loop \in LoopStates /\ LoopIsOwn(l, loop, slView)
    BY OfLoop
  <2>2. fewer(l) \in Seq(Attempts) /\ Range(loop.held) \ {a} \subseteq Range(fewer(l))
    BY <2>1, OneDropped DEF LoopStates
  <2>3. held(l) => loop.boot # "none"
    BY <2>1 DEF LoopIsOwn, NewLoop, Range
  <2>4. Same(loop, loop)
    BY <2>1
  <2>5. slLoop'[l] \in {loop} \cup (IF held(l) THEN {one(l), none(l)} ELSE {})
    BY <1>1
  <2> HIDE DEF fewer
  <2>6. ASSUME held(l) PROVE Same(one(l), loop)
    BY <2>1, <2>2, <2>3, <2>6 DEF LoopStates
  <2>7. ASSUME held(l) PROVE Same(none(l), loop)
    BY <2>1, <2>3, <2>7 DEF LoopStates
  <2> HIDE DEF Same, one, none, held, loop
  <2> QED BY <2>4, <2>5, <2>6, <2>7 DEF loop
<1>5. slLoop' \in [Loops -> LoopStates]
  <2>1. DOMAIN slLoop' = Loops /\ slLoop' = [l \in Loops |-> slLoop'[l]]
    BY <1>1
  <2> QED BY <1>4, <2>1
<1>6. LoopsTyped'
  BY <1>2, <1>3, <1>5 DEF LoopsTyped, AttemptStates, Engines
<1>7. LoopsAreOwn'
  <2> SUFFICES ASSUME NEW l \in Loops PROVE LoopIsOwn(l, slLoop'[l], slView')
    BY DEF LoopsAreOwn
  <2> QED BY <1>2, <1>4, OfLoop DEF LoopIsOwn
<1>8. OpenAreOwned'
  <2> SUFFICES ASSUME NEW b \in Open', b \notin slStash' \cup slDropped'
               PROVE  \/ \E l \in Loops : Waits(slLoop'[l], b)
                      \/ slAttempt'[b] = "live" /\ \E l \in Loops : Holds(slLoop'[l], b)
    BY DEF OpenAreOwned
  <2>1. \/ \E l \in Loops : Waits(slLoop[l], b)
        \/ slAttempt[b] = "live" /\ \E l \in Loops : Holds(slLoop[l], b)
    BY <1>1, <1>3 DEF SampleInv, OpenAreOwned
  <2>2. \A l \in Loops : /\ Waits(slLoop[l], b) => Waits(slLoop'[l], b)
                         /\ Holds(slLoop[l], b) => Holds(slLoop'[l], b)
    BY <1>3, <1>4 DEF Waits, Holds
  <2> QED BY <1>3, <2>1, <2>2
<1> QED BY <1>3, <1>6, <1>7, <1>8 DEF SampleInv

(* Every step keeps it.                                                     *)
LEMMA SampleSteps == SampleInv /\ [SampleNext]_sampleVars => SampleInv'
<1> SUFFICES ASSUME SampleInv, [SampleNext]_sampleVars PROVE SampleInv'
  OBVIOUS
<1>1. ASSUME NEW l \in Loops, LoopStep(l) PROVE SampleInv'
  BY <1>1, EffectStartsKeeps, PreflightFailsKeeps, PreflightEndsKeeps, AcquiredKeeps,
     GivesUpKeeps, EngineStartsKeeps, BootEndsKeeps, TickEndsKeeps, BlockedTicksKeep,
     TickFindsEngineKeeps, TickCapturesKeeps, CaptureReturnsKeeps, FrameAnsweredKeeps,
     WatchdogKeeps DEF LoopStep
<1>2. CASE EffectStops \/ AiOff \/ AiOn \/ CaptureRetry \/ Demote \/ Unmount
  BY <1>2, TeardownsKeep, SwitchesKeep
<1>3. ASSUME NEW a \in Attempts,
             (\E b \in BOOLEAN : PickerAnswers(a, b)) \/ DroppedStops(a) \/ TrackEnds(a)
      PROVE  SampleInv'
  BY <1>3, OutsideKeeps, TrackEndsKeeps
<1>4. CASE EngineChanges \/ UNCHANGED sampleVars
  BY <1>4, OutsideKeeps
<1> QED BY <1>1, <1>2, <1>3, <1>4 DEF SampleNext

(* Capture, chain and notice are accounted for, whatever the user, the      *)
(* displays and the engine do, for any number of loops and of attempts      *)
(* (createSampleLoop, acquireScreenStreamBounded, captureScreen.ts).        *)
THEOREM SamplingAlwaysSound == SampleSpec => []SamplingIsSound
<1>1. SampleInv => SamplingIsSound
  <2> SUFFICES ASSUME SampleInv PROVE SamplingIsSound
    OBVIOUS
  <2>1. NoOrphanCapture
    <3>1. Live \subseteq Open
      BY DEF Live, Open
    <3> QED BY <3>1 DEF SampleInv, OpenAreOwned, NoOrphanCapture, Waits, Holds
  <2>2. ChainIsAlive /\ NoticeIsTrue
    BY DEF SampleInv, LoopsAreOwn, LoopIsOwn, ChainIsAlive, NoticeIsTrue
  <2> QED BY <2>1, <2>2 DEF SamplingIsSound
<1> QED BY <1>1, SampleStart, SampleSteps, PTL DEF SampleSpec
-----------------------------------------------------------------------------
(* The samples of the bout that is under way: no on-topic one came after.   *)
Bout == {j \in Away : \A k \in Told : j <= k => k \in Away}

Heard == [x : Judgments, s : Sliders]
Machines == [score : Nat, streak : Nat, alerted : BOOLEAN, warned : BOOLEAN]
Tallies == [total : Nat, onTask : Nat, skipped : Nat]
FocusEvents == [type : {"warning", "alert"}, score : Nat]

FocusTyped ==
  /\ fsSliders \in Sliders
  /\ fsHistory \in Seq(Heard)
  /\ fsMachine \in Machines
  /\ fsTally \in Tallies
  /\ fsEvents \in Seq(FocusEvents)

(* What the machine remembers of the bout that is under way: its length,    *)
(* and whether it has crossed the thresholds.                               *)
Remembered ==
  /\ fsMachine.streak = Cardinality(Bout)
  /\ IF fsMachine.alerted
       THEN \E j \in Bout : j \in AlertedAt
       ELSE \A j \in Bout : Cardinality(BoutUpTo(j)) < AlertAt(fsHistory[j].s)
  /\ IF fsMachine.warned
       THEN \E j \in Bout : j \in WarnedAt
       ELSE \A j \in Bout : Cardinality(BoutUpTo(j)) < WarningAt(fsHistory[j].s)

FocusInv == FocusTyped /\ Remembered /\ ReportIsExplained

(* A warning comes at a shorter streak than an alert, whatever the sliders  *)
(* say.                                                                     *)
LEMMA ThresholdsAre ==
  ASSUME NEW s \in Sliders
  PROVE  WarningAt(s) \in 2..8 /\ AlertAt(s) \in 3..12 /\ WarningAt(s) < AlertAt(s)
<1>1. s.warning \in Int /\ s.alert \in Int
  BY FocusAssumption
<1> QED BY <1>1 DEF WarningAt, AlertAt, ClampTo

(* The floor of the score.                                                  *)
LEMMA FloorIs ==
  ASSUME NEW k \in Int
  PROVE  Max({0, k}) = IF k > 0 THEN k ELSE 0
<1> DEFINE m == IF k > 0 THEN k ELSE 0
<1>1. m \in {0, k} /\ \A y \in {0, k} : m >= y
  OBVIOUS
<1>2. \A z \in {0, k} : (\A y \in {0, k} : z >= y) => z = m
  OBVIOUS
<1> HIDE DEF m
<1>3. Max({0, k}) = m
  BY <1>1, <1>2 DEF Max
<1> QED BY <1>3 DEF m

(* What the samples are.                                                    *)
LEMMA SamplesAre ==
  ASSUME FocusTyped
  PROVE  /\ DOMAIN fsHistory = 1..Len(fsHistory) /\ Len(fsHistory) \in Nat
         /\ \A i \in DOMAIN fsHistory : /\ fsHistory[i].s \in Sliders
                                        /\ fsHistory[i].x \in Judgments
         /\ Told \subseteq 1..Len(fsHistory) /\ Away \subseteq Told
         /\ Bout \subseteq Away /\ AlertedAt \subseteq Away /\ WarnedAt \subseteq Away
         /\ \A i : BoutUpTo(i) \subseteq Away
         /\ \A S \in SUBSET (1..Len(fsHistory)) : IsFiniteSet(S) /\ Cardinality(S) \in Nat
<1>1. DOMAIN fsHistory = 1..Len(fsHistory) /\ Len(fsHistory) \in Nat
  BY DEF FocusTyped
<1>2. \A i \in DOMAIN fsHistory : fsHistory[i].s \in Sliders /\ fsHistory[i].x \in Judgments
  <2>1. \A i \in DOMAIN fsHistory : fsHistory[i] \in Heard
    BY <1>1 DEF FocusTyped
  <2> QED BY <2>1 DEF Heard
<1>3. Told \subseteq 1..Len(fsHistory) /\ Away \subseteq Told
  BY <1>1 DEF Told, Away
<1>4. Bout \subseteq Away /\ \A i : BoutUpTo(i) \subseteq Away
  BY DEF Bout, BoutUpTo
<1>5. AlertedAt \subseteq Away /\ WarnedAt \subseteq Away
  BY DEF AlertedAt, WarnedAt, Crosses
<1>6. \A S \in SUBSET (1..Len(fsHistory)) : IsFiniteSet(S) /\ Cardinality(S) \in Nat
  <2>1. IsFiniteSet(1..Len(fsHistory))
    BY <1>1, FS_Interval
  <2> QED BY <2>1, FS_Subset, FS_CardinalityType
<1> QED BY <1>1, <1>2, <1>3, <1>4, <1>5, <1>6

(* One more in a set that lacks it.                                         *)
LEMMA OneMoreIs ==
  ASSUME NEW S, IsFiniteSet(S), NEW n, n \notin S
  PROVE  Cardinality(S \union {n}) = Cardinality(S) + 1
BY FS_AddElement, FS_CardinalityType

(* A sample more. Nothing changes about the samples before it.              *)
Grows(e, n) ==
  FocusTyped /\ n = Len(fsHistory) + 1 /\ e \in Heard /\ fsHistory' = Append(fsHistory, e)

(* The history with it.                                                     *)
LEMMA HistoryGrows ==
  ASSUME NEW e, NEW n, Grows(e, n)
  PROVE  /\ n \in Nat /\ n \notin 1..Len(fsHistory) /\ Len(fsHistory') = n
         /\ DOMAIN fsHistory' = (1..Len(fsHistory)) \union {n} /\ fsHistory'[n] = e
         /\ \A i \in 1..Len(fsHistory) : /\ fsHistory'[i] = fsHistory[i]
                                          /\ i < n /\ i <= n /\ i \in Nat
         /\ fsHistory' \in Seq(Heard)
BY DEF Grows, FocusTyped

(* A told sample joins those that are told; an off-task one the bout under  *)
(* way, which an on-topic one ends. No earlier bout changes.                *)
LEMMA ToldGrows ==
  ASSUME NEW e, NEW n, Grows(e, n)
  PROVE  LET told == ~IsUncertain(e.x, e.s)
             away == told /\ e.x.severity # "on_task"
         IN  /\ Told' = IF told THEN Told \union {n} ELSE Told
             /\ Away' = IF away THEN Away \union {n} ELSE Away
             /\ Bout' = IF away THEN Bout \union {n} ELSE IF told THEN {} ELSE Bout
             /\ \A i \in 1..Len(fsHistory) : BoutUpTo(i)' = BoutUpTo(i)
             /\ away => BoutUpTo(n)' = Bout \union {n}
<1> DEFINE told == ~IsUncertain(e.x, e.s)
           away == told /\ e.x.severity # "on_task"
<1>1. /\ n \in Nat /\ n \notin 1..Len(fsHistory)
      /\ DOMAIN fsHistory' = (1..Len(fsHistory)) \union {n} /\ fsHistory'[n] = e
      /\ \A i \in 1..Len(fsHistory) : /\ fsHistory'[i] = fsHistory[i]
                                       /\ i < n /\ i <= n /\ i \in Nat
  BY HistoryGrows
<1>2. /\ DOMAIN fsHistory = 1..Len(fsHistory)
      /\ Told \subseteq 1..Len(fsHistory) /\ Away \subseteq Told
  BY SamplesAre DEF Grows
<1>3. Told' = IF told THEN Told \union {n} ELSE Told
  BY <1>1, <1>2 DEF Told
<1> HIDE DEF told
<1>4. Away' = IF away THEN Away \union {n} ELSE Away
  BY <1>1, <1>2, <1>3 DEF Away
<1> HIDE DEF away
<1>5. away => told
  BY DEF away
<1>6. Bout' = IF away THEN Bout \union {n} ELSE IF told THEN {} ELSE Bout
  <2>1. CASE away
    BY <1>1, <1>2, <1>3, <1>4, <1>5, <2>1 DEF Bout
  <2>2. CASE ~away /\ told
    <3>1. n \in Told' /\ n \notin Away' /\ \A j \in Away' : j <= n
      BY <1>1, <1>2, <1>3, <1>4, <2>2
    <3> QED BY <2>2, <3>1 DEF Bout
  <2>3. CASE ~told
    BY <1>3, <1>4, <1>5, <2>3 DEF Bout
  <2> QED BY <1>5, <2>1, <2>2, <2>3
<1>7. ASSUME NEW i \in 1..Len(fsHistory) PROVE BoutUpTo(i)' = BoutUpTo(i)
  <2>1. \A k \in Told' : k <= i => k \in Told
    BY <1>1, <1>3
  <2>2. \A k : k \in Away' /\ k <= i <=> k \in Away /\ k <= i
    BY <1>1, <1>4
  <2>3. Told \subseteq Told' /\ Away \subseteq Away'
    BY <1>3, <1>4
  <2> QED BY <1>2, <2>1, <2>2, <2>3 DEF BoutUpTo
<1>8. away => BoutUpTo(n)' = Bout \union {n}
  <2> SUFFICES ASSUME away PROVE BoutUpTo(n)' = Bout \union {n}
    OBVIOUS
  <2>1. Told' = Told \union {n} /\ Away' = Away \union {n}
    BY <1>3, <1>4, <1>5
  <2>2. BoutUpTo(n)' = {j \in Away' : j <= n /\ \A k \in Told' : (j <= k /\ k <= n) => k \in Away'}
    BY DEF BoutUpTo
  <2>3. \A j \in Away' : j <= n
    BY <1>1, <1>2, <2>1
  <2>4. \A j \in Told' : j <= n
    BY <1>1, <1>2, <2>1
  <2>5. BoutUpTo(n)' = {j \in Away' : \A k \in Told' : j <= k => k \in Away'}
    BY <2>2, <2>3, <2>4
  <2>6. BoutUpTo(n)' = Bout'
    BY <2>5 DEF Bout
  <2> QED BY <1>6, <2>6
<1> QED BY <1>3, <1>4, <1>6, <1>7, <1>8 DEF told, away

(* A sample crosses a threshold if the bout has grown to it with the sample *)
(* and had not before.                                                      *)
LEMMA MarksGrow ==
  ASSUME NEW e, NEW n, Grows(e, n)
  PROVE  LET away == ~IsUncertain(e.x, e.s) /\ e.x.severity # "on_task"
             alerts == /\ away /\ Cardinality(Bout) + 1 >= AlertAt(e.s)
                       /\ \A j \in Bout : Cardinality(BoutUpTo(j)) < AlertAt(fsHistory[j].s)
             warns == /\ away /\ Cardinality(Bout) + 1 >= WarningAt(e.s)
                      /\ \A j \in Bout : Cardinality(BoutUpTo(j)) < WarningAt(fsHistory[j].s)
         IN  /\ AlertedAt' = IF alerts THEN AlertedAt \union {n} ELSE AlertedAt
             /\ WarnedAt' = IF warns THEN WarnedAt \union {n} ELSE WarnedAt
<1> DEFINE away == ~IsUncertain(e.x, e.s) /\ e.x.severity # "on_task"
           alerts == /\ away /\ Cardinality(Bout) + 1 >= AlertAt(e.s)
                     /\ \A j \in Bout : Cardinality(BoutUpTo(j)) < AlertAt(fsHistory[j].s)
           warns == /\ away /\ Cardinality(Bout) + 1 >= WarningAt(e.s)
                    /\ \A j \in Bout : Cardinality(BoutUpTo(j)) < WarningAt(fsHistory[j].s)
<1>1. /\ n \notin 1..Len(fsHistory) /\ DOMAIN fsHistory' = (1..Len(fsHistory)) \union {n}
      /\ fsHistory'[n] = e /\ \A i \in 1..Len(fsHistory) : fsHistory'[i] = fsHistory[i]
  BY HistoryGrows
<1>2. /\ DOMAIN fsHistory = 1..Len(fsHistory) /\ Away \subseteq 1..Len(fsHistory)
      /\ Bout \subseteq Away /\ \A i : BoutUpTo(i) \subseteq Away
      /\ IsFiniteSet(Bout)
  BY SamplesAre DEF Grows
<1>3. /\ Away' = IF away THEN Away \union {n} ELSE Away
      /\ \A i \in 1..Len(fsHistory) : BoutUpTo(i)' = BoutUpTo(i)
      /\ away => BoutUpTo(n)' = Bout \union {n}
  BY ToldGrows
<1>4. n \notin Bout /\ Cardinality(Bout \union {n}) = Cardinality(Bout) + 1
  BY <1>1, <1>2, OneMoreIs
<1>5. ASSUME NEW i \in 1..Len(fsHistory)
      PROVE  /\ i \in AlertedAt' <=> i \in AlertedAt
             /\ i \in WarnedAt' <=> i \in WarnedAt
  <2>1. /\ i \in Away' <=> i \in Away
        /\ BoutUpTo(i)' = BoutUpTo(i) /\ fsHistory'[i] = fsHistory[i]
        /\ \A j \in BoutUpTo(i) : BoutUpTo(j)' = BoutUpTo(j) /\ fsHistory'[j] = fsHistory[j]
    BY <1>1, <1>2, <1>3
  <2>2. i \in AlertedAt' <=> i \in AlertedAt
    BY <1>1, <1>2, <2>1 DEF AlertedAt, Crosses
  <2>3. i \in WarnedAt' <=> i \in WarnedAt
    BY <1>1, <1>2, <2>1 DEF WarnedAt, Crosses
  <2> QED BY <2>2, <2>3
<1>6. /\ n \in AlertedAt' <=> alerts
      /\ n \in WarnedAt' <=> warns
  <2>1. CASE away
    <3>1. /\ n \in Away' /\ BoutUpTo(n)' = Bout \union {n} /\ BoutUpTo(n)' \ {n} = Bout
          /\ \A j \in Bout : BoutUpTo(j)' = BoutUpTo(j) /\ fsHistory'[j] = fsHistory[j]
      BY <1>1, <1>2, <1>3, <1>4, <2>1
    <3>2. n \in AlertedAt' <=> alerts
      BY <1>1, <1>4, <2>1, <3>1 DEF AlertedAt, Crosses
    <3>3. n \in WarnedAt' <=> warns
      BY <1>1, <1>4, <2>1, <3>1 DEF WarnedAt, Crosses
    <3> QED BY <3>2, <3>3
  <2>2. CASE ~away
    <3>1. n \notin Away'
      BY <1>1, <1>2, <1>3, <2>2
    <3> QED BY <2>2, <3>1 DEF AlertedAt, WarnedAt, Crosses
  <2> QED BY <2>1, <2>2
<1>7. /\ AlertedAt' \subseteq (1..Len(fsHistory)) \union {n}
      /\ WarnedAt' \subseteq (1..Len(fsHistory)) \union {n}
  BY <1>1 DEF AlertedAt, WarnedAt
<1>8. AlertedAt \subseteq 1..Len(fsHistory) /\ WarnedAt \subseteq 1..Len(fsHistory)
  BY <1>2 DEF AlertedAt, WarnedAt
<1> HIDE DEF alerts, warns
<1>9. /\ AlertedAt' = IF alerts THEN AlertedAt \union {n} ELSE AlertedAt
      /\ WarnedAt' = IF warns THEN WarnedAt \union {n} ELSE WarnedAt
  <2>1. ASSUME alerts PROVE AlertedAt' = AlertedAt \union {n}
    BY <1>5, <1>6, <1>7, <1>8, <2>1
  <2>2. ASSUME ~alerts PROVE AlertedAt' = AlertedAt
    <3>1. n \notin AlertedAt'
      BY <1>6, <2>2
    <3> QED BY <1>5, <1>7, <1>8, <3>1
  <2>3. ASSUME warns PROVE WarnedAt' = WarnedAt \union {n}
    BY <1>5, <1>6, <1>7, <1>8, <2>3
  <2>4. ASSUME ~warns PROVE WarnedAt' = WarnedAt
    <3>1. n \notin WarnedAt'
      BY <1>6, <2>4
    <3> QED BY <1>5, <1>7, <1>8, <3>1
  <2> QED BY <2>1, <2>2, <2>3, <2>4
<1> QED BY <1>9 DEF alerts, warns

(* What an alert costs is that of its severity.                             *)
LEMMA LostGrows ==
  ASSUME NEW e, NEW n, Grows(e, n)
  PROVE  /\ Lost \in Nat
         /\ AlertedAt' = AlertedAt => Lost' = Lost
         /\ AlertedAt' = AlertedAt \union {n} /\ e.x.severity \in OffTask
              => Lost' = Lost + Deduction[e.x.severity]
<1> DEFINE Mark(s) == {i \in AlertedAt : fsHistory[i].x.severity = s}
<1>1. /\ n \notin 1..Len(fsHistory) /\ fsHistory'[n] = e
      /\ \A i \in 1..Len(fsHistory) : fsHistory'[i] = fsHistory[i]
  BY HistoryGrows
<1>2. AlertedAt \subseteq 1..Len(fsHistory)
  BY SamplesAre DEF Grows
<1>3. ASSUME NEW s PROVE IsFiniteSet(Mark(s)) /\ AlertedFor(s) \in Nat /\ n \notin Mark(s)
  <2>1. Mark(s) \in SUBSET (1..Len(fsHistory))
    BY <1>2
  <2> QED BY <1>1, <2>1, SamplesAre DEF Grows, AlertedFor
<1>4. Deduction["mild"] = 2 /\ Deduction["moderate"] = 5 /\ Deduction["blatant"] = 15
  BY DEF Deduction, OffTask
<1>10. Lost = 2 * AlertedFor("mild") + 5 * AlertedFor("moderate") + 15 * AlertedFor("blatant")
  BY <1>4 DEF Lost
<1>11. /\ AlertedFor("mild") \in Nat /\ AlertedFor("moderate") \in Nat
       /\ AlertedFor("blatant") \in Nat
  BY <1>3
<1>5. Lost \in Nat
  BY <1>10, <1>11
<1>6. ASSUME AlertedAt' = AlertedAt, NEW s PROVE AlertedFor(s)' = AlertedFor(s)
  <2>1. {i \in AlertedAt' : fsHistory'[i].x.severity = s} = Mark(s)
    BY <1>1, <1>2, <1>6
  <2> QED BY <2>1 DEF AlertedFor
<1>7. ASSUME AlertedAt' = AlertedAt \union {n}, NEW s
      PROVE  AlertedFor(s)' = IF s = e.x.severity THEN AlertedFor(s) + 1 ELSE AlertedFor(s)
  <2>1. {i \in AlertedAt' : fsHistory'[i].x.severity = s}
          = IF s = e.x.severity THEN Mark(s) \union {n} ELSE Mark(s)
    BY <1>1, <1>2, <1>7
  <2>2. Cardinality(Mark(s) \union {n}) = Cardinality(Mark(s)) + 1
    BY <1>3, OneMoreIs
  <2> QED BY <2>1, <2>2 DEF AlertedFor
<1>8. AlertedAt' = AlertedAt => Lost' = Lost
  BY <1>6 DEF Lost, Deduction
<1>9. AlertedAt' = AlertedAt \union {n} /\ e.x.severity \in OffTask
        => Lost' = Lost + Deduction[e.x.severity]
  <2> SUFFICES ASSUME AlertedAt' = AlertedAt \union {n}, e.x.severity \in OffTask
               PROVE  Lost' = Lost + Deduction[e.x.severity]
    OBVIOUS
  <2>1. Lost' = 2 * AlertedFor("mild")' + 5 * AlertedFor("moderate")'
                 + 15 * AlertedFor("blatant")'
    BY <1>4 DEF Lost, Deduction
  <2>2. CASE e.x.severity = "mild"
    BY <1>4, <1>7, <1>10, <1>11, <2>1, <2>2
  <2>3. CASE e.x.severity = "moderate"
    BY <1>4, <1>7, <1>10, <1>11, <2>1, <2>3
  <2>4. CASE e.x.severity = "blatant"
    BY <1>4, <1>7, <1>10, <1>11, <2>1, <2>4
  <2> QED BY <2>2, <2>3, <2>4 DEF OffTask
<1> QED BY <1>5, <1>8, <1>9

(* How many events of a type a sequence of events holds.                    *)
CountOf(events, type) == Cardinality({k \in DOMAIN events : events[k].type = type})

(* One event more of its type, and none of the other.                       *)
LEMMA EventAdded ==
  ASSUME NEW events \in Seq(FocusEvents), NEW v \in FocusEvents, NEW type
  PROVE  /\ CountOf(events, type) \in Nat
         /\ CountOf(Append(events, v), type) =
              IF v.type = type THEN CountOf(events, type) + 1 ELSE CountOf(events, type)
<1> DEFINE n == Len(events) + 1
           S == {k \in DOMAIN events : events[k].type = type}
           T == {k \in DOMAIN Append(events, v) : Append(events, v)[k].type = type}
<1>1. /\ DOMAIN events = 1..Len(events) /\ Len(events) \in Nat
      /\ DOMAIN Append(events, v) = (1..Len(events)) \union {n} /\ n \notin 1..Len(events)
      /\ Append(events, v)[n] = v
      /\ \A k \in 1..Len(events) : Append(events, v)[k] = events[k]
  OBVIOUS
<1>2. IsFiniteSet(1..Len(events))
  BY <1>1, FS_Interval
<1>3. IsFiniteSet(S) /\ Cardinality(S) \in Nat /\ n \notin S
  BY <1>1, <1>2, FS_Subset, FS_CardinalityType
<1> HIDE DEF n
<1>4. T = IF v.type = type THEN S \union {n} ELSE S
  BY <1>1
<1>5. Cardinality(S \union {n}) = Cardinality(S) + 1
  BY <1>3, OneMoreIs
<1> QED BY <1>3, <1>4, <1>5 DEF CountOf

(* The tallies put every sample in one place.                               *)
LEMMA TalliesKeep ==
  ASSUME FocusTyped, TalliesAreExact, NEW x \in Judgments, ApplyJudgment(x),
         NEW n, Grows([x |-> x, s |-> fsSliders], n)
  PROVE  fsTally' \in Tallies /\ TalliesAreExact'
<1> DEFINE e == [x |-> x, s |-> fsSliders]
           told == ~IsUncertain(x, fsSliders)
           away == told /\ x.severity # "on_task"
           t == fsTally
<1>1. /\ t \in Tallies
      /\ fsTally' = IF ~told THEN [t EXCEPT !.skipped = @ + 1]
                    ELSE [t EXCEPT !.total = @ + 1,
                                   !.onTask = @ + (IF x.severity = "on_task" THEN 1 ELSE 0)]
  BY DEF FocusTyped, ApplyJudgment
<1>2. /\ Told' = IF told THEN Told \union {n} ELSE Told
      /\ Away' = IF away THEN Away \union {n} ELSE Away
  BY ToldGrows
<1>3. /\ n \notin 1..Len(fsHistory) /\ Len(fsHistory') = n /\ n = Len(fsHistory) + 1
      /\ Len(fsHistory) \in Nat
  BY HistoryGrows DEF Grows, FocusTyped
<1>4. /\ IsFiniteSet(Told) /\ n \notin Told
      /\ IsFiniteSet(Told \ Away) /\ n \notin Away /\ n \notin Told \ Away
  <2>1. Told \in SUBSET (1..Len(fsHistory)) /\ Away \subseteq Told
    BY SamplesAre
  <2>2. Told \ Away \in SUBSET (1..Len(fsHistory))
    BY <2>1
  <2> QED BY <1>3, <2>1, <2>2, SamplesAre
<1>5. /\ Cardinality(Told \union {n}) = Cardinality(Told) + 1
      /\ Cardinality((Told \ Away) \union {n}) = Cardinality(Told \ Away) + 1
  BY <1>4, OneMoreIs
<1>6. /\ t.total \in Nat /\ t.onTask \in Nat /\ t.skipped \in Nat
      /\ t.total = Cardinality(Told) /\ t.onTask = Cardinality(Told \ Away)
      /\ t.total + t.skipped = Len(fsHistory)
  BY <1>1 DEF Tallies, TalliesAreExact
<1> HIDE DEF told, e
<1>7. CASE ~told
  <2>1. /\ fsTally' \in Tallies /\ fsTally'.total = t.total /\ fsTally'.onTask = t.onTask
        /\ fsTally'.skipped = t.skipped + 1
    BY <1>1, <1>7 DEF Tallies
  <2>2. Told' = Told /\ Away' = Away
    BY <1>2, <1>7
  <2> QED BY <1>3, <1>6, <2>1, <2>2 DEF TalliesAreExact
<1>8. CASE told /\ x.severity = "on_task"
  <2>1. /\ fsTally' \in Tallies /\ fsTally'.total = t.total + 1
        /\ fsTally'.onTask = t.onTask + 1 /\ fsTally'.skipped = t.skipped
    <3> DEFINE u == [t EXCEPT !.total = t.total + 1]
    <3>1. u \in Tallies /\ u.total = t.total + 1 /\ u.onTask = t.onTask
          /\ u.skipped = t.skipped
      BY <1>1, <1>6 DEF Tallies
    <3>2. fsTally' = [u EXCEPT !.onTask = u.onTask + 1]
      BY <1>1, <1>8, <3>1 DEF Tallies
    <3> HIDE DEF u
    <3> QED BY <1>6, <3>1, <3>2 DEF Tallies
  <2>2. Told' = Told \union {n} /\ Told' \ Away' = (Told \ Away) \union {n}
    BY <1>2, <1>4, <1>8
  <2>3. /\ Cardinality(Told') = Cardinality(Told) + 1
        /\ Cardinality(Told' \ Away') = Cardinality(Told \ Away) + 1
    BY <1>5, <2>2
  <2> HIDE DEF t
  <2> QED BY <1>3, <1>6, <2>1, <2>3 DEF TalliesAreExact
<1>9. CASE told /\ x.severity # "on_task"
  <2>1. /\ fsTally' \in Tallies /\ fsTally'.total = t.total + 1
        /\ fsTally'.onTask = t.onTask /\ fsTally'.skipped = t.skipped
    <3> DEFINE u == [t EXCEPT !.total = t.total + 1]
    <3>1. u \in Tallies /\ u.total = t.total + 1 /\ u.onTask = t.onTask
          /\ u.skipped = t.skipped
      BY <1>1, <1>6 DEF Tallies
    <3>2. fsTally' = [u EXCEPT !.onTask = u.onTask + 0]
      BY <1>1, <1>9, <3>1 DEF Tallies
    <3> HIDE DEF u
    <3> QED BY <1>6, <3>1, <3>2 DEF Tallies
  <2>2. Told' = Told \union {n} /\ Told' \ Away' = Told \ Away
    BY <1>2, <1>4, <1>9
  <2>3. /\ Cardinality(Told') = Cardinality(Told) + 1
        /\ Cardinality(Told' \ Away') = Cardinality(Told \ Away)
    BY <1>5, <2>2
  <2> HIDE DEF t
  <2> QED BY <1>3, <1>6, <2>1, <2>3 DEF TalliesAreExact
<1> QED BY <1>7, <1>8, <1>9

(* Nothing was marked: the marks before stay explained.                     *)
LEMMA NothingMarked ==
  ASSUME FocusInv, NEW e, NEW n, Grows(e, n),
         AlertedAt' = AlertedAt, WarnedAt' = WarnedAt, fsEvents' = fsEvents,
         fsMachine'.score = fsMachine.score
  PROVE  ScoreIsExplained' /\ WarnedFirst'
<1>1. Lost' = Lost
  BY LostGrows
<1>2. ScoreIsExplained'
  BY <1>1 DEF FocusInv, ReportIsExplained, ScoreIsExplained, EventsOf
<1>3. \A i \in AlertedAt : BoutUpTo(i)' = BoutUpTo(i)
  BY ToldGrows, SamplesAre DEF Grows
<1>4. WarnedFirst'
  BY <1>3 DEF FocusInv, ReportIsExplained, WarnedFirst
<1> QED BY <1>2, <1>4

(* An uncertain sample changes nothing, and an on-topic one ends the bout.  *)
LEMMA QuietSampleKeeps ==
  ASSUME FocusInv, NEW x \in Judgments, ApplyJudgment(x),
         NEW n, Grows([x |-> x, s |-> fsSliders], n),
         IsUncertain(x, fsSliders) \/ x.severity = "on_task"
  PROVE  FocusInv'
<1> DEFINE e == [x |-> x, s |-> fsSliders]
           r == Step(fsMachine, x, fsSliders)
<1>1. /\ fsMachine' = r.state /\ fsEvents' = fsEvents \o r.events
      /\ fsSliders' = fsSliders /\ fsMachine \in Machines /\ fsEvents \in Seq(FocusEvents)
      /\ fsSliders \in Sliders
  BY DEF ApplyJudgment, FocusInv, FocusTyped
<1>2. r = [state |-> IF IsUncertain(x, fsSliders) THEN fsMachine
                     ELSE Resting(fsMachine.score), events |-> <<>>]
  BY DEF Step
<1>3. /\ fsEvents' = fsEvents
      /\ fsMachine' = IF IsUncertain(x, fsSliders) THEN fsMachine
                      ELSE Resting(fsMachine.score)
  BY <1>1, <1>2
<1>4. fsMachine' \in Machines /\ fsMachine'.score = fsMachine.score
  BY <1>1, <1>3 DEF Machines, Resting
<1>5. AlertedAt' = AlertedAt /\ WarnedAt' = WarnedAt
  BY MarksGrow
<1>6. /\ Bout' = IF IsUncertain(x, fsSliders) THEN Bout ELSE {}
      /\ \A i \in Bout : BoutUpTo(i)' = BoutUpTo(i) /\ fsHistory'[i] = fsHistory[i]
  <2>1. Bout \subseteq 1..Len(fsHistory)
    BY SamplesAre DEF FocusInv
  <2>2. Bout' = IF IsUncertain(x, fsSliders) THEN Bout ELSE {}
    BY ToldGrows
  <2>3. \A i \in 1..Len(fsHistory) : BoutUpTo(i)' = BoutUpTo(i)
    BY ToldGrows
  <2>4. \A i \in 1..Len(fsHistory) : fsHistory'[i] = fsHistory[i]
    BY HistoryGrows
  <2> QED BY <2>1, <2>2, <2>3, <2>4
<1>7. Remembered'
  <2>1. CASE IsUncertain(x, fsSliders)
    BY <1>3, <1>5, <1>6, <2>1 DEF FocusInv, Remembered
  <2>2. CASE ~IsUncertain(x, fsSliders)
    <3>1. /\ fsMachine'.streak = 0 /\ ~fsMachine'.alerted /\ ~fsMachine'.warned
          /\ Bout' = {} /\ Cardinality({}) = 0
      BY <1>3, <1>6, <2>2, FS_EmptySet DEF Resting
    <3> QED BY <3>1 DEF Remembered
  <2> QED BY <2>1, <2>2
<1>8. ScoreIsExplained' /\ WarnedFirst'
  BY <1>3, <1>4, <1>5, NothingMarked
<1>9. fsTally' \in Tallies /\ TalliesAreExact'
  BY TalliesKeep DEF FocusInv, ReportIsExplained
<1>10. fsHistory' \in Seq(Heard)
  BY HistoryGrows
<1> QED
  BY <1>1, <1>3, <1>4, <1>7, <1>8, <1>9, <1>10 DEF FocusInv, FocusTyped, ReportIsExplained

(* What an off-task step adds to the events.                                *)
LEMMA EventsGrow ==
  ASSUME NEW events \in Seq(FocusEvents), NEW warns \in BOOLEAN, NEW alerts \in BOOLEAN,
         NEW before \in Nat, NEW after \in Nat
  PROVE  LET more == (IF warns THEN <<[type |-> "warning", score |-> before]>> ELSE <<>>)
                     \o (IF alerts THEN <<[type |-> "alert", score |-> after]>> ELSE <<>>)
         IN  /\ events \o more \in Seq(FocusEvents)
             /\ CountOf(events \o more, "alert")
                  = IF alerts THEN CountOf(events, "alert") + 1 ELSE CountOf(events, "alert")
             /\ CountOf(events \o more, "warning")
                  = IF warns THEN CountOf(events, "warning") + 1
                             ELSE CountOf(events, "warning")
<1> DEFINE w == [type |-> "warning", score |-> before]
           a == [type |-> "alert", score |-> after]
           one == IF warns THEN Append(events, w) ELSE events
           two == IF alerts THEN Append(one, a) ELSE one
           more == (IF warns THEN <<w>> ELSE <<>>) \o (IF alerts THEN <<a>> ELSE <<>>)
<1>1. w \in FocusEvents /\ a \in FocusEvents /\ w.type = "warning" /\ a.type = "alert"
  BY DEF FocusEvents
<1> HIDE DEF w, a
<1>2. events \o more = two
  <2>1. CASE warns /\ alerts
    BY <1>1, <2>1
  <2>2. CASE warns /\ ~alerts
    BY <1>1, <2>2
  <2>3. CASE ~warns /\ alerts
    BY <1>1, <2>3
  <2>4. CASE ~warns /\ ~alerts
    BY <1>1, <2>4
  <2> QED BY <2>1, <2>2, <2>3, <2>4
<1>3. /\ one \in Seq(FocusEvents)
      /\ CountOf(one, "alert") = CountOf(events, "alert")
      /\ CountOf(one, "warning") = IF warns THEN CountOf(events, "warning") + 1
                                            ELSE CountOf(events, "warning")
  BY <1>1, EventAdded
<1> HIDE DEF one
<1>4. /\ two \in Seq(FocusEvents)
      /\ CountOf(two, "alert") = IF alerts THEN CountOf(one, "alert") + 1
                                           ELSE CountOf(one, "alert")
      /\ CountOf(two, "warning") = CountOf(one, "warning")
  BY <1>1, <1>3, EventAdded
<1> HIDE DEF two, more
<1>5. /\ events \o more \in Seq(FocusEvents)
      /\ CountOf(events \o more, "alert")
           = IF alerts THEN CountOf(events, "alert") + 1 ELSE CountOf(events, "alert")
      /\ CountOf(events \o more, "warning")
           = IF warns THEN CountOf(events, "warning") + 1 ELSE CountOf(events, "warning")
  BY <1>2, <1>3, <1>4
<1> QED BY <1>5 DEF more, w, a

(* An off-task sample makes the bout longer; whether it warns and alerts    *)
(* the machine remembers what the history says.                             *)
LEMMA OffTaskSampleKeeps ==
  ASSUME FocusInv, NEW x \in Judgments, ApplyJudgment(x),
         NEW n, Grows([x |-> x, s |-> fsSliders], n),
         ~IsUncertain(x, fsSliders), x.severity # "on_task"
  PROVE  FocusInv'
<1> DEFINE e == [x |-> x, s |-> fsSliders]
           m == fsMachine
           warns == ~m.warned /\ m.streak + 1 >= WarningAt(fsSliders)
           alerts == ~m.alerted /\ m.streak + 1 >= AlertAt(fsSliders)
           cost == Deduction[x.severity]
           score == IF alerts THEN Max({0, m.score - cost}) ELSE m.score
<1>1. /\ m \in Machines /\ fsEvents \in Seq(FocusEvents) /\ fsSliders \in Sliders
      /\ fsSliders' = fsSliders
      /\ m.score \in Nat /\ m.streak \in Nat /\ m.alerted \in BOOLEAN /\ m.warned \in BOOLEAN
  BY DEF ApplyJudgment, FocusInv, FocusTyped, Machines
<1>2. /\ fsMachine' = [score |-> score, streak |-> m.streak + 1,
                       alerted |-> m.alerted \/ alerts, warned |-> m.warned \/ warns]
      /\ fsEvents' = fsEvents
           \o ((IF warns THEN <<[type |-> "warning", score |-> m.score]>> ELSE <<>>)
               \o (IF alerts THEN <<[type |-> "alert", score |-> score]>> ELSE <<>>))
  BY DEF ApplyJudgment, Step, OffTaskStep, Latched
<1>3. x.severity \in OffTask /\ cost \in Nat
  <2>1. x.severity \in Severities
    BY FocusAssumption
  <2> QED BY <2>1 DEF Severities, IsUncertain, OffTask, Deduction
<1>4. score \in Nat /\ (alerts => score = IF m.score > cost THEN m.score - cost ELSE 0)
  <2>1. m.score - cost \in Int
    BY <1>1, <1>3
  <2> QED BY <1>1, <1>3, <2>1, FloorIs
<1>5. warns \in BOOLEAN /\ alerts \in BOOLEAN
  OBVIOUS
<1> HIDE DEF score, cost
<1>6. /\ fsEvents' \in Seq(FocusEvents)
      /\ EventsOf("alert")' = IF alerts THEN EventsOf("alert") + 1 ELSE EventsOf("alert")
      /\ EventsOf("warning")' = IF warns THEN EventsOf("warning") + 1
                                         ELSE EventsOf("warning")
  <2> DEFINE more == (IF warns THEN <<[type |-> "warning", score |-> m.score]>> ELSE <<>>)
                     \o (IF alerts THEN <<[type |-> "alert", score |-> score]>> ELSE <<>>)
  <2> HIDE DEF warns, alerts
  <2>1. /\ fsEvents \o more \in Seq(FocusEvents)
        /\ CountOf(fsEvents \o more, "alert")
             = IF alerts THEN CountOf(fsEvents, "alert") + 1 ELSE CountOf(fsEvents, "alert")
        /\ CountOf(fsEvents \o more, "warning")
             = IF warns THEN CountOf(fsEvents, "warning") + 1
                        ELSE CountOf(fsEvents, "warning")
    <3> HIDE DEF m
    <3> QED BY <1>1, <1>4, <1>5, EventsGrow
  <2>2. fsEvents' = fsEvents \o more
    BY <1>2
  <2> HIDE DEF more
  <2>3. \A t : EventsOf(t) = CountOf(fsEvents, t) /\ EventsOf(t)' = CountOf(fsEvents', t)
    BY DEF EventsOf, CountOf
  <2> QED BY <2>1, <2>2, <2>3
<1>7. /\ fsMachine' \in Machines /\ fsMachine'.score = score
      /\ fsMachine'.streak = m.streak + 1
      /\ fsMachine'.alerted <=> m.alerted \/ alerts
      /\ fsMachine'.warned <=> m.warned \/ warns
  <2> DEFINE alerted == m.alerted \/ alerts
             warned == m.warned \/ warns
             rec == [score |-> score, streak |-> m.streak + 1,
                     alerted |-> alerted, warned |-> warned]
  <2>1. alerted \in BOOLEAN /\ warned \in BOOLEAN /\ m.streak + 1 \in Nat
    BY <1>1
  <2>2. fsMachine' = rec
    BY <1>2
  <2>3. (alerted <=> m.alerted \/ alerts) /\ (warned <=> m.warned \/ warns)
    OBVIOUS
  <2> HIDE DEF alerted, warned, alerts, warns, m
  <2>4. /\ rec \in Machines /\ rec.score = score /\ rec.streak = m.streak + 1
        /\ rec.alerted = alerted /\ rec.warned = warned
    BY <1>4, <2>1 DEF Machines
  <2> HIDE DEF rec
  <2> QED BY <2>2, <2>3, <2>4
<1>8. /\ Bout \subseteq 1..Len(fsHistory) /\ IsFiniteSet(Bout) /\ n \notin 1..Len(fsHistory)
      /\ AlertedAt \in SUBSET (1..Len(fsHistory)) /\ WarnedAt \in SUBSET (1..Len(fsHistory))
      /\ IsFiniteSet(AlertedAt) /\ IsFiniteSet(WarnedAt)
      /\ fsHistory'[n] = e /\ \A i \in 1..Len(fsHistory) : fsHistory'[i] = fsHistory[i]
  BY SamplesAre, HistoryGrows DEF FocusInv
<1>9. Bout' = Bout \union {n} /\ BoutUpTo(n)' = Bout'
      /\ \A i \in 1..Len(fsHistory) : BoutUpTo(i)' = BoutUpTo(i)
  <2>1. e.x = x /\ e.s = fsSliders
    OBVIOUS
  <2>2. ~IsUncertain(e.x, e.s) /\ e.x.severity # "on_task" /\ Grows(e, n)
    BY <2>1
  <2> HIDE DEF e
  <2>3. Bout' = Bout \union {n}
    BY <2>2, ToldGrows
  <2>4. BoutUpTo(n)' = Bout \union {n}
    BY <2>2, ToldGrows
  <2>5. \A i \in 1..Len(fsHistory) : BoutUpTo(i)' = BoutUpTo(i)
    BY <2>2, ToldGrows
  <2> QED BY <2>3, <2>4, <2>5
<1>10. Cardinality(Bout') = m.streak + 1 /\ Cardinality(Bout) = m.streak
  <2>1. m.streak = Cardinality(Bout)
    BY DEF FocusInv, Remembered
  <2> QED BY <1>8, <1>9, <2>1, OneMoreIs
<1>11. /\ alerts <=> /\ Cardinality(Bout) + 1 >= AlertAt(e.s)
                     /\ \A j \in Bout : Cardinality(BoutUpTo(j)) < AlertAt(fsHistory[j].s)
       /\ warns <=> /\ Cardinality(Bout) + 1 >= WarningAt(e.s)
                    /\ \A j \in Bout : Cardinality(BoutUpTo(j)) < WarningAt(fsHistory[j].s)
  <2>1. ASSUME NEW j \in Bout
        PROVE  /\ j \in AlertedAt => ~(Cardinality(BoutUpTo(j)) < AlertAt(fsHistory[j].s))
               /\ j \in WarnedAt => ~(Cardinality(BoutUpTo(j)) < WarningAt(fsHistory[j].s))
    <3>1. Cardinality(BoutUpTo(j)) \in Nat
      BY SamplesAre DEF FocusInv
    <3>2. AlertAt(fsHistory[j].s) \in Int /\ WarningAt(fsHistory[j].s) \in Int
      BY <1>8, SamplesAre, ThresholdsAre DEF FocusInv
    <3> QED BY <3>1, <3>2 DEF AlertedAt, WarnedAt, Crosses
  <2>2. alerts <=> /\ Cardinality(Bout) + 1 >= AlertAt(e.s)
                   /\ \A j \in Bout : Cardinality(BoutUpTo(j)) < AlertAt(fsHistory[j].s)
    BY <1>10, <2>1 DEF FocusInv, Remembered
  <2>3. warns <=> /\ Cardinality(Bout) + 1 >= WarningAt(e.s)
                  /\ \A j \in Bout : Cardinality(BoutUpTo(j)) < WarningAt(fsHistory[j].s)
    BY <1>10, <2>1 DEF FocusInv, Remembered
  <2> QED BY <2>2, <2>3
<1>12. /\ AlertedAt' = IF alerts THEN AlertedAt \union {n} ELSE AlertedAt
       /\ WarnedAt' = IF warns THEN WarnedAt \union {n} ELSE WarnedAt
  <2> HIDE DEF warns, alerts
  <2>1. e.x = x /\ e.s = fsSliders
    OBVIOUS
  <2> QED BY <1>11, <2>1, MarksGrow
<1>13. Remembered'
  <2>1. \A j \in Bout : BoutUpTo(j)' = BoutUpTo(j) /\ fsHistory'[j] = fsHistory[j]
    BY <1>8, <1>9
  <2>2. /\ AlertAt(fsSliders) \in Int /\ WarningAt(fsSliders) \in Int
    BY <1>1, ThresholdsAre
  <2>3. IF fsMachine'.alerted
          THEN \E j \in Bout' : j \in AlertedAt'
          ELSE \A j \in Bout' : Cardinality(BoutUpTo(j)') < AlertAt(fsHistory'[j].s)
    <3>1. CASE alerts
      BY <1>7, <1>9, <1>12, <3>1
    <3>2. CASE ~alerts /\ m.alerted
      BY <1>7, <1>9, <1>12, <3>2 DEF FocusInv, Remembered
    <3>3. CASE ~alerts /\ ~m.alerted
      <4>1. m.streak + 1 < AlertAt(fsSliders)
        BY <1>1, <2>2, <3>3
      <4>2. Cardinality(BoutUpTo(n)') < AlertAt(fsHistory'[n].s)
        BY <1>8, <1>9, <1>10, <4>1
      <4>3. \A j \in Bout : Cardinality(BoutUpTo(j)') < AlertAt(fsHistory'[j].s)
        BY <2>1, <3>3 DEF FocusInv, Remembered
      <4> QED BY <1>7, <1>9, <3>3, <4>2, <4>3
    <3> QED BY <3>1, <3>2, <3>3
  <2>4. IF fsMachine'.warned
          THEN \E j \in Bout' : j \in WarnedAt'
          ELSE \A j \in Bout' : Cardinality(BoutUpTo(j)') < WarningAt(fsHistory'[j].s)
    <3>1. CASE warns
      BY <1>7, <1>9, <1>12, <3>1
    <3>2. CASE ~warns /\ m.warned
      BY <1>7, <1>9, <1>12, <3>2 DEF FocusInv, Remembered
    <3>3. CASE ~warns /\ ~m.warned
      <4>1. m.streak + 1 < WarningAt(fsSliders)
        BY <1>1, <2>2, <3>3
      <4>2. Cardinality(BoutUpTo(n)') < WarningAt(fsHistory'[n].s)
        BY <1>8, <1>9, <1>10, <4>1
      <4>3. \A j \in Bout : Cardinality(BoutUpTo(j)') < WarningAt(fsHistory'[j].s)
        BY <2>1, <3>3 DEF FocusInv, Remembered
      <4> QED BY <1>7, <1>9, <3>3, <4>2, <4>3
    <3> QED BY <3>1, <3>2, <3>3
  <2> QED BY <1>7, <1>10, <2>3, <2>4 DEF Remembered
<1>14. ScoreIsExplained'
  <2>1. /\ Cardinality(AlertedAt') = IF alerts THEN Cardinality(AlertedAt) + 1
                                               ELSE Cardinality(AlertedAt)
        /\ Cardinality(WarnedAt') = IF warns THEN Cardinality(WarnedAt) + 1
                                             ELSE Cardinality(WarnedAt)
    BY <1>8, <1>12, OneMoreIs
  <2>2. ScoreIsExplained
    BY DEF FocusInv, ReportIsExplained
  <2>3. Lost \in Nat /\ Lost' = IF alerts THEN Lost + cost ELSE Lost
    BY <1>3, <1>12, LostGrows DEF cost
  <2>4. fsMachine'.score = Max({0, InitialScore - Lost'})
    <3>1. m.score = Max({0, InitialScore - Lost})
      BY <2>2 DEF ScoreIsExplained
    <3>2. InitialScore \in Nat
      BY FocusAssumption
    <3>3. InitialScore - Lost \in Int /\ InitialScore - (Lost + cost) \in Int
      BY <1>3, <2>3, <3>2
    <3>4. m.score = IF InitialScore - Lost > 0 THEN InitialScore - Lost ELSE 0
      BY <3>1, <3>3, FloorIs
    <3>5. CASE alerts
      <4>1. Max({0, InitialScore - Lost'})
              = IF InitialScore - (Lost + cost) > 0 THEN InitialScore - (Lost + cost) ELSE 0
        BY <2>3, <3>3, <3>5, FloorIs
      <4>2. score = IF m.score > cost THEN m.score - cost ELSE 0
        BY <1>4, <3>5
      <4>3. score = IF InitialScore - (Lost + cost) > 0 THEN InitialScore - (Lost + cost)
                                                        ELSE 0
        <5> HIDE DEF m
        <5> QED BY <1>3, <2>3, <3>2, <3>4, <4>2
      <4> QED BY <1>7, <4>1, <4>3
    <3>6. CASE ~alerts
      BY <1>7, <2>3, <3>1, <3>6 DEF score
    <3> QED BY <3>5, <3>6
  <2> QED BY <1>6, <2>1, <2>2, <2>4 DEF ScoreIsExplained
<1>15. WarnedFirst'
  <2> SUFFICES ASSUME NEW i \in AlertedAt' PROVE \E j \in BoutUpTo(i)' : j \in WarnedAt'
    BY DEF WarnedFirst
  <2>1. CASE i \in AlertedAt
    <3>1. \E j \in BoutUpTo(i) : j \in WarnedAt
      BY <2>1 DEF FocusInv, ReportIsExplained, WarnedFirst
    <3> QED BY <1>8, <1>9, <1>12, <2>1, <3>1
  <2>2. CASE i \notin AlertedAt
    <3>1. i = n /\ alerts
      BY <1>12, <2>2
    <3>2. m.warned \/ warns
      <4>1. /\ WarningAt(fsSliders) < AlertAt(fsSliders)
            /\ WarningAt(fsSliders) \in Int /\ AlertAt(fsSliders) \in Int
        BY <1>1, ThresholdsAre
      <4> QED BY <1>1, <3>1, <4>1
    <3>3. \E j \in Bout' : j \in WarnedAt'
      BY <1>7, <1>13, <3>2 DEF Remembered
    <3> QED BY <1>9, <3>1, <3>3
  <2> QED BY <2>1, <2>2
<1>16. fsTally' \in Tallies /\ TalliesAreExact'
  BY TalliesKeep DEF FocusInv, ReportIsExplained
<1>17. fsHistory' \in Seq(Heard)
  BY HistoryGrows
<1> QED
  BY <1>1, <1>6, <1>7, <1>13, <1>14, <1>15, <1>16, <1>17
     DEF FocusInv, FocusTyped, ReportIsExplained

(* The start of a session: no sample yet.                                   *)
NothingIsHeard ==
  /\ fsHistory = <<>>
  /\ fsMachine = Resting(InitialScore)
  /\ fsEvents = <<>>
  /\ fsTally = [total |-> 0, onTask |-> 0, skipped |-> 0]
  /\ fsSliders \in Sliders

(* The invariant holds there, also after a reset, and every step keeps it.  *)
LEMMA NothingHeard == NothingIsHeard => FocusInv
<1> SUFFICES ASSUME NothingIsHeard PROVE FocusInv
  OBVIOUS
<1> USE DEF NothingIsHeard
<1>1. InitialScore \in Nat
  BY FocusAssumption
<1>2. FocusTyped
  BY <1>1 DEF FocusTyped, Machines, Tallies, Resting
<1>3. /\ Told = {} /\ Away = {} /\ Bout = {} /\ AlertedAt = {} /\ WarnedAt = {}
      /\ Cardinality({}) = 0
  BY FS_EmptySet DEF Told, Away, Bout, AlertedAt, WarnedAt, Crosses
<1>4. Remembered
  BY <1>3 DEF Remembered, Resting
<1>5. Lost = 0
  <2>1. \A s : AlertedFor(s) = 0
    BY <1>3 DEF AlertedFor
  <2> QED BY <2>1 DEF Lost, Deduction, OffTask
<1>6. ScoreIsExplained
  <2>1. \A type : EventsOf(type) = 0
    <3>1. \A type : {k \in DOMAIN fsEvents : fsEvents[k].type = type} = {}
      OBVIOUS
    <3> QED BY <1>3, <3>1 DEF EventsOf
  <2>2. Max({0, InitialScore - Lost}) = InitialScore
    BY <1>1, <1>5, FloorIs
  <2> QED BY <1>3, <2>1, <2>2 DEF ScoreIsExplained, Resting
<1>7. TalliesAreExact /\ WarnedFirst
  BY <1>3 DEF TalliesAreExact, WarnedFirst
<1> QED BY <1>2, <1>4, <1>6, <1>7 DEF FocusInv, ReportIsExplained

(* The same of the state after a step.                                      *)
LEMMA NothingHeardAgain == NothingIsHeard' => FocusInv'
BY NothingHeard, PTL

(* Every step keeps the invariant.                                          *)
LEMMA FocusStep == FocusInv /\ [FocusNext]_focusVars => FocusInv'
<1> SUFFICES ASSUME FocusInv, [FocusNext]_focusVars PROVE FocusInv'
  OBVIOUS
<1>1. ASSUME NEW x \in Judgments, ApplyJudgment(x) PROVE FocusInv'
  <2> DEFINE e == [x |-> x, s |-> fsSliders]
  <2>1. PICK n : n = Len(fsHistory) + 1
    OBVIOUS
  <2>2. Grows(e, n)
    BY <1>1, <2>1 DEF Grows, ApplyJudgment, FocusInv, FocusTyped, Heard
  <2> HIDE DEF e
  <2>3. CASE IsUncertain(x, fsSliders) \/ x.severity = "on_task"
    BY <1>1, <2>2, <2>3, QuietSampleKeeps DEF e
  <2>4. CASE ~IsUncertain(x, fsSliders) /\ x.severity # "on_task"
    BY <1>1, <2>2, <2>4, OffTaskSampleKeeps DEF e
  <2> QED BY <2>3, <2>4
<1>2. ASSUME UNCHANGED <<fsMachine, fsTally, fsEvents, fsHistory>>, fsSliders' \in Sliders
      PROVE  FocusInv'
  <2>1. /\ Told' = Told /\ Away' = Away
    BY <1>2 DEF Told, Away
  <2>2. Bout' = Bout /\ \A i : BoutUpTo(i)' = BoutUpTo(i)
    BY <2>1 DEF Bout, BoutUpTo
  <2>3. AlertedAt' = AlertedAt /\ WarnedAt' = WarnedAt
    BY <1>2, <2>1, <2>2 DEF AlertedAt, WarnedAt, Crosses
  <2>4. Remembered'
    BY <1>2, <2>2, <2>3 DEF FocusInv, Remembered
  <2>5. Lost' = Lost
    BY <1>2, <2>3 DEF Lost, AlertedFor, Deduction
  <2>6. ReportIsExplained'
    BY <1>2, <2>1, <2>2, <2>3, <2>5
       DEF FocusInv, ReportIsExplained, ScoreIsExplained, TalliesAreExact, WarnedFirst, EventsOf
  <2> QED BY <1>2, <2>4, <2>6 DEF FocusInv, FocusTyped
<1>3. ASSUME NEW s \in Sliders, SliderMoves(s) PROVE FocusInv'
  BY <1>2, <1>3 DEF SliderMoves
<1>4. CASE FocusReset
  <2>1. /\ fsHistory' = <<>> /\ fsMachine' = Resting(InitialScore) /\ fsEvents' = <<>>
        /\ fsTally' = [total |-> 0, onTask |-> 0, skipped |-> 0] /\ fsSliders' \in Sliders
    BY <1>4 DEF FocusReset, FocusInv, FocusTyped
  <2> QED BY <2>1, NothingHeardAgain DEF NothingIsHeard
<1>5. CASE UNCHANGED focusVars
  BY <1>2, <1>5 DEF focusVars, FocusInv, FocusTyped
<1> QED BY <1>1, <1>3, <1>4, <1>5 DEF FocusNext

(* The report of a session is what its samples say, whatever flaky answers, *)
(* moves of the sliders and resets come in between, for any samples and     *)
(* settings (scoreMachine.ts, step; focusStore.ts, applyJudgment).          *)
THEOREM ReportAlwaysExplained == FocusSpec => []ReportIsExplained
<1>1. FocusInit => FocusInv
  BY NothingHeard DEF FocusInit, NothingIsHeard
<1>2. FocusInv => ReportIsExplained
  BY DEF FocusInv
<1> QED BY <1>1, <1>2, FocusStep, PTL DEF FocusSpec
=============================================================================
