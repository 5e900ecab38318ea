----------------------------- MODULE Shortcuts -----------------------------
(***************************************************************************)
(* The three global shortcuts: what the settings store shows               *)
(* (stores/settingsStore.ts), what it keeps on the disk through the plugin  *)
(* store, what the shell has bound and which keys it has grabbed from the   *)
(* operating system (commands/system.rs).  Rebinding and resetting queue up *)
(* behind each other; every setting's save writes the whole cache, so the   *)
(* saves queue up too.  Each command of the shell runs on its main thread,  *)
(* alone; its answer is handled with it, nobody else changes the shown      *)
(* shortcuts meanwhile.                                                     *)
(***************************************************************************)
EXTENDS Naturals

CONSTANTS
  Keys,         \* accelerators
  Shipped,      \* the default of each action
  Spare,        \* the three candidates for a microphone toggle that collides
  Stored,       \* what settings.json may hold at the first launch
  MaxRebinds,   \* bound: rebinds, resets and changes of another setting
  MaxMishaps,   \* bound: failed writes, releases and keys taken by others
  MaxEdges,     \* bound: sessions begun or ended
  MaxLaunches   \* bound: launches after the first

Actions == {"friends", "ai", "mic"}

ASSUME ShortcutsAssumption ==
  /\ Shipped \in [Actions -> Keys]
  /\ Spare \in [1..3 -> Keys] /\ Spare[1] = Shipped["mic"]
  /\ \A i, j \in 1..3 : Spare[i] = Spare[j] => i = j
  /\ Stored \subseteq [Actions -> Keys]
  /\ {MaxRebinds, MaxMishaps, MaxEdges, MaxLaunches} \subseteq Nat

VARIABLES
  scShown,      \* values of the settings store
  scBound,      \* ShortcutBindings
  scHeld,       \* keys the shell has grabbed
  scForeign,    \* keys another program has grabbed
  scSession,    \* SessionActiveFlag
  scAi,         \* AiFeaturesFlag
  scCache,      \* what the plugin store holds in memory: [keys, ai]
  scDisk,       \* settings.json
  scOp,         \* shortcutQueue: the operation that runs
  scToggle,     \* the write of aiFeaturesEnabled: [pc, on]
  scBudget,     \* [rebinds, mishaps, edges, launches] so far
  scGhost       \* see below

(* For the properties only: `wanted`, the shortcuts the user was last told  *)
(* to have, `past`, all of those, `lost`, whether a write into the cache or *)
(* its undoing failed, `split`, whether the shell refused to undo a reset,  *)
(* and `loose`, keys whose grab does not follow any more, because the       *)
(* system refused or another action shared them.                            *)
scVars == <<scShown, scBound, scHeld, scForeign, scSession, scAi, scCache, scDisk,
            scOp, scToggle, scBudget, scGhost>>

NoOp == [kind |-> "none"]
Still == [pc |-> "none", on |-> FALSE]

Count(what) == scBudget' = [scBudget EXCEPT ![what] = @ + 1]
(* A step that may go wrong: if it does, one mishap is used up.             *)
Mishap(ok) ==
  IF ok THEN UNCHANGED scBudget
        ELSE scBudget.mishaps < MaxMishaps /\ Count("mishaps")

(* What both sides make of the file: a microphone toggle that collides      *)
(* moves to the first free candidate.                                       *)
ResolvedKeys(keys) ==
  LET taken == {keys["friends"], keys["ai"]}
      first == CHOOSE i \in 1..3 :
                 Spare[i] \notin taken /\ \A j \in 1..(i - 1) : Spare[j] \in taken
  IN  IF keys["mic"] \in taken THEN [keys EXCEPT !["mic"] = Spare[first]] ELSE keys

ShortcutsInit ==
  /\ \E keys \in Stored :
       /\ scDisk = [keys |-> keys, ai |-> FALSE]
       /\ scShown = ResolvedKeys(keys)
       /\ scGhost = [wanted |-> keys, past |-> {keys}, lost |-> FALSE, split |-> FALSE,
                     loose |-> {}]
  /\ scBound = scShown /\ scCache = scDisk
  /\ scHeld = {} /\ scForeign = {} /\ scSession = FALSE /\ scAi = FALSE
  /\ scOp = NoOp /\ scToggle = Still
  /\ scBudget = [rebinds |-> 0, mishaps |-> 0, edges |-> 0, launches |-> 0]

IsWanted(a) == IF a = "ai" THEN scAi ELSE scSession
Others(a) == Actions \ {a}

----------------------------------------------------------------------------
(* The edges of a feature, best effort: its key is grabbed if nobody has    *)
(* it, and released if no other action needs it.  A result is what is       *)
(* held and which key went wrong.                                           *)
Grab(h, k) ==
  IF k \in h THEN [held |-> h, loose |-> {}]
  ELSE IF k \in scForeign THEN [held |-> h, loose |-> {k}]
  ELSE [held |-> h \union {k}, loose |-> {}]
Release(h, k, needed, ok) ==
  IF needed \/ k \notin h THEN [held |-> h, loose |-> {}]
  ELSE IF ok THEN [held |-> h \ {k}, loose |-> {}]
  ELSE [held |-> h, loose |-> {k}]

Loosen(keys) == scGhost' = [scGhost EXCEPT !.loose = @ \union keys]

SessionSetActive(active, ok) ==
  LET friends == scBound["friends"]
      mic == scBound["mic"]
      needed(k) == k = scBound["ai"] /\ scAi
      one == IF active THEN Grab(scHeld, friends)
             ELSE Release(scHeld, friends, needed(friends), ok)
      two == IF active THEN Grab(one.held, mic)
             ELSE Release(one.held, mic, needed(mic), TRUE)
  IN  /\ active # scSession /\ scBudget.edges < MaxEdges
      /\ ok \/ (~active /\ scBudget.mishaps < MaxMishaps)
      /\ scSession' = active /\ scHeld' = two.held
      /\ Loosen(one.loose \union two.loose)
      /\ scBudget' = [scBudget EXCEPT !.edges = @ + 1, !.mishaps = IF ok THEN @ ELSE @ + 1]
      /\ UNCHANGED <<scShown, scBound, scForeign, scAi, scCache, scDisk, scOp, scToggle>>

ApplyAi(on, ok) ==
  LET ai == scBound["ai"]
      shared == \E a \in Others("ai") : scBound[a] = ai
  IN  IF on THEN Grab(scHeld, ai) ELSE Release(scHeld, ai, shared /\ scSession, ok)

----------------------------------------------------------------------------
(* withSettingsWrite: one writer at a time.                                 *)
WritesAtOnce == FALSE                             \* slip: no queue of writes
OpWrites == scOp.kind # "none" /\ scOp.pc \in {"set", "save", "restore", "unset", "unsave"}
ToggleWrites == scToggle.pc = "save"

(* setAiFeaturesEnabled stands for every other setting; only this one is    *)
(* pushed to the shell.                                                     *)
ToggleBegins(on) ==
  /\ scToggle = Still /\ on # scAi /\ scBudget.rebinds < MaxRebinds
  /\ scToggle' = [pc |-> "set", on |-> on] /\ Count("rebinds")
  /\ UNCHANGED <<scShown, scBound, scHeld, scForeign, scSession, scAi, scCache, scDisk,
                 scOp, scGhost>>

(* A write that fails is logged; the setting is pushed all the same.        *)
ToggleSets(ok) ==
  /\ scToggle.pc = "set" /\ ~OpWrites /\ Mishap(ok)
  /\ scCache' = IF ok THEN [scCache EXCEPT !.ai = scToggle.on] ELSE scCache
  /\ scToggle' = [scToggle EXCEPT !.pc = IF ok THEN "save" ELSE "push"]
  /\ UNCHANGED <<scShown, scBound, scHeld, scForeign, scSession, scAi, scDisk, scOp,
                 scGhost>>

ToggleSaves(ok) ==
  /\ scToggle.pc = "save" /\ Mishap(ok)
  /\ scDisk' = IF ok THEN scCache ELSE scDisk
  /\ scToggle' = [scToggle EXCEPT !.pc = "push"]
  /\ UNCHANGED <<scShown, scBound, scHeld, scForeign, scSession, scAi, scCache, scOp,
                 scGhost>>

(* system_ai_features_set_enabled.                                          *)
TogglePushes(ok) ==
  LET result == ApplyAi(scToggle.on, ok)
  IN  /\ scToggle.pc = "push" /\ (ok \/ ~scToggle.on) /\ Mishap(ok)
      /\ scAi' = scToggle.on /\ scHeld' = result.held /\ Loosen(result.loose)
      /\ scToggle' = Still
      /\ UNCHANGED <<scShown, scBound, scForeign, scSession, scCache, scDisk, scOp>>

----------------------------------------------------------------------------
(* setShortcutAccelerator(): shown at once, bound, then written.            *)
RebindBegins(a, k) ==
  /\ scOp = NoOp /\ scBudget.rebinds < MaxRebinds
  /\ scOp' = [kind |-> "rebind", pc |-> "bind", action |-> a, key |-> k,
              prev |-> scShown[a]]
  /\ scShown' = [scShown EXCEPT ![a] = k] /\ Count("rebinds")
  /\ UNCHANGED <<scBound, scHeld, scForeign, scSession, scAi, scCache, scDisk, scToggle,
                 scGhost>>

(* system_set_global_shortcut: the old key makes way unless another action  *)
(* shares it; the new one is grabbed even if nobody wants it now, to learn  *)
(* whether it can be.  `ok` fails the one release of the call.              *)
SharedKey(a) == \E b \in Others(a) : scBound[b] = scBound[a]
MakesWay(a) == IF SharedKey(a) THEN {} ELSE scHeld \intersect {scBound[a]}
BindRefused(a, k, ok) ==
  \/ \E b \in Others(a) : scBound[b] = k
  \/ ~ok
  \/ k \in scForeign \union (scHeld \ MakesWay(a))

RebindRefused(ok) ==
  LET a == scOp.action
      k == scOp.key
      grabbed == k \notin scForeign \union scHeld \union {scBound[b] : b \in Actions}
  IN  /\ scOp.kind = "rebind" /\ scOp.pc = "bind"
      /\ k # scBound[a] /\ BindRefused(a, k, ok)
      /\ ok \/ MakesWay(a) # {} \/ (grabbed /\ ~IsWanted(a))
      /\ Mishap(ok)
      /\ IF ~ok /\ grabbed /\ MakesWay(a) = {}
           THEN scHeld' = scHeld \union {k} /\ Loosen({k})
           ELSE UNCHANGED <<scHeld, scGhost>>
      /\ scShown' = [scShown EXCEPT ![a] = scOp.prev] /\ scOp' = NoOp
      /\ UNCHANGED <<scBound, scForeign, scSession, scAi, scCache, scDisk, scToggle>>

Intend(ghost, keys) == [ghost EXCEPT !.wanted = keys, !.past = @ \union {keys}]

RebindBinds ==
  LET a == scOp.action
      k == scOp.key
      old == scBound[a]
      stray == IF SharedKey(a) /\ old \in scHeld THEN {old} ELSE {}
      intent == Intend(scGhost, [scGhost.wanted EXCEPT ![a] = k])
  IN  /\ scOp.kind = "rebind" /\ scOp.pc = "bind"
      /\ IF k = old
           THEN UNCHANGED <<scBound, scHeld>> /\ scGhost' = intent
           ELSE /\ ~BindRefused(a, k, TRUE)
                /\ scBound' = [scBound EXCEPT ![a] = k]
                /\ scHeld' = (scHeld \ MakesWay(a)) \union (IF IsWanted(a) THEN {k} ELSE {})
                /\ scGhost' = [intent EXCEPT !.loose = @ \union stray]
      /\ scOp' = [scOp EXCEPT !.pc = "write"]
      /\ UNCHANGED <<scShown, scForeign, scSession, scAi, scCache, scDisk, scToggle,
                     scBudget>>

(* writeKey() waits for its turn, and swallows what goes wrong.             *)
RebindSets(ok) ==
  /\ scOp.kind = "rebind" /\ scOp.pc = "write" /\ ~ToggleWrites /\ Mishap(ok)
  /\ scCache' = IF ok THEN [scCache EXCEPT !.keys[scOp.action] = scOp.key] ELSE scCache
  /\ scOp' = IF ok THEN [scOp EXCEPT !.pc = "save"] ELSE NoOp
  /\ scGhost' = [scGhost EXCEPT !.lost = @ \/ ~ok]
  /\ UNCHANGED <<scShown, scBound, scHeld, scForeign, scSession, scAi, scDisk, scToggle>>

RebindSaves(ok) ==
  /\ scOp.kind = "rebind" /\ scOp.pc = "save" /\ Mishap(ok)
  /\ scDisk' = IF ok THEN scCache ELSE scDisk
  /\ scOp' = NoOp
  /\ UNCHANGED <<scShown, scBound, scHeld, scForeign, scSession, scAi, scCache, scToggle,
                 scGhost>>

----------------------------------------------------------------------------
(* resetShortcutsToDefaults(): bound first, then written in one go; if that *)
(* fails everything is undone.                                              *)
Order == <<"friends", "ai", "mic">>

ResetBegins ==
  /\ scOp = NoOp /\ scBudget.rebinds < MaxRebinds
  /\ scOp' = [kind |-> "reset", pc |-> "bind", at |-> 1, prev |-> scShown]
  /\ Count("rebinds")
  /\ UNCHANGED <<scShown, scBound, scHeld, scForeign, scSession, scAi, scCache, scDisk,
                 scToggle, scGhost>>

(* system_set_global_shortcuts: our old keys make way, every new one is     *)
(* tried, and those that are wanted stay.  After a failure the old ones     *)
(* are grabbed again.                                                       *)
Bindable(keys) ==
  /\ \A a, b \in Actions : keys[a] = keys[b] => a = b
  /\ \A a \in Actions :
       keys[a] \notin scForeign \union (scHeld \ {scBound[b] : b \in Actions})
Rebound(keys) ==
  /\ scBound' = keys
  /\ scHeld' = (scHeld \ {scBound[b] : b \in Actions})
                 \union {keys[a] : a \in {b \in Actions : IsWanted(b)}}

ResetBinds(ok) ==
  /\ scOp.kind = "reset" /\ scOp.pc = "bind" /\ Mishap(ok)
  /\ IF ok /\ Bindable(Shipped)
       THEN Rebound(Shipped) /\ scOp' = [scOp EXCEPT !.pc = "turn"]
       ELSE UNCHANGED <<scBound, scHeld>> /\ scOp' = NoOp
  /\ UNCHANGED <<scShown, scForeign, scSession, scAi, scCache, scDisk, scToggle, scGhost>>

ResetsTurn ==
  /\ scOp.kind = "reset" /\ scOp.pc = "turn" /\ ~ToggleWrites
  /\ scOp' = [scOp EXCEPT !.pc = "set"]
  /\ UNCHANGED <<scShown, scBound, scHeld, scForeign, scSession, scAi, scCache, scDisk,
                 scToggle, scBudget, scGhost>>

ResetSets(ok) ==
  /\ scOp.kind = "reset" /\ scOp.pc = "set" /\ Mishap(ok)
  /\ scCache' = IF ok THEN [scCache EXCEPT !.keys[Order[scOp.at]] = Shipped[Order[scOp.at]]]
                ELSE scCache
  /\ scOp' = IF ~ok THEN [scOp EXCEPT !.pc = "restore"]
             ELSE IF scOp.at < 3 THEN [scOp EXCEPT !.at = @ + 1]
             ELSE [scOp EXCEPT !.pc = "save"]
  /\ UNCHANGED <<scShown, scBound, scHeld, scForeign, scSession, scAi, scDisk, scToggle,
                 scGhost>>

ResetSaves(ok) ==
  /\ scOp.kind = "reset" /\ scOp.pc = "save" /\ Mishap(ok)
  /\ IF ok
       THEN /\ scDisk' = scCache /\ scShown' = Shipped /\ scOp' = NoOp
            /\ scGhost' = Intend(scGhost, Shipped)
       ELSE /\ scOp' = [scOp EXCEPT !.pc = "restore"]
            /\ UNCHANGED <<scDisk, scShown, scGhost>>
  /\ UNCHANGED <<scBound, scHeld, scForeign, scSession, scAi, scCache, scToggle>>

(* The shell refuses what it would refuse from the user, two actions with   *)
(* one key for instance; the store is restored all the same.                *)
ResetRestores(ok) ==
  /\ scOp.kind = "reset" /\ scOp.pc = "restore" /\ Mishap(ok)
  /\ IF ok /\ Bindable(scOp.prev)
       THEN Rebound(scOp.prev) /\ UNCHANGED scGhost
       ELSE UNCHANGED <<scBound, scHeld>> /\ scGhost' = [scGhost EXCEPT !.split = TRUE]
  /\ scOp' = [scOp EXCEPT !.pc = "unset", !.at = 1]
  /\ UNCHANGED <<scShown, scForeign, scSession, scAi, scCache, scDisk, scToggle>>

ResetUnsets(ok) ==
  /\ scOp.kind = "reset" /\ scOp.pc = "unset" /\ Mishap(ok)
  /\ scCache' = IF ok THEN [scCache EXCEPT !.keys[Order[scOp.at]] = scOp.prev[Order[scOp.at]]]
                ELSE scCache
  /\ scOp' = IF ~ok THEN NoOp
             ELSE IF scOp.at < 3 THEN [scOp EXCEPT !.at = @ + 1]
             ELSE [scOp EXCEPT !.pc = "unsave"]
  /\ scGhost' = IF ok THEN scGhost ELSE [scGhost EXCEPT !.lost = TRUE]
  /\ UNCHANGED <<scShown, scBound, scHeld, scForeign, scSession, scAi, scDisk, scToggle>>

ResetUnsaves(ok) ==
  /\ scOp.kind = "reset" /\ scOp.pc = "unsave" /\ Mishap(ok)
  /\ scDisk' = IF ok THEN scCache ELSE scDisk
  /\ scOp' = NoOp
  /\ scGhost' = Intend(scGhost, scOp.prev)
  /\ UNCHANGED <<scShown, scBound, scHeld, scForeign, scSession, scAi, scCache, scToggle>>

----------------------------------------------------------------------------
(* Another program takes a key, or gives it back.                           *)
OthersTake(k) ==
  /\ k \notin scHeld \union scForeign /\ Mishap(FALSE)
  /\ scForeign' = scForeign \union {k}
  /\ UNCHANGED <<scShown, scBound, scHeld, scSession, scAi, scCache, scDisk, scOp,
                 scToggle, scGhost>>

OthersGive(k) ==
  /\ k \in scForeign
  /\ scForeign' = scForeign \ {k}
  /\ UNCHANGED <<scShown, scBound, scHeld, scSession, scAi, scCache, scDisk, scOp,
                 scToggle, scBudget, scGhost>>

(* The process ends and is started again: both sides read the file, and the *)
(* shell grabs the key of the AI dialog if that is on.                      *)
StartsAgain ==
  LET keys == ResolvedKeys(scDisk.keys)
      first == IF scDisk.ai THEN Grab({}, keys["ai"]) ELSE [held |-> {}, loose |-> {}]
  IN  /\ scBudget.launches < MaxLaunches /\ Count("launches")
      /\ scShown' = keys /\ scBound' = keys /\ scCache' = scDisk
      /\ scSession' = FALSE /\ scAi' = scDisk.ai
      /\ scHeld' = first.held /\ scOp' = NoOp /\ scToggle' = Still
      /\ scGhost' = [wanted |-> scDisk.keys, past |-> {scDisk.keys}, lost |-> FALSE,
                     split |-> FALSE, loose |-> first.loose]
      /\ UNCHANGED <<scForeign, scDisk>>

ShortcutsNext ==
  \/ \E on, ok \in BOOLEAN : SessionSetActive(on, ok)
  \/ \E on \in BOOLEAN : ToggleBegins(on)
  \/ \E ok \in BOOLEAN : ToggleSets(ok) \/ ToggleSaves(ok) \/ TogglePushes(ok)
  \/ \E a \in Actions, k \in Keys : RebindBegins(a, k)
  \/ \E ok \in BOOLEAN : RebindRefused(ok) \/ RebindSets(ok) \/ RebindSaves(ok)
  \/ RebindBinds
  \/ ResetBegins \/ ResetsTurn
  \/ \E ok \in BOOLEAN : ResetBinds(ok) \/ ResetSets(ok) \/ ResetSaves(ok)
                          \/ ResetRestores(ok) \/ ResetUnsets(ok) \/ ResetUnsaves(ok)
  \/ \E k \in Keys : OthersTake(k) \/ OthersGive(k)
  \/ StartsAgain

ShortcutsSpec == ShortcutsInit /\ [][ShortcutsNext]_scVars

----------------------------------------------------------------------------
ShortcutsTypeOK ==
  /\ scShown \in [Actions -> Keys] /\ scBound \in [Actions -> Keys]
  /\ scHeld \subseteq Keys /\ scForeign \subseteq Keys
  /\ scHeld \intersect scForeign = {}

(* Between two operations the settings show the shortcuts that are bound,   *)
(* unless the shell refused to undo a reset (its rollback is best effort).  *)
ShownIsBound == scOp = NoOp /\ ~scGhost.split => scShown = scBound

(* A key is kept from the other programs exactly while an action that is    *)
(* bound to it is wanted: no grab outlives its session or the AI features,  *)
(* none is missing, whichever of rebind, reset and edge came first.  Keys   *)
(* the system refused to give or to take back, and the old key of an action *)
(* that shared it, are let off.                                             *)
GrabsFollow ==
  \A k \in Keys \ scGhost.loose :
    k \in scHeld <=> \E a \in Actions : IsWanted(a) /\ scBound[a] = k

(* Unless a write into the cache was lost, no file ever mixes two sets of   *)
(* shortcuts: a reset is written as a whole or not at all, whichever other  *)
(* setting is saved meanwhile; and what a failed save left out is in the    *)
(* cache, for the next save to write.                                       *)
ResetTarget == IF scOp.kind = "reset" THEN {Shipped} ELSE {}
FilesAreWhole ==
  ~scGhost.lost =>
    /\ scDisk.keys \in scGhost.past \union ResetTarget
    /\ scOp = NoOp => scCache.keys = scGhost.wanted

ShortcutsAreSound ==
  ShortcutsTypeOK /\ ShownIsBound /\ GrabsFollow /\ FilesAreWhole
=============================================================================
