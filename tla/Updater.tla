------------------------------ MODULE Updater ------------------------------
(***************************************************************************)
(* The auto-updater (features/updater/updaterStore.ts): checks, one of them *)
(* in charge at a time, find a release and download it unattended; the user *)
(* installs it.  What a check finds is a handle on a resource of the native *)
(* shell.  Every request may take as long as it likes, and meanwhile the    *)
(* user turns automatic updates off and on, presses the button, or enters a *)
(* session.                                                                 *)
(***************************************************************************)
EXTENDS Naturals

CONSTANTS
  MaxChecks,    \* bound: checks
  MaxToggles    \* bound: changes of the setting

ASSUME UpdaterAssumption == MaxChecks \in Nat /\ MaxToggles \in Nat

VARIABLES
  upStatus,     \* of the store
  upAuto,       \* autoUpdateEnabled
  upToggles,    \* autoUpdateGeneration
  upChecks,     \* number of checks so far
  upActive,     \* activeCheck: the number of a check, or 0
  upAttempts,   \* checks under way: [id, gen, manual, pc, next]
  upOpen,       \* handles the shell keeps, by the check that found them
  upPending,    \* `pending`: the handle of a check, or 0
  upInstall,    \* "no", "stopping", "installing" or "relaunching"
  upSession     \* is a session active?

upVars == <<upStatus, upAuto, upToggles, upChecks, upActive, upAttempts, upOpen,
            upPending, upInstall, upSession>>
upWorld == <<upAuto, upToggles, upInstall, upSession>>

UpdaterInit ==
  /\ upStatus = "idle" /\ upAuto \in BOOLEAN /\ upToggles = 0
  /\ upChecks = 0 /\ upActive = 0 /\ upAttempts = {} /\ upOpen = {}
  /\ upPending = 0 /\ upInstall = "no" /\ upSession = FALSE

Eligible(a) == a.manual \/ (upAuto /\ a.gen = upToggles)
OwnsCheck(a) == upActive = a.id
Allowed(a) == OwnsCheck(a) /\ Eligible(a)

Replaced(a, pc, next) == (upAttempts \ {a}) \union {[a EXCEPT !.pc = pc, !.next = next]}

----------------------------------------------------------------------------
(* checkNow().  A check that lost its permission does not keep the next one *)
(* from starting; UpdaterBoot schedules none in a session.                  *)
Superseded ==
  \E a \in upAttempts : a.id = upActive /\ ~a.manual /\ a.gen # upToggles

CheckNow(manual) ==
  /\ upChecks < MaxChecks
  /\ manual \/ (upAuto /\ ~upSession)
  /\ upStatus \in {"idle", "upToDate", "error"} \/ (upStatus = "checking" /\ Superseded)
  /\ upChecks' = upChecks + 1 /\ upActive' = upChecks + 1
  /\ upAttempts' = upAttempts \union
       {[id |-> upChecks + 1, gen |-> upToggles, manual |-> manual, pc |-> "check",
         next |-> "none"]}
  /\ upStatus' = "checking"
  /\ UNCHANGED <<upOpen, upPending, upWorld>>

(* A check that is over: the owner says so, one that was superseded is      *)
(* silent.                                                                  *)
EndsIfOwner(a, status) == upStatus' = IF OwnsCheck(a) THEN status ELSE upStatus

Fails(a) ==
  /\ a.pc = "check"
  /\ EndsIfOwner(a, IF Allowed(a) THEN "error" ELSE "idle")
  /\ upAttempts' = upAttempts \ {a}
  /\ UNCHANGED <<upChecks, upActive, upOpen, upPending, upWorld>>

FindsNothing(a) ==
  /\ a.pc = "check"
  /\ EndsIfOwner(a, IF Allowed(a) THEN "upToDate" ELSE "idle")
  /\ upAttempts' = upAttempts \ {a}
  /\ UNCHANGED <<upChecks, upActive, upOpen, upPending, upWorld>>

Finds(a) ==
  /\ a.pc = "check"
  /\ upOpen' = upOpen \union {a.id}
  /\ upAttempts' = IF Allowed(a) THEN Replaced(a, "context", "none")
                                 ELSE Replaced(a, "closing", "idle")
  /\ UNCHANGED <<upStatus, upChecks, upActive, upPending, upWorld>>

(* system_install_context: may this bundle be replaced, and is there a      *)
(* session by now?                                                          *)
Drops(a) == upAttempts' = upAttempts \ {a}            \* slip: just returns
Discards(a) == upAttempts' = Replaced(a, "closing", "idle")

Context(a) ==
  /\ a.pc = "context"
  /\ \/ /\ ~Allowed(a) \/ upSession
        /\ Discards(a) /\ UNCHANGED upStatus
     \/ /\ Allowed(a)                                 \* it may not
        /\ upAttempts' = Replaced(a, "closing", "none")
        /\ upStatus' = "blocked"
     \/ /\ Allowed(a) /\ ~upSession
        /\ upAttempts' = Replaced(a, "download", "none")
        /\ upStatus' = "downloading"
  /\ UNCHANGED <<upChecks, upActive, upOpen, upPending, upWorld>>

Downloaded(a) ==
  /\ a.pc = "download"
  /\ \/ /\ upStatus' = "ready" /\ upPending' = a.id
        /\ upAttempts' = upAttempts \ {a}
     \/ /\ upAttempts' = Replaced(a, "closing", "error")
        /\ UNCHANGED <<upStatus, upPending>>
  /\ UNCHANGED <<upChecks, upActive, upOpen, upWorld>>

(* discard(), and what follows it.                                          *)
Closed(a) ==
  /\ a.pc = "closing"
  /\ upOpen' = upOpen \ {a.id}
  /\ upAttempts' = upAttempts \ {a}
  /\ CASE a.next = "idle" -> EndsIfOwner(a, "idle") /\ UNCHANGED upPending
       [] a.next = "error" -> upStatus' = "error" /\ upPending' = 0
       [] OTHER -> UNCHANGED <<upStatus, upPending>>
  /\ UNCHANGED <<upChecks, upActive, upWorld>>

----------------------------------------------------------------------------
(* installAndRestart(), which reserves the installation against sessions.   *)
Install ==
  /\ upPending # 0 /\ upInstall = "no" /\ ~upSession
  /\ upInstall' = "stopping"
  /\ UNCHANGED <<upStatus, upAuto, upToggles, upChecks, upActive, upAttempts, upOpen,
                 upPending, upSession>>

InstallGoesOn ==
  /\ upInstall # "no"
  /\ upInstall' \in CASE upInstall = "stopping" -> {"installing"}
                      [] upInstall = "installing" -> {"relaunching", "no"}
                      [] OTHER -> {"no"}
  /\ UNCHANGED <<upStatus, upAuto, upToggles, upChecks, upActive, upAttempts, upOpen,
                 upPending, upSession>>

(* The application is relaunched, by the update or by the user.             *)
Relaunches ==
  /\ upStatus' = "idle" /\ upToggles' = 0 /\ upActive' = 0 /\ upAttempts' = {}
  /\ upOpen' = {} /\ upPending' = 0 /\ upInstall' = "no" /\ upSession' = FALSE
  /\ UNCHANGED <<upAuto, upChecks>>

ToggleAuto ==
  /\ upToggles < MaxToggles
  /\ upAuto' = ~upAuto /\ upToggles' = upToggles + 1
  /\ UNCHANGED <<upStatus, upChecks, upActive, upAttempts, upOpen, upPending, upInstall,
                 upSession>>

ChangeSession ==
  /\ upSession' = ~upSession
  /\ upSession' => upInstall = "no"
  /\ UNCHANGED <<upStatus, upAuto, upToggles, upChecks, upActive, upAttempts, upOpen,
                 upPending, upInstall>>

UpdaterNext ==
  \/ \E manual \in BOOLEAN : CheckNow(manual)
  \/ \E a \in upAttempts : \/ Fails(a) \/ FindsNothing(a) \/ Finds(a)
                           \/ Context(a) \/ Downloaded(a) \/ Closed(a)
  \/ Install \/ InstallGoesOn \/ Relaunches \/ ToggleAuto \/ ChangeSession

UpdaterSpec == UpdaterInit /\ [][UpdaterNext]_upVars

----------------------------------------------------------------------------
(* "Exactly one of two things may happen" to what a check finds: a handle   *)
(* the shell keeps is staged for the installation, or in the hands of the   *)
(* check that will stage or close it; and what is staged was not closed.    *)
HandlesAreAccounted ==
  /\ \A h \in upOpen : h = upPending \/ \E a \in upAttempts : a.id = h
  /\ upPending # 0 => upPending \in upOpen /\ \A a \in upAttempts : a.id # upPending

(* The status is that of a check under way: one that was superseded never   *)
(* speaks for its successor, no status is left behind by a check that is    *)
(* gone, and no two checks download at a time.                              *)
StatusIsOwned ==
  /\ upStatus = "checking" =>
       \E a \in upAttempts : OwnsCheck(a) /\ a.pc \in {"check", "context", "closing"}
  /\ \A a \in upAttempts : a.pc = "download" => OwnsCheck(a) /\ upStatus = "downloading"
  /\ upStatus = "ready" <=> upPending # 0

(* Every handle and every status belong to one check.                       *)
UpdatesAreSound == HandlesAreAccounted /\ StatusIsOwned
=============================================================================
