--------------------------- MODULE EngineInstall ----------------------------
(***************************************************************************)
(* How the inference engine gets on disk (commands/engine.rs): an install   *)
(* downloads an archive, unpacks it into a staging directory and promotes   *)
(* that directory in two renames, the first of which moves the old engine   *)
(* to a rollback directory.  The process may be lost between any two steps  *)
(* and any operation on the disk may fail; the next install recovers.       *)
(*                                                                          *)
(* The engine gate admits one install at a time: Sidecar has the gate and   *)
(* who waits for it.                                                        *)
(***************************************************************************)
EXTENDS Naturals

CONSTANTS
  MaxCrashes,   \* bound: losses of the process
  MaxEngineFaults     \* bound: operations on disk or network that fail

ASSUME EngineAssumption == MaxCrashes \in Nat /\ MaxEngineFaults \in Nat

VARIABLES
  enPc,         \* how far the install is, "idle" when there is none
  enForced,     \* a reinstallation: engine_install
  enFinal,      \* the managed directory: "none", "part" or "whole"
  enRollback,   \* the rollback directory, likewise
  enStaging,    \* the staging directory, likewise
  enArchive,    \* the archive: "none", "part" or "whole"
  enHad,        \* had_existing of the promotion
  enOnce,       \* history: an engine was in place once
  enCrashes, enFaults

enDisk == <<enFinal, enRollback, enStaging, enArchive>>
enBounds == <<enCrashes, enFaults>>
enVars == <<enPc, enForced, enDisk, enHad, enOnce, enBounds>>

Copies == {"none", "part", "whole"}

EngineInit ==
  /\ enPc = "idle" /\ enForced = FALSE /\ enHad = FALSE
  /\ enFinal \in {"none", "whole"} /\ enOnce = (enFinal = "whole")
  /\ enRollback = "none" /\ enStaging = "none" /\ enArchive = "none"
  /\ enCrashes = 0 /\ enFaults = 0

Fault == enFaults < MaxEngineFaults /\ enFaults' = enFaults + 1
NoFault == UNCHANGED enFaults

(* A directory that is removed may be left behind in part.                  *)
Removed(copy) == {"none"} \union (IF copy = "none" THEN {} ELSE {"part"})

To(pc) == enPc' = pc

----------------------------------------------------------------------------
(* install_locked: recover first, then see whether there is one already.    *)
InstallBegins(forced) ==
  /\ enPc = "idle" /\ To("recover") /\ enForced' = forced
  /\ UNCHANGED <<enDisk, enHad, enOnce, enBounds>>

(* recover_interrupted_promotion().                                         *)
Recover ==
  /\ enPc = "recover"
  /\ \/ /\ enRollback = "none"
        /\ To("look") /\ NoFault /\ UNCHANGED <<enFinal, enRollback>>
     \/ /\ enRollback # "none" /\ enFinal # "none"
        /\ \/ enRollback' = "none" /\ To("look") /\ NoFault
           \/ enRollback' = "part" /\ To("idle") /\ Fault
        /\ UNCHANGED enFinal
     \/ /\ enRollback # "none" /\ enFinal = "none"
        /\ \/ /\ enFinal' = enRollback /\ enRollback' = "none"
              /\ To("look") /\ NoFault
           \/ To("idle") /\ Fault /\ UNCHANGED <<enFinal, enRollback>>
  /\ UNCHANGED <<enForced, enStaging, enArchive, enHad, enOnce, enCrashes>>

NotAgain ==
  /\ enPc = "look"
  /\ IF ~enForced /\ enFinal # "none" THEN To("idle") ELSE To("clean")
  /\ UNCHANGED <<enForced, enDisk, enHad, enOnce, enBounds>>

(* cleanup_stale: everything but the current engine, a rollback included.   *)
CleanUp ==
  /\ enPc = "clean" /\ To("download")
  /\ enRollback' \in Removed(enRollback)
  /\ enStaging' \in Removed(enStaging)
  /\ enArchive' = "none"
  /\ UNCHANGED <<enForced, enFinal, enHad, enOnce, enBounds>>

(* download_verified(): only an archive with the right digest is unpacked;  *)
(* every failure but that of the very first request removes the file.       *)
Fetch ==
  /\ enPc = "download"
  /\ \/ enArchive' = "part" /\ To("arriving") /\ NoFault
     \/ UNCHANGED enArchive /\ To("idle") /\ Fault
  /\ UNCHANGED <<enForced, enFinal, enRollback, enStaging, enHad, enOnce,
                 enCrashes>>

CheckArchive ==
  /\ enPc = "arriving"
  /\ \/ enArchive' = "whole" /\ To("unpack") /\ NoFault
     \/ enArchive' = "none" /\ To("idle") /\ Fault
  /\ UNCHANGED <<enForced, enFinal, enRollback, enStaging, enHad, enOnce,
                 enCrashes>>

(* extract_archive() empties the staging directory and fills it.            *)
Unpack ==
  /\ enPc = "unpack"
  /\ enStaging' = "part"
  /\ To("unpacking")
  /\ UNCHANGED <<enForced, enFinal, enRollback, enArchive, enHad, enOnce,
                 enBounds>>

Unpacked ==
  /\ enPc = "unpacking"
  /\ enArchive' = "none"
  /\ \/ enStaging' = "whole" /\ To("promote") /\ NoFault
     \/ enStaging' \in Removed(enStaging) /\ To("idle") /\ Fault
  /\ UNCHANGED <<enForced, enFinal, enRollback, enHad, enOnce, enCrashes>>

----------------------------------------------------------------------------
(* promote_staged_install().                                                *)

DeletesOld ==                     \* slip: the old engine goes first
  /\ enRollback' = "none" /\ enFinal' = "none"

MovesAside ==
  /\ enRollback' = enFinal /\ enFinal' = "none"

Aside ==
  /\ enPc = "promote"
  /\ enHad' = (enFinal # "none")
  /\ \/ /\ enFinal = "none"
        /\ To("rename") /\ NoFault /\ UNCHANGED <<enFinal, enRollback>>
     \/ /\ enFinal # "none"
        /\ MovesAside
        /\ To("rename") /\ NoFault
     \/ /\ enFinal # "none"                      \* a step of it fails
        /\ enRollback' \in Removed(enRollback)
        /\ To("discard") /\ Fault /\ UNCHANGED enFinal
  /\ UNCHANGED <<enForced, enStaging, enArchive, enOnce, enCrashes>>

Renames ==
  /\ enPc = "rename"
  /\ \/ /\ enFinal' = enStaging /\ enStaging' = "none"
        /\ enOnce' = TRUE
        /\ To(IF enHad THEN "drop" ELSE "idle") /\ NoFault
     \/ /\ To(IF enHad THEN "restore" ELSE "discard") /\ Fault
        /\ UNCHANGED <<enFinal, enStaging, enOnce>>
  /\ UNCHANGED <<enForced, enRollback, enArchive, enHad, enCrashes>>

DropsRollback ==
  /\ enPc = "drop"
  /\ enRollback' \in Removed(enRollback)
  /\ To("idle")
  /\ UNCHANGED <<enForced, enFinal, enStaging, enArchive, enHad, enOnce,
                 enBounds>>

Restores ==
  /\ enPc = "restore"
  /\ \/ enFinal' = enRollback /\ enRollback' = "none" /\ NoFault
     \/ Fault /\ UNCHANGED <<enFinal, enRollback>>
  /\ To("discard")
  /\ UNCHANGED <<enForced, enStaging, enArchive, enHad, enOnce, enCrashes>>

DiscardsStaging ==
  /\ enPc = "discard"
  /\ enStaging' \in Removed(enStaging)
  /\ To("idle")
  /\ UNCHANGED <<enForced, enFinal, enRollback, enArchive, enHad, enOnce,
                 enBounds>>

(* The process is lost; a directory that was being removed stays in part.   *)
EngineCrash ==
  /\ enPc # "idle" /\ enCrashes < MaxCrashes
  /\ enCrashes' = enCrashes + 1
  /\ To("idle")
  /\ enRollback' \in {enRollback} \union
       (IF enPc \in {"drop", "clean"} \/ (enPc = "recover" /\ enFinal # "none")
          THEN Removed(enRollback) ELSE {})
  /\ UNCHANGED <<enForced, enFinal, enStaging, enArchive, enHad, enOnce,
                 enFaults>>

----------------------------------------------------------------------------
EngineStep == \/ Recover \/ NotAgain \/ CleanUp \/ Fetch \/ CheckArchive
              \/ Unpack \/ Unpacked \/ Aside \/ Renames \/ DropsRollback
              \/ Restores \/ DiscardsStaging

EngineNext == \/ \E forced \in BOOLEAN : InstallBegins(forced)
              \/ EngineStep \/ EngineCrash

(* Installs run to their end, and the engine is asked for again.            *)
EngineFairness == WF_enVars(EngineStep) /\ WF_enVars(InstallBegins(FALSE))

EngineSpec == EngineInit /\ [][EngineNext]_enVars /\ EngineFairness

(* What can be started is never a torn engine, and an engine that was once  *)
(* in place is never lost: it is there, or whole in the rollback directory  *)
(* for the next install to restore.                                         *)
EngineNeverLost ==
  /\ enFinal # "part"
  /\ enOnce => enFinal = "whole" \/ enRollback = "whole"
=============================================================================
