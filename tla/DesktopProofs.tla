--------------------------- MODULE DesktopProofs ----------------------------
(***************************************************************************)
(* Proofs about what the desktop application keeps on disk, installs or    *)
(* serves, for any number of crashes, faults, cancellations and checks.    *)
(*                                                                         *)
(* The engine (EngineInstall): one that was installed once is never lost,  *)
(* and a torn one never started. Both rest on what the rollback directory  *)
(* may hold at each step: nothing while a new engine is prepared, the old  *)
(* engine while the new one takes its place, a torn one only beside a      *)
(* whole engine.                                                           *)
(*                                                                         *)
(* The companion in a browser (Mirror): that a camera shows only to whom   *)
(* it was granted is not inductive. It holds because the page hears of a   *)
(* socket once and before it sends anything on it, so whatever reaches a   *)
(* document through the page's client is of the companion of that page;    *)
(* and that one is the server in the slot because a request has one task   *)
(* or one answer. MirrorInv says so.                                       *)
(***************************************************************************)
EXTENDS EngineInstall, ModelDownload, Updater, Mirror, SequenceTheorems, TLAPS

Preparing == {"look", "clean", "download", "arriving", "unpack", "unpacking", "promote"}

EngineTypeOK ==
  /\ enPc \in {"idle", "recover", "rename", "drop", "restore", "discard"} \union Preparing
  /\ enFinal \in {"none", "whole"}
  /\ enRollback \in Copies /\ enStaging \in Copies /\ enArchive \in Copies
  /\ enForced \in BOOLEAN /\ enHad \in BOOLEAN /\ enOnce \in BOOLEAN

EngineInv ==
  /\ EngineTypeOK /\ EngineNeverLost
  /\ enRollback = "part" => enFinal = "whole"
  /\ enPc \in Preparing => enRollback = "none"
  /\ enPc \in {"promote", "rename"} => enStaging = "whole"
  /\ enPc = "rename" => enFinal = "none" /\ (enHad <=> enRollback = "whole")
  /\ enPc = "restore" => enFinal = "none"
  /\ enPc = "drop" => enFinal = "whole"

(* Removing a directory never makes it whole.                               *)
LEMMA RemovedIsNotWhole ==
  ASSUME NEW copy \in Copies
  PROVE  /\ Removed(copy) \subseteq {"none", "part"}
         /\ copy = "none" => Removed(copy) = {"none"}
BY DEF Removed, Copies

LEMMA EngineInvInit == EngineInit => EngineInv
BY DEF EngineInit, EngineInv, EngineTypeOK, EngineNeverLost, Preparing, Copies

LEMMA EngineInvNext == EngineInv /\ [EngineNext]_enVars => EngineInv'
<1> SUFFICES ASSUME EngineInv, [EngineNext]_enVars PROVE EngineInv'
  OBVIOUS
<1> USE DEF EngineInv, EngineTypeOK, EngineNeverLost, Preparing, Copies, To,
            enDisk, enBounds
<1>1. ASSUME NEW forced \in BOOLEAN, InstallBegins(forced) PROVE EngineInv'
  BY <1>1 DEF InstallBegins
<1>2. CASE Recover
  BY <1>2 DEF Recover
<1>3. CASE NotAgain
  BY <1>3 DEF NotAgain
<1>4. CASE CleanUp
  BY <1>4, RemovedIsNotWhole DEF CleanUp
<1>5. CASE Fetch
  BY <1>5 DEF Fetch
<1>6. CASE CheckArchive
  BY <1>6 DEF CheckArchive
<1>7. CASE Unpack
  BY <1>7 DEF Unpack
<1>8. CASE Unpacked
  BY <1>8, RemovedIsNotWhole DEF Unpacked
<1>9. CASE Aside
  <2>1. enHad' = (enFinal # "none") /\ enRollback = "none" /\ enStaging' = "whole"
    BY <1>9 DEF Aside
  <2>2. enHad' \in BOOLEAN /\ (enHad' <=> enFinal # "none")
    BY <2>1
  <2>3. Removed(enRollback) = {"none"}
    BY <2>1, RemovedIsNotWhole
  <2>4. CASE enFinal' = enFinal /\ enRollback' = enRollback /\ enFinal = "none"
             /\ enPc' = "rename"
    BY <1>9, <2>1, <2>2, <2>4 DEF Aside
  <2>5. CASE enFinal # "none" /\ MovesAside /\ enPc' = "rename"
    BY <1>9, <2>1, <2>2, <2>5 DEF Aside, MovesAside
  <2>6. CASE enRollback' = "none" /\ enFinal' = enFinal /\ enPc' = "discard"
    BY <1>9, <2>1, <2>2, <2>6 DEF Aside
  <2> QED BY <1>9, <2>3, <2>4, <2>5, <2>6 DEF Aside
<1>10. CASE Renames
  <2>1. /\ enFinal = "none" /\ enStaging = "whole" /\ enRollback # "part"
        /\ enRollback' = enRollback /\ enHad' = enHad /\ enForced' = enForced
        /\ enArchive' = enArchive
    BY <1>10 DEF Renames
  <2>2. CASE /\ enFinal' = enStaging /\ enStaging' = "none" /\ enOnce' = TRUE
             /\ enPc' \in {"drop", "idle"}
    BY <2>1, <2>2
  <2>3. CASE UNCHANGED <<enFinal, enStaging, enOnce>> /\ enPc' \in {"restore", "discard"}
    BY <2>1, <2>3
  <2>4. (IF enHad THEN "drop" ELSE "idle") \in {"drop", "idle"}
    OBVIOUS
  <2>5. (IF enHad THEN "restore" ELSE "discard") \in {"restore", "discard"}
    OBVIOUS
  <2> QED BY <1>10, <2>2, <2>3, <2>4, <2>5 DEF Renames
<1>11. CASE DropsRollback
  BY <1>11, RemovedIsNotWhole DEF DropsRollback
<1>12. CASE Restores
  BY <1>12 DEF Restores
<1>13. CASE DiscardsStaging
  BY <1>13, RemovedIsNotWhole DEF DiscardsStaging
<1>14. CASE EngineCrash
  BY <1>14, RemovedIsNotWhole DEF EngineCrash
<1>15. CASE UNCHANGED enVars
  BY <1>15 DEF enVars
<1> QED BY <1>1, <1>2, <1>3, <1>4, <1>5, <1>6, <1>7, <1>8, <1>9, <1>10, <1>11,
           <1>12, <1>13, <1>14, <1>15 DEF EngineNext, EngineStep

(* Property: whatever step of an installation crashes or fails, the engine  *)
(* that was once in place is there, or whole in the rollback directory, and *)
(* what is in place is whole (promote_staged_install and                    *)
(* recover_interrupted_promotion of engine.rs).                             *)
THEOREM EngineIsNeverLost == EngineSpec => []EngineNeverLost
<1>1. EngineInv => EngineNeverLost
  BY DEF EngineInv
<1> QED BY <1>1, EngineInvInit, EngineInvNext, PTL DEF EngineSpec

----------------------------------------------------------------------------
(* The files of a model (ModelDownload): what is in place was verified.    *)
(* The digest is that of the stream, and the file that takes its place is  *)
(* the .tmp; what makes the one speak for the other is that a stream       *)
(* starts with the bytes that were hashed, or with none.                   *)

SomeFiles == [len : Nat, of : Editions \union {Mixed}]

DownloadTypeOK ==
  /\ mdPc \in {"idle", "check", "request", "stream", "verify"}
  /\ mdFile \in Files /\ mdWanted \in Editions /\ mdLatest \in Editions
  /\ mdTarget \in [Files -> SomeFiles] /\ mdTmp \in [Files -> SomeFiles]

DownloadInv ==
  /\ DownloadTypeOK /\ InstalledIsVerified
  /\ mdPc = "stream" => mdSeed = mdTmp[mdFile]

(* No file, a whole file, and a file with one more chunk are files.         *)
LEMMA FilesAreFiles ==
  /\ NoFile \in SomeFiles
  /\ \A e \in Editions : Whole(e) \in SomeFiles
  /\ \A file \in SomeFiles, of \in Editions \union {Mixed} : Grown(file, of) \in SomeFiles
BY DownloadAssumption DEF NoFile, Whole, SomeFiles, Grown

LEMMA DownloadInvInit == DownloadInit => DownloadInv
BY DownloadAssumption, FilesAreFiles
   DEF DownloadInit, DownloadInv, DownloadTypeOK, InstalledIsVerified

LEMMA DownloadInvNext == DownloadInv /\ [DownloadNext]_mdVars => DownloadInv'
<1> SUFFICES ASSUME DownloadInv, [DownloadNext]_mdVars PROVE DownloadInv'
  OBVIOUS
<1> USE DownloadAssumption, FilesAreFiles
        DEF DownloadInv, DownloadTypeOK, InstalledIsVerified
<1>0. Onwards => mdFile' \in Files /\ mdPc' \in {"check", "idle"}
  BY DEF Onwards
<1>1. CASE DownloadBegins
  BY <1>1 DEF DownloadBegins
<1>2. CASE CheckFile
  <2>1. mdTarget' = mdTarget \/ mdTarget' = [mdTarget EXCEPT ![mdFile] = NoFile]
    BY <1>2 DEF CheckFile
  <2>2. /\ mdTarget' \in [Files -> SomeFiles]
        /\ \A f \in Files : mdTarget'[f] = NoFile \/ \E e \in Editions :
                                                       mdTarget'[f] = Whole(e)
    BY <2>1
  <2>3. mdFile' \in Files /\ mdPc' \in {"check", "idle", "request"}
    BY <1>0, <1>2 DEF CheckFile
  <2> QED BY <1>2, <2>2, <2>3 DEF CheckFile
<1>3. CASE Request
  <2>1. Kept \in SomeFiles
    BY DEF Kept
  <2>2. PICK start \in {Kept, NoFile} :
          mdSeed' = start /\ mdTmp' = [mdTmp EXCEPT ![mdFile] = start]
    BY <1>3 DEF Request
  <2>3. mdTmp' \in [Files -> SomeFiles] /\ mdSeed' = mdTmp'[mdFile]
    BY <2>1, <2>2
  <2> QED BY <1>3, <2>3 DEF Request
<1>4. CASE Unsatisfiable
  BY <1>4 DEF Unsatisfiable, Halts
<1>5. CASE RequestFails
  <2>1. Kept \in SomeFiles
    BY DEF Kept
  <2>2. mdTmp' \in [Files -> SomeFiles]
    BY <1>5, <2>1 DEF RequestFails
  <2> QED BY <1>5, <2>2 DEF RequestFails, Halts
<1>6. CASE Chunk
  <2>1. mdSeed \in SomeFiles
    BY <1>6 DEF Chunk
  <2>2. Grown(mdSeed, mdLatest) \in SomeFiles /\ Grown(mdSeed, Mixed) \in SomeFiles
    BY <2>1
  <2>3. mdSeed' \in SomeFiles /\ mdTmp' = [mdTmp EXCEPT ![mdFile] = mdSeed']
    BY <1>6, <2>2 DEF Chunk
  <2> QED BY <1>6, <2>3 DEF Chunk
<1>7. CASE StreamEnds
  BY <1>7 DEF StreamEnds
<1>8. CASE StreamBreaks
  BY <1>8 DEF StreamBreaks, Halts
<1>9. CASE Verify
  <2>1. mdTmp' = [mdTmp EXCEPT ![mdFile] = NoFile]
    BY <1>9 DEF Verify
  <2>2. CASE DigestIsRight
    <3>1. mdTmp[mdFile] = Whole(mdWanted)
      BY <1>9, <2>2 DEF Verify, DigestIsRight
    <3>2. mdTarget' = [mdTarget EXCEPT ![mdFile] = Whole(mdWanted)] /\ Onwards
      BY <1>9, <2>2, <3>1 DEF Verify
    <3>3. \A f \in Files : mdTarget'[f] = NoFile \/ \E e \in Editions :
                                                      mdTarget'[f] = Whole(e)
      BY <3>2
    <3>4. mdTarget' \in [Files -> SomeFiles]
      BY <3>2
    <3> QED BY <1>0, <1>9, <2>1, <3>2, <3>3, <3>4 DEF Verify
  <2>3. CASE ~DigestIsRight
    BY <1>9, <2>1, <2>3 DEF Verify, Halts
  <2> QED BY <2>2, <2>3
<1>10. CASE Interrupted
  BY <1>10 DEF Interrupted, Halts
<1>11. CASE RemoveModel
  BY <1>11 DEF RemoveModel
<1>12. CASE NewEdition
  BY <1>12 DEF NewEdition
<1>13. CASE UNCHANGED mdVars
  BY <1>13 DEF mdVars
<1> QED BY <1>1, <1>2, <1>3, <1>4, <1>5, <1>6, <1>7, <1>8, <1>9, <1>10, <1>11,
           <1>12, <1>13 DEF DownloadNext, DownloadStep

(* Property: whatever is cut off, resumed over another edition, damaged or  *)
(* removed, a file in place is a whole file of one edition (download_one    *)
(* and run_download of models.rs).                                          *)
THEOREM InstalledIsAlwaysVerified == DownloadSpec => []InstalledIsVerified
<1>1. DownloadInv => InstalledIsVerified
  BY DEF DownloadInv
<1> QED BY <1>1, DownloadInvInit, DownloadInvNext, PTL DEF DownloadSpec

----------------------------------------------------------------------------
(* The updates (Updater). Checks overlap at every await; what keeps them   *)
(* apart is that a handle belongs to one check, and that only the check in *)
(* charge speaks: the status is then that of the await it is at.           *)

Attempts == [id : Nat \ {0}, gen : Nat, manual : BOOLEAN,
             pc : {"check", "context", "download", "closing"},
             next : {"none", "idle", "error"}]
Statuses == {"idle", "checking", "upToDate", "error", "blocked", "downloading", "ready"}

UpdaterTypeOK ==
  /\ upStatus \in Statuses /\ upAuto \in BOOLEAN /\ upToggles \in Nat
  /\ upChecks \in Nat /\ upActive \in 0..upChecks /\ upPending \in 0..upChecks
  /\ upOpen \in SUBSET (1..upChecks)
  /\ upAttempts \in SUBSET Attempts

(* A number is that of one check, which has a handle from the time it found *)
(* one, never the staged one.                                               *)
OneCheckEach ==
  /\ \A a \in upAttempts : a.id <= upChecks /\ a.id # upPending
  /\ \A a, b \in upAttempts : a.id = b.id => a = b
  /\ \A a \in upAttempts : a.pc # "check" <=> a.id \in upOpen

(* What the status is while the check in charge is at each of its awaits.   *)
StatusOf(a) ==
  CASE a.pc = "download" -> "downloading"
    [] a.pc = "closing" /\ a.next = "none" -> "blocked"
    [] a.pc = "closing" /\ a.next = "error" -> "downloading"
    [] OTHER -> "checking"

OwnerSpeaks ==
  /\ \A a \in upAttempts : OwnsCheck(a) => upStatus = StatusOf(a)
  /\ \A a \in upAttempts : ~OwnsCheck(a) => StatusOf(a) = "checking"

UpdaterInv ==
  UpdaterTypeOK /\ OneCheckEach /\ OwnerSpeaks /\ HandlesAreAccounted /\ StatusIsOwned

(* A check that is over leaves the others as they were: they keep their     *)
(* numbers, handles and standing.                                           *)
LEMMA Ends ==
  ASSUME UpdaterInv, NEW a \in upAttempts, upAttempts' = upAttempts \ {a},
         UNCHANGED <<upChecks, upActive, upWorld>>,
         upStatus' \in Statuses, upPending' \in 0..upChecks,
         a.pc = "check" => upOpen' = upOpen,
         a.pc # "check" => upOpen' \in {upOpen, upOpen \ {a.id}},
         upPending' \in {0, upPending, a.id},
         ~OwnsCheck(a) => upStatus' = upStatus
  PROVE  UpdaterTypeOK' /\ OneCheckEach' /\ OwnerSpeaks'
<1> USE DEF UpdaterInv
<1>1. UpdaterTypeOK'
  BY DEF UpdaterTypeOK, upWorld
<1>2. \A b \in upAttempts' : b \in upAttempts /\ b.id # a.id
  BY DEF OneCheckEach
<1>3. OneCheckEach'
  <2>1. \A b \in upAttempts' : b.id \in upOpen' <=> b.id \in upOpen
    BY <1>2
  <2>2. \A b \in upAttempts' : b.id # upPending'
    BY <1>2 DEF OneCheckEach, UpdaterTypeOK, Attempts
  <2> QED BY <1>2, <2>1, <2>2 DEF OneCheckEach
<1>4. OwnerSpeaks'
  BY <1>2 DEF OwnerSpeaks, OwnsCheck, StatusOf
<1> QED BY <1>1, <1>3, <1>4

(* So does one that goes on: it keeps its number, and has a handle now.     *)
LEMMA Proceeds ==
  ASSUME UpdaterInv, NEW a \in upAttempts,
         NEW pc \in {"context", "download", "closing"},
         NEW next \in {"none", "idle", "error"},
         upAttempts' = Replaced(a, pc, next),
         UNCHANGED <<upChecks, upActive, upPending, upWorld>>,
         upOpen' = upOpen \union {a.id}, upStatus' \in Statuses,
         OwnsCheck(a) => upStatus' = StatusOf([a EXCEPT !.pc = pc, !.next = next]),
         ~OwnsCheck(a) => /\ upStatus' = upStatus
                          /\ StatusOf([a EXCEPT !.pc = pc, !.next = next]) = "checking"
  PROVE  /\ UpdaterTypeOK' /\ OneCheckEach' /\ OwnerSpeaks'
         /\ HandlesAreAccounted'
         /\ \A b \in upAttempts : \E c \in upAttempts' : c.id = b.id
<1> USE DEF UpdaterInv
<1> DEFINE n == [a EXCEPT !.pc = pc, !.next = next]
<1>1. n \in Attempts /\ n.id = a.id /\ n.pc = pc
  <2>1. a \in Attempts /\ pc \in {"check", "context", "download", "closing"}
    BY DEF UpdaterTypeOK
  <2> QED BY <2>1 DEF Attempts
<1>2. upAttempts' = (upAttempts \ {a}) \union {n}
  BY DEF Replaced
<1>3. /\ OwnsCheck(a) => upStatus' = StatusOf(n)
      /\ ~OwnsCheck(a) => upStatus' = upStatus /\ StatusOf(n) = "checking"
  OBVIOUS
<1> HIDE DEF n
<1>4. a.id \in 1..upChecks /\ a \in Attempts
  BY DEF UpdaterTypeOK, OneCheckEach, Attempts
<1>5. UpdaterTypeOK'
  BY <1>1, <1>2, <1>4 DEF UpdaterTypeOK, upWorld
<1>6. \A b \in upAttempts' : b = n \/ (b \in upAttempts /\ b.id # a.id)
  BY <1>2 DEF OneCheckEach
<1>7. OneCheckEach'
  BY <1>1, <1>4, <1>6 DEF OneCheckEach
<1>8. OwnerSpeaks'
  <2>1. OwnsCheck(n)' <=> OwnsCheck(a)
    BY <1>1 DEF OwnsCheck
  <2>2. ASSUME NEW b \in upAttempts, b.id # a.id
        PROVE  /\ (upActive' = b.id) => upStatus' = StatusOf(b)
               /\ (upActive' # b.id) => StatusOf(b) = "checking"
    BY <2>2, <1>3 DEF OwnerSpeaks, OwnsCheck
  <2>3. /\ (upActive' = n.id) => upStatus' = StatusOf(n)
        /\ (upActive' # n.id) => StatusOf(n) = "checking"
    BY <1>1, <1>3 DEF OwnsCheck
  <2> QED BY <1>6, <2>2, <2>3 DEF OwnerSpeaks, OwnsCheck, StatusOf
<1>9. \A b \in upAttempts : \E c \in upAttempts' : c.id = b.id
  BY <1>1, <1>2
<1>10. HandlesAreAccounted'
  BY <1>1, <1>2, <1>7, <1>9 DEF HandlesAreAccounted, OneCheckEach
<1> QED BY <1>5, <1>7, <1>8, <1>9, <1>10

LEMMA UpdaterInvInit == UpdaterInit => UpdaterInv
BY UpdaterAssumption DEF UpdaterInit, UpdaterInv, UpdaterTypeOK, Statuses, OneCheckEach,
     OwnerSpeaks, HandlesAreAccounted, StatusIsOwned

(* A new check: its number is fresh, and the one it supersedes, if any, has  *)
(* nothing to say that is not the new one's, too.                           *)
LEMMA CheckNowKeeps ==
  ASSUME UpdaterInv, NEW manual \in BOOLEAN, CheckNow(manual)
  PROVE  UpdaterInv'
<1> USE DEF UpdaterInv
<1> DEFINE n == [id |-> upChecks + 1, gen |-> upToggles, manual |-> manual,
                 pc |-> "check", next |-> "none"]
<1>1. /\ upAttempts' = upAttempts \union {n} /\ upStatus' = "checking"
      /\ upChecks' = upChecks + 1 /\ upActive' = upChecks + 1
      /\ UNCHANGED <<upOpen, upPending, upWorld>>
      /\ upStatus \in {"idle", "upToDate", "error", "checking"}
  BY DEF CheckNow
<1>2. n.id = upChecks + 1 /\ n.pc = "check" /\ StatusOf(n) = "checking"
  BY DEF StatusOf
<1>3. upChecks \in Nat /\ upToggles \in Nat
  BY DEF UpdaterTypeOK
<1>4. n \in Attempts
  BY <1>3 DEF Attempts
<1> HIDE DEF n
<1>5. \A a \in upAttempts : a \in Attempts /\ a.id \in 1..upChecks
  BY <1>3 DEF UpdaterTypeOK, OneCheckEach, Attempts
<1>6. UpdaterTypeOK'
  BY <1>1, <1>3, <1>4 DEF UpdaterTypeOK, upWorld, Statuses
<1>7. OneCheckEach'
  BY <1>1, <1>2, <1>3, <1>5 DEF OneCheckEach, UpdaterTypeOK
<1>8. \A a \in upAttempts : StatusOf(a) = "checking"
  BY <1>1 DEF OwnerSpeaks, StatusOf
<1>9. OwnerSpeaks'
  BY <1>1, <1>2, <1>8 DEF OwnerSpeaks, OwnsCheck, StatusOf
<1>10. HandlesAreAccounted'
  BY <1>1, <1>2, <1>3 DEF HandlesAreAccounted, UpdaterTypeOK
<1>11. StatusIsOwned'
  BY <1>1, <1>2, <1>8 DEF StatusIsOwned, OwnsCheck, StatusOf
<1> QED BY <1>6, <1>7, <1>9, <1>10, <1>11

(* A check that ends before it has found anything.                          *)
LEMMA EndsEarlyKeeps ==
  ASSUME UpdaterInv, NEW a \in upAttempts, Fails(a) \/ FindsNothing(a)
  PROVE  UpdaterInv'
<1> USE DEF UpdaterInv
<1>1. /\ a.pc = "check" /\ upAttempts' = upAttempts \ {a}
      /\ UNCHANGED <<upChecks, upActive, upOpen, upPending, upWorld>>
      /\ upStatus' = IF OwnsCheck(a) THEN upStatus' ELSE upStatus
      /\ OwnsCheck(a) => upStatus' \in {"error", "idle", "upToDate"}
  BY DEF Fails, FindsNothing, EndsIfOwner
<1>2. upStatus' \in Statuses /\ upPending' \in 0..upChecks
  BY <1>1 DEF Statuses, UpdaterTypeOK
<1>3. UpdaterTypeOK' /\ OneCheckEach' /\ OwnerSpeaks'
  BY <1>1, <1>2, Ends
<1>4. \A b \in upAttempts : b.id = a.id => b = a
  BY DEF OneCheckEach
<1>5. HandlesAreAccounted'
  BY <1>1, <1>4 DEF HandlesAreAccounted, OneCheckEach
<1>6. OwnsCheck(a) => upStatus = "checking"
  BY <1>1 DEF OwnerSpeaks, StatusOf
<1>7. StatusIsOwned'
  BY <1>1, <1>4, <1>6 DEF StatusIsOwned, OwnsCheck
<1> QED BY <1>3, <1>5, <1>7

LEMMA FindsKeeps ==
  ASSUME UpdaterInv, NEW a \in upAttempts, Finds(a)
  PROVE  UpdaterInv'
<1> USE DEF UpdaterInv
<1>1. PICK pc \in {"context", "closing"}, next \in {"none", "idle"} :
        /\ upAttempts' = Replaced(a, pc, next)
        /\ pc = "closing" => next = "idle"
  BY DEF Finds
<1>2. /\ a.pc = "check" /\ upOpen' = upOpen \union {a.id}
      /\ UNCHANGED <<upStatus, upChecks, upActive, upPending, upWorld>>
  BY DEF Finds
<1> DEFINE n == [a EXCEPT !.pc = pc, !.next = next]
<1>3. n.id = a.id /\ n.pc = pc /\ n.next = next
  <2>1. a \in Attempts
    BY DEF UpdaterTypeOK
  <2> QED BY <2>1 DEF Attempts
<1> HIDE DEF n
<1>4. StatusOf(n) = "checking" /\ StatusOf(a) = "checking"
  BY <1>1, <1>2, <1>3 DEF StatusOf
<1>5. OwnsCheck(a) => upStatus = "checking"
  BY <1>4 DEF OwnerSpeaks
<1>6. /\ UpdaterTypeOK' /\ OneCheckEach' /\ OwnerSpeaks' /\ HandlesAreAccounted'
      /\ \A b \in upAttempts : \E c \in upAttempts' : c.id = b.id
  <2>1. upStatus' \in Statuses
    BY <1>2 DEF UpdaterTypeOK
  <2>2. /\ OwnsCheck(a) => upStatus' = StatusOf([a EXCEPT !.pc = pc, !.next = next])
        /\ StatusOf([a EXCEPT !.pc = pc, !.next = next]) = "checking"
    BY <1>2, <1>4, <1>5 DEF n
  <2> QED BY <1>1, <1>2, <2>1, <2>2, Proceeds
<1>7. StatusIsOwned'
  <2>1. \A b \in upAttempts' : b.id = upActive' => upStatus' = StatusOf(b)
    BY <1>6 DEF OwnerSpeaks, OwnsCheck, StatusOf
  <2>2. upStatus' = "checking" => \E b \in upAttempts' : b.id = upActive'
    BY <1>2, <1>6 DEF StatusIsOwned, OwnsCheck
  <2> QED BY <1>2, <1>6, <2>1, <2>2
            DEF StatusIsOwned, OwnsCheck, StatusOf, UpdaterTypeOK, Attempts, OwnerSpeaks
<1> QED BY <1>6, <1>7

LEMMA ContextKeeps ==
  ASSUME UpdaterInv, NEW a \in upAttempts, Context(a)
  PROVE  UpdaterInv'
<1> USE DEF UpdaterInv
<1>1. /\ a.pc = "context" /\ UNCHANGED <<upChecks, upActive, upOpen, upPending, upWorld>>
      /\ a.id \in upOpen /\ StatusOf(a) = "checking"
  BY DEF Context, OneCheckEach, StatusOf
<1>2. OwnsCheck(a) => upStatus = "checking"
  BY <1>1 DEF OwnerSpeaks
<1>3. PICK pc \in {"download", "closing"}, next \in {"none", "idle"} :
        /\ upAttempts' = Replaced(a, pc, next)
        /\ pc = "closing" /\ next = "idle" => upStatus' = upStatus
        /\ pc = "closing" /\ next = "none" => OwnsCheck(a) /\ upStatus' = "blocked"
        /\ pc = "download" => OwnsCheck(a) /\ upStatus' = "downloading"
  BY DEF Context, Discards, Allowed
<1> DEFINE n == [a EXCEPT !.pc = pc, !.next = next]
<1>4. a \in Attempts
  BY DEF UpdaterTypeOK
<1>5. n.id = a.id /\ n.pc = pc /\ n.next = next
  BY <1>4 DEF Attempts
<1>6. upAttempts' = (upAttempts \ {a}) \union {n}
  BY <1>3 DEF Replaced
<1> HIDE DEF n
<1>7. /\ OwnsCheck(a) => upStatus' = StatusOf(n)
      /\ ~OwnsCheck(a) => upStatus' = upStatus /\ StatusOf(n) = "checking"
  BY <1>2, <1>3, <1>5 DEF StatusOf
<1>8. /\ UpdaterTypeOK' /\ OneCheckEach' /\ OwnerSpeaks' /\ HandlesAreAccounted'
      /\ \A b \in upAttempts : \E c \in upAttempts' : c.id = b.id
  <2>1. upStatus' \in Statuses /\ upOpen' = upOpen \union {a.id}
    BY <1>1, <1>3 DEF UpdaterTypeOK, Statuses
  <2> QED BY <1>1, <1>3, <1>7, <2>1, Proceeds DEF n
<1>9. StatusIsOwned'
  <2>1. upStatus' = "checking" => upStatus = "checking"
    BY <1>3
  <2>2. upStatus' = "checking" => \E b \in upAttempts' : b.id = upActive'
    BY <1>1, <1>8, <2>1 DEF StatusIsOwned, OwnsCheck
  <2>3. upStatus' = "ready" <=> upPending' # 0
    BY <1>1, <1>2, <1>3 DEF StatusIsOwned
  <2> QED BY <1>8, <2>2, <2>3
            DEF StatusIsOwned, OwnerSpeaks, OwnsCheck, StatusOf, UpdaterTypeOK, Attempts
<1> QED BY <1>8, <1>9

(* The check that downloaded is in charge: nothing was staged before.       *)
LEMMA DownloadedKeeps ==
  ASSUME UpdaterInv, NEW a \in upAttempts, Downloaded(a)
  PROVE  UpdaterInv'
<1> USE DEF UpdaterInv
<1>1. /\ a.pc = "download" /\ UNCHANGED <<upChecks, upActive, upOpen, upWorld>>
      /\ OwnsCheck(a) /\ upStatus = "downloading" /\ upPending = 0
      /\ a.id \in upOpen
  BY DEF Downloaded, StatusIsOwned, OneCheckEach
<1>2. a \in Attempts /\ a.id \in 1..upChecks
  BY DEF UpdaterTypeOK, OneCheckEach, Attempts
<1>3. \A b \in upAttempts : b.id = a.id => b = a
  BY DEF OneCheckEach
<1>4. CASE /\ upStatus' = "ready" /\ upPending' = a.id
           /\ upAttempts' = upAttempts \ {a}
  <2>1. upStatus' \in Statuses /\ upPending' \in 0..upChecks
    BY <1>2, <1>4 DEF Statuses
  <2>2. UpdaterTypeOK' /\ OneCheckEach' /\ OwnerSpeaks'
    BY <1>1, <1>4, <2>1, Ends
  <2>3. HandlesAreAccounted'
    BY <1>1, <1>3, <1>4, <2>2 DEF HandlesAreAccounted, OneCheckEach, UpdaterTypeOK
  <2>4. StatusIsOwned'
    BY <1>1, <1>2, <1>3, <1>4 DEF StatusIsOwned, OwnsCheck
  <2> QED BY <2>2, <2>3, <2>4
<1>5. CASE /\ upAttempts' = Replaced(a, "closing", "error")
           /\ UNCHANGED <<upStatus, upPending>>
  <2> DEFINE n == [a EXCEPT !.pc = "closing", !.next = "error"]
  <2>1. n.id = a.id /\ n.pc = "closing" /\ n.next = "error"
    BY <1>2 DEF Attempts
  <2>2. StatusOf(n) = "downloading"
    BY <2>1 DEF StatusOf
  <2>3. upAttempts' = (upAttempts \ {a}) \union {n}
    BY <1>5 DEF Replaced
  <2> HIDE DEF n
  <2>4. UpdaterTypeOK' /\ OneCheckEach' /\ OwnerSpeaks' /\ HandlesAreAccounted'
    <3>1. upStatus' \in Statuses /\ upOpen' = upOpen \union {a.id}
      BY <1>1, <1>5 DEF Statuses
    <3> QED BY <1>1, <1>5, <2>2, <3>1, Proceeds DEF n
  <2>5. StatusIsOwned'
    BY <1>1, <1>3, <1>5, <2>1, <2>3 DEF StatusIsOwned, OwnsCheck
  <2> QED BY <2>4, <2>5
<1> QED BY <1>4, <1>5 DEF Downloaded

(* Closing a handle: of one that was not staged, by the check that found it. *)
LEMMA ClosedKeeps ==
  ASSUME UpdaterInv, NEW a \in upAttempts, Closed(a)
  PROVE  UpdaterInv'
<1> USE DEF UpdaterInv
<1>1. /\ a.pc = "closing" /\ upOpen' = upOpen \ {a.id}
      /\ upAttempts' = upAttempts \ {a}
      /\ UNCHANGED <<upChecks, upActive, upWorld>>
  BY DEF Closed
<1>2. /\ a.next = "idle" => StatusOf(a) = "checking"
      /\ a.next = "none" => StatusOf(a) = "blocked"
      /\ a.next = "error" => StatusOf(a) = "downloading"
      /\ a.next \in {"none", "idle", "error"} /\ a \in Attempts
  BY <1>1 DEF StatusOf, UpdaterTypeOK, Attempts
<1>3. /\ OwnsCheck(a) => upStatus = StatusOf(a)
      /\ a.next # "idle" => OwnsCheck(a)
  BY <1>2 DEF OwnerSpeaks
<1>4. /\ a.next = "idle" => /\ upPending' = upPending
                            /\ OwnsCheck(a) => upStatus' = "idle"
                            /\ ~OwnsCheck(a) => upStatus' = upStatus
      /\ a.next = "error" => upStatus' = "error" /\ upPending' = 0
      /\ a.next = "none" => UNCHANGED <<upStatus, upPending>>
  BY DEF Closed, EndsIfOwner
<1>5. upPending' = upPending
  BY <1>2, <1>3, <1>4 DEF StatusIsOwned
<1>6. /\ upStatus' \in Statuses /\ upPending' \in 0..upChecks
      /\ ~OwnsCheck(a) => upStatus' = upStatus
      /\ OwnsCheck(a) => upStatus' \in {"idle", "error", "blocked"}
      /\ OwnsCheck(a) => upStatus # "ready"
  BY <1>2, <1>3, <1>4, <1>5 DEF Statuses, UpdaterTypeOK
<1>7. UpdaterTypeOK' /\ OneCheckEach' /\ OwnerSpeaks'
  BY <1>1, <1>5, <1>6, Ends
<1>8. \A b \in upAttempts : b.id = a.id => b = a
  BY DEF OneCheckEach
<1>9. HandlesAreAccounted'
  BY <1>1, <1>5, <1>8 DEF HandlesAreAccounted, OneCheckEach
<1>10. StatusIsOwned'
  BY <1>1, <1>5, <1>6, <1>8 DEF StatusIsOwned, OwnsCheck
<1> QED BY <1>7, <1>9, <1>10

LEMMA UpdaterInvNext == UpdaterInv /\ [UpdaterNext]_upVars => UpdaterInv'
<1> SUFFICES ASSUME UpdaterInv, [UpdaterNext]_upVars PROVE UpdaterInv'
  OBVIOUS
<1> DEFINE Same == UNCHANGED <<upStatus, upChecks, upActive, upAttempts, upOpen,
                               upPending>>
<1>1. ASSUME Same, upAuto' \in BOOLEAN, upToggles' \in Nat PROVE UpdaterInv'
  BY <1>1 DEF UpdaterInv, UpdaterTypeOK, OneCheckEach, OwnerSpeaks, OwnsCheck, StatusOf,
              HandlesAreAccounted, StatusIsOwned
<1> HIDE DEF Same
<1>2. upAuto \in BOOLEAN /\ upToggles \in Nat /\ upToggles + 1 \in Nat
  BY DEF UpdaterInv, UpdaterTypeOK
<1>3. ASSUME NEW manual \in BOOLEAN, CheckNow(manual) PROVE UpdaterInv'
  BY <1>3, CheckNowKeeps
<1>4. ASSUME NEW a \in upAttempts,
             Fails(a) \/ FindsNothing(a) \/ Finds(a) \/ Context(a) \/ Downloaded(a)
               \/ Closed(a)
      PROVE  UpdaterInv'
  BY <1>4, EndsEarlyKeeps, FindsKeeps, ContextKeeps, DownloadedKeeps, ClosedKeeps
<1>5. CASE Install \/ InstallGoesOn \/ ChangeSession
  <2>1. Same /\ UNCHANGED <<upAuto, upToggles>>
    BY <1>5 DEF Install, InstallGoesOn, ChangeSession, Same
  <2> QED BY <1>1, <1>2, <2>1
<1>6. CASE ToggleAuto
  <2>1. Same /\ upAuto' = ~upAuto /\ upToggles' = upToggles + 1
    BY <1>6 DEF ToggleAuto, Same
  <2>2. upAuto' \in BOOLEAN
    BY <2>1
  <2> QED BY <1>1, <1>2, <2>1, <2>2
<1>7. CASE Relaunches
  BY <1>7 DEF Relaunches, UpdaterInv, UpdaterTypeOK, Statuses, OneCheckEach, OwnerSpeaks,
              HandlesAreAccounted, StatusIsOwned
<1>8. CASE UNCHANGED upVars
  BY <1>1, <1>2, <1>8 DEF upVars, Same
<1> QED BY <1>3, <1>4, <1>5, <1>6, <1>7, <1>8 DEF UpdaterNext

(* Property: a handle the shell keeps is staged or in the hands of the check *)
(* that found it, and the status is that of the check in charge (checkNow   *)
(* and performCheck of updaterStore.ts), for any number of checks.          *)
THEOREM UpdatesAlwaysSound == UpdaterSpec => []UpdatesAreSound
<1>1. UpdaterInv => UpdatesAreSound
  BY DEF UpdaterInv, UpdatesAreSound
<1> QED BY <1>1, UpdaterInvInit, UpdaterInvNext, PTL DEF UpdaterSpec

----------------------------------------------------------------------------
(* The companion in a browser: what is under way to a document belongs to   *)
(* its socket, and a socket to one companion of the page.                   *)

(* The types, part by part.                                                 *)
Slots == [server : Nat, session : Nat, owner : Nat]
StartTasks == [req : Nat \ {0}, session : Nat, at : {"lock", "start"}]
StartAnswers == [req : Nat \ {0}, server : Nat]
Pages == [session : Nat, host : Nat, active : BOOLEAN, gen : Nat, client : Nat,
          shown : BOOLEAN, finishing : BOOLEAN, resume : BOOLEAN]

(* A request has one task or one answer.  While the page waits for that of  *)
(* its host, the slot is left alone; a task that owns it finds no server    *)
(* there.                                                                   *)
ShellTyped ==
  /\ mrFlag \in BOOLEAN /\ mrSlot \in Slots /\ mrTasks \in SUBSET StartTasks
  /\ mrLive \in SUBSET (Nat \ {0}) /\ mrAnswers \in SUBSET StartAnswers /\ pg \in Pages
  /\ mrRequests \in Nat

(* A request has one task or one answer.                                    *)
OneStartEach ==
  /\ \A t \in mrTasks : t.req <= mrRequests
  /\ \A a \in mrAnswers : a.req <= mrRequests
  /\ \A t, u \in mrTasks : t.req = u.req => t = u
  /\ \A a, b \in mrAnswers : a.req = b.req => a = b
  /\ \A t \in mrTasks, a \in mrAnswers : t.req # a.req

(* While the page waits for the answer of its host, the slot is left alone; *)
(* a task that owns the slot finds no server there.                         *)
HostIsOwn ==
  /\ pg.session = 0 => pg.host = 0
  /\ pg.host = 0 => ~pg.active
  /\ ~pg.active => pg.client = 0
  /\ \A t \in mrTasks :
       /\ t.req = pg.host => ~pg.active /\ t.session = pg.session
       /\ t.req = mrSlot.owner => mrSlot.server = 0
  /\ \A a \in mrAnswers : a.req = pg.host =>
       /\ ~pg.active
       /\ a.server # 0 =>
            mrSlot = [server |-> a.server, session |-> pg.session, owner |-> pg.host]

(* The shell and its page.                                                  *)
ShellInv == ShellTyped /\ OneStartEach /\ HostIsOwn /\ CompanionIsOwn

----------------------------------------------------------------------------
(* What is inside a sequence.                                               *)
Inside(s) == {s[i] : i \in DOMAIN s}
Up(c) == [kind |-> "up", conn |-> c]
UpOnce(s, c) == \A i, j \in DOMAIN s : s[i] = Up(c) /\ s[j] = Up(c) => i = j

(* The types of the wire, and the document.                                 *)
MrEvents == [kind : {"up", "down"}, conn : Nat \ {0}]
MrFrames == [kind : {"snapshot", "report", "reconnect", "close"}, n : Nat]
Docs == [sock : Nat, status : {"absent", "pairing", "connecting", "connected",
                               "disconnected", "moved"},
         cur : Nat, done : Nat, held : Nat, timer : BOOLEAN, ask : Nat]

(* The document: what it holds or asks for is for the session it shows.     *)
DocIsSafe ==
  /\ dc.held # 0 => dc.held = dc.cur
  /\ dc.ask # 0 => dc.ask = dc.cur /\ Live(dc)
  /\ dc.status = "connected" => dc.sock # 0
  /\ dc.status = "disconnected" => dc.sock = 0
  /\ CameraHasReason

(* The types once more, of the variables.                                   *)
WireTyped == mrConn \in Nat /\ mrEvents \in Seq(MrEvents) /\ mrIn \in Seq(MrFrames) /\ dc \in Docs

(* The frames that only end a connection.                                   *)
Notices == {"close", "reconnect"}

(* The socket of the document: the page hears of it once, has sent it       *)
(* nothing before, and afterwards only what is of its own companion.        *)
SocketIsFresh ==
  dc.sock # 0 /\ Up(dc.sock) \in Inside(mrEvents) =>
    /\ dc.sock # pg.client /\ dc.status # "connected"
    /\ \A f \in Inside(mrIn) : f.kind \in Notices

(* Once the page knows the socket, what is under way on it is of the        *)
(* companion it shows, and so is what the document shows.                   *)
SocketIsOwn ==
  dc.sock # 0 /\ dc.sock = pg.client =>
    /\ \A f \in Inside(mrIn) : f.kind = "snapshot" => f.n \in {0, pg.gen}
    /\ dc.status = "connected" => dc.cur \in {0, pg.gen}

(* The wire and the document.                                               *)
WireInv ==
  /\ WireTyped /\ DocIsSafe /\ SocketIsFresh /\ SocketIsOwn
  /\ UpOnce(mrEvents, dc.sock)
  /\ dc.sock = 0 => mrIn = <<>>

(* The inductive invariant.                                                 *)
MirrorInv == ShellInv /\ WireInv

(* It says what is promised.                                                *)
LEMMA MirrorSound == MirrorInv => MirrorIsSound
BY DEF MirrorInv, ShellInv, WireInv, MirrorIsSound, ConsentIsKept, SocketIsOwn, DocIsSafe

(* Nobody has started anything yet.                                         *)
LEMMA MirrorStart == MirrorInit => MirrorInv
<1> SUFFICES ASSUME MirrorInit PROVE MirrorInv
  OBVIOUS
<1>1. mrSlot \in Slots /\ mrSlot.owner = 0 /\ mrSlot.server = 0
  BY DEF MirrorInit, NoServer, Slots
<1>2. pg \in Pages /\ pg.session = 0 /\ pg.host = 0 /\ ~pg.active /\ pg.client = 0
  BY DEF MirrorInit, PageAtRest, Pages
<1>3. dc \in Docs /\ dc.sock = 0 /\ dc.held = 0 /\ dc.ask = 0 /\ dc.status = "absent"
  BY DEF MirrorInit, DocAtRest, Docs
<1>4. ShellTyped
  BY <1>1, <1>2 DEF MirrorInit, ShellTyped
<1>5. OneStartEach /\ HostIsOwn /\ CompanionIsOwn
  BY <1>1, <1>2 DEF MirrorInit, OneStartEach, HostIsOwn, CompanionIsOwn
<1>6. WireTyped /\ mrEvents = <<>> /\ mrIn = <<>>
  BY <1>3 DEF MirrorInit, WireTyped
<1>7. DocIsSafe /\ SocketIsFresh /\ SocketIsOwn
  BY <1>3 DEF DocIsSafe, CameraHasReason, SocketIsFresh, SocketIsOwn
<1>8. UpOnce(mrEvents, dc.sock)
  BY <1>6 DEF UpOnce
<1> QED BY <1>4, <1>5, <1>6, <1>7, <1>8 DEF MirrorInv, ShellInv, WireInv

----------------------------------------------------------------------------
(* One more at the end of a sequence, and one less at its head.             *)
LEMMA AppendIs ==
  ASSUME NEW S, NEW s \in Seq(S), NEW x \in S
  PROVE  /\ Append(s, x) \in Seq(S) /\ Inside(Append(s, x)) = Inside(s) \union {x}
         /\ \A c : x # Up(c) /\ UpOnce(s, c) => UpOnce(Append(s, x), c)
         /\ \A c : Up(c) \notin Inside(s) => UpOnce(Append(s, x), c)
<1> DEFINE t == Append(s, x)
<1>1. /\ t \in Seq(S) /\ DOMAIN t = 1..(Len(s) + 1) /\ DOMAIN s = 1..Len(s) /\ Len(s) \in Nat
      /\ t[Len(s) + 1] = x /\ \A i \in 1..Len(s) : t[i] = s[i]
  OBVIOUS
<1> HIDE DEF t
<1>2. \A i \in DOMAIN t : (i \in DOMAIN s /\ t[i] = s[i]) \/ (i = Len(s) + 1 /\ t[i] = x)
  BY <1>1
<1>3. DOMAIN s \subseteq DOMAIN t /\ Len(s) + 1 \in DOMAIN t
  BY <1>1
<1>4. Inside(t) = Inside(s) \union {x}
  BY <1>1, <1>2, <1>3 DEF Inside
<1>5. \A c : x # Up(c) /\ UpOnce(s, c) => UpOnce(t, c)
  BY <1>2 DEF UpOnce
<1>6. \A c : Up(c) \notin Inside(s) => UpOnce(t, c)
  BY <1>2 DEF UpOnce, Inside
<1> QED BY <1>1, <1>4, <1>5, <1>6 DEF t

LEMMA TailIs ==
  ASSUME NEW S, NEW s \in Seq(S), s # <<>>
  PROVE  /\ Head(s) \in S /\ Tail(s) \in Seq(S) /\ Head(s) \in Inside(s)
         /\ Inside(Tail(s)) \subseteq Inside(s)
         /\ \A c : UpOnce(s, c) => UpOnce(Tail(s), c)
         /\ \A c : UpOnce(s, c) /\ Head(s) = Up(c) => Up(c) \notin Inside(Tail(s))
<1> DEFINE t == Tail(s)
<1>1. /\ t \in Seq(S) /\ DOMAIN t = 1..(Len(s) - 1) /\ DOMAIN s = 1..Len(s)
      /\ Len(s) \in Nat \ {0} /\ Head(s) = s[1] /\ Head(s) \in S
      /\ \A i \in 1..(Len(s) - 1) : t[i] = s[i + 1]
  OBVIOUS
<1> HIDE DEF t
<1>2. \A i \in DOMAIN t : i + 1 \in DOMAIN s /\ t[i] = s[i + 1] /\ i + 1 # 1 /\ i \in Nat
  BY <1>1
<1>3. 1 \in DOMAIN s
  BY <1>1
<1>4. Inside(t) \subseteq Inside(s) /\ Head(s) \in Inside(s)
  BY <1>1, <1>2, <1>3 DEF Inside
<1>5. \A c : UpOnce(s, c) => UpOnce(t, c)
  <2> SUFFICES ASSUME NEW c, UpOnce(s, c), NEW i \in DOMAIN t, NEW j \in DOMAIN t,
                      t[i] = Up(c), t[j] = Up(c)
               PROVE  i = j
    BY DEF UpOnce
  <2>1. i + 1 = j + 1
    BY <1>2 DEF UpOnce
  <2> QED BY <1>2, <2>1
<1>6. \A c : UpOnce(s, c) /\ Head(s) = Up(c) => Up(c) \notin Inside(t)
  <2> SUFFICES ASSUME NEW c, UpOnce(s, c), s[1] = Up(c), NEW i \in DOMAIN t, t[i] = Up(c)
               PROVE  FALSE
    BY <1>1 DEF Inside
  <2>1. i + 1 = 1
    BY <1>2, <1>3 DEF UpOnce
  <2> QED BY <1>2, <2>1
<1> QED BY <1>1, <1>4, <1>5, <1>6 DEF t

(* What the shell tells the page, and the browser, of a connection that     *)
(* ends.                                                                    *)
LEMMA DownsAre ==
  ASSUME WireTyped
  PROVE  /\ mrEvents \o Downs \in Seq(MrEvents)
         /\ \A c : Up(c) \in Inside(mrEvents \o Downs) <=> Up(c) \in Inside(mrEvents)
         /\ \A c : UpOnce(mrEvents, c) => UpOnce(mrEvents \o Downs, c)
<1>1. CASE mrConn = 0
  <2>1. mrEvents \o Downs = mrEvents
    BY <1>1, ConcatEmptySeq DEF Downs, WireTyped
  <2> QED BY <2>1 DEF WireTyped
<1>2. CASE mrConn # 0
  <2> DEFINE x == [kind |-> "down", conn |-> mrConn]
  <2>1. x \in MrEvents /\ \A c : x # Up(c)
    BY <1>2 DEF WireTyped, MrEvents, Up
  <2>2. mrEvents \o Downs = Append(mrEvents, x)
    BY <1>2, <2>1, AppendIsConcat DEF Downs, WireTyped
  <2> HIDE DEF x
  <2> QED BY <2>1, <2>2, AppendIs DEF WireTyped
<1> QED BY <1>1, <1>2

(* What is sent on a socket reaches the document only if it is its own.     *)
LEMMA DeliveredIs ==
  ASSUME WireInv, NEW c \in Nat, NEW f \in MrFrames
  PROVE  /\ Delivered(c, f) \in Seq(MrFrames)
         /\ dc.sock = 0 => Delivered(c, f) = <<>>
         /\ \A g \in Inside(Delivered(c, f)) : g \in Inside(mrIn) \/ (g = f /\ dc.sock = c)
BY AppendIs DEF WireInv, WireTyped, Delivered

(* The document stands still: what comes to it, and what the page hears.    *)
LEMMA DocRests ==
  ASSUME WireInv, dc' = dc, mrConn' \in Nat, mrEvents' \in Seq(MrEvents),
         mrIn' \in Seq(MrFrames), dc.sock = 0 => mrIn' = <<>>,
         dc.sock # 0 /\ Up(dc.sock) \in Inside(mrEvents') => Up(dc.sock) \in Inside(mrEvents),
         UpOnce(mrEvents', dc.sock),
         dc.sock # 0 /\ dc.sock = pg'.client =>
           \/ dc.sock = pg.client /\ pg'.gen = pg.gen
           \/ Up(dc.sock) \in Inside(mrEvents) /\ Up(dc.sock) \notin Inside(mrEvents'),
         \A f \in Inside(mrIn') :
           \/ f \in Inside(mrIn) \/ f.kind \in Notices
           \/ /\ f.kind = "snapshot" => f.n \in {0, pg'.gen}
              /\ dc.sock # 0 /\ dc.sock = pg'.client
  PROVE  WireInv'
<1>1. WireTyped' /\ DocIsSafe'
  BY DEF WireInv, WireTyped, DocIsSafe, CameraHasReason, Live, Stopped
<1>2. SocketIsFresh'
  BY DEF WireInv, SocketIsFresh
<1>3. SocketIsOwn'
  BY DEF WireInv, SocketIsFresh, SocketIsOwn, Notices
<1> QED BY <1>1, <1>2, <1>3 DEF WireInv

----------------------------------------------------------------------------
(* The shell and the page.                                                  *)
LEMMA ShellRests ==
  ASSUME ShellInv, UNCHANGED <<shellVars, mrAnswers, mrRequests>>, pg' \in Pages,
         pg'.session = pg.session, pg'.host = pg.host, pg'.active = pg.active,
         pg'.gen = pg.gen, ~pg.active => pg'.client = 0
  PROVE  ShellInv'
<1> USE DEF shellVars
<1>1. ShellTyped' /\ OneStartEach'
  BY DEF ShellInv, ShellTyped, OneStartEach
<1>2. HostIsOwn'
  BY DEF ShellInv, HostIsOwn
<1>3. CompanionIsOwn'
  BY DEF ShellInv, CompanionIsOwn
<1> QED BY <1>1, <1>2, <1>3 DEF ShellInv

(* Stopping the server leaves none, and closes its connection.              *)
LEMMA StopsIs ==
  ASSUME ShellInv, Stops
  PROVE  mrLive' = {} /\ (UNCHANGED wireVars \/ Closes(1001))
BY DEF ShellInv, CompanionIsOwn, Stops

(* The page goes to rest, or its companion does.                            *)
LEMMA HostlessIs ==
  ASSUME pg \in Pages
  PROVE  /\ Hostless(pg) \in Pages /\ Hostless(pg).session = pg.session
         /\ Hostless(pg).host = 0 /\ ~Hostless(pg).active /\ Hostless(pg).client = 0
         /\ PageAtRest \in Pages /\ PageAtRest.session = 0
         /\ PageAtRest.host = 0 /\ ~PageAtRest.active /\ PageAtRest.client = 0
<1>1. /\ PageAtRest \in Pages /\ PageAtRest.session = 0
      /\ PageAtRest.host = 0 /\ ~PageAtRest.active /\ PageAtRest.client = 0
  BY DEF PageAtRest, Pages
<1> DEFINE n == PageAtRest
<1>2. Hostless(pg) = [n EXCEPT !.session = pg.session, !.resume = pg.resume,
                               !.finishing = pg.finishing]
  BY DEF Hostless
<1>3. n \in Pages /\ n.host = 0 /\ ~n.active /\ n.client = 0
  BY <1>1
<1> HIDE DEF n
<1> QED BY <1>1, <1>2, <1>3 DEF Pages

(* No page waits: the slot may change hands.                                *)
LEMMA ShellEnds ==
  ASSUME ShellInv, mrSlot' = NoServer, mrLive' = {}, mrFlag' \in BOOLEAN,
         UNCHANGED <<mrTasks, mrRequests>>, mrAnswers' \in SUBSET mrAnswers,
         pg' \in Pages, ~pg'.active, pg'.client = 0,
         pg'.session = 0 => pg'.host = 0,
         \A t \in mrTasks : t.req = pg'.host => t.session = pg'.session,
         \A a \in mrAnswers' : a.req = pg'.host => a.server = 0
  PROVE  ShellInv'
<1>1. NoServer \in Slots /\ NoServer.owner = 0 /\ NoServer.server = 0
  BY DEF NoServer, Slots
<1>2. ShellTyped' /\ OneStartEach'
  BY <1>1 DEF ShellInv, ShellTyped, OneStartEach
<1>3. HostIsOwn'
  BY <1>1 DEF ShellInv, ShellTyped, HostIsOwn, StartTasks
<1>4. CompanionIsOwn'
  BY DEF CompanionIsOwn
<1> QED BY <1>2, <1>3, <1>4 DEF ShellInv

(* The document stands still, and the wire too or its connection ends.      *)
LEMMA WireEnds ==
  ASSUME WireInv, dc' = dc, UNCHANGED wireVars \/ (\E code \in Nat : Closes(code)),
         pg'.client \in {0, pg.client}, pg'.client # 0 => pg'.gen = pg.gen
  PROVE  WireInv'
<1>1. CASE UNCHANGED wireVars
  BY <1>1, DocRests DEF WireInv, WireTyped, wireVars
<1>2. ASSUME NEW code \in Nat, Closes(code) PROVE WireInv'
  <2> DEFINE f == Frame("close", code)
  <2>1. f \in MrFrames /\ f.kind \in Notices
    BY DEF Frame, MrFrames, Notices
  <2>2. mrIn' = Delivered(mrConn, f) /\ mrEvents' = mrEvents \o Downs /\ mrConn' = 0
    BY <1>2 DEF Closes
  <2> HIDE DEF f
  <2>3. WireTyped /\ mrConn \in Nat /\ UpOnce(mrEvents, dc.sock)
    BY DEF WireInv, WireTyped
  <2> QED BY <2>1, <2>2, <2>3, DownsAre, DeliveredIs, DocRests
<1> QED BY <1>1, <1>2

(* A session begins, or one that was interrupted is taken up again.         *)
LEMMA EnterKeeps ==
  ASSUME MirrorInv, NEW session \in 1..MaxSessions, Enter(session)
  PROVE  MirrorInv'
<1>1. /\ pg.session = 0 /\ mrFlag' = TRUE /\ UNCHANGED <<mrSlot, mrTasks, mrLive, mrAnswers, mrRequests>>
      /\ UNCHANGED wireVars /\ dc' = dc
      /\ pg' = [pg EXCEPT !.session = session, !.resume = Adoptable(session)]
  BY DEF Enter, browserVars
<1>2. ShellInv /\ WireInv /\ pg \in Pages /\ session \in Nat /\ session # 0
      /\ Adoptable(session) \in BOOLEAN
  BY DEF MirrorInv, ShellInv, ShellTyped, Adoptable
<1>3. /\ pg' \in Pages /\ pg'.session = session /\ pg'.host = pg.host
      /\ pg'.active = pg.active /\ pg'.gen = pg.gen /\ pg'.client = pg.client
  BY <1>1, <1>2 DEF Pages
<1>4. pg.host = 0 /\ ~pg.active
  BY <1>1, <1>2 DEF ShellInv, HostIsOwn
<1>5. ShellTyped' /\ OneStartEach'
  BY <1>1, <1>2, <1>3 DEF ShellInv, ShellTyped, OneStartEach
<1>6. HostIsOwn'
  BY <1>1, <1>2, <1>3, <1>4 DEF ShellInv, ShellTyped, HostIsOwn, StartTasks, StartAnswers
<1>7. CompanionIsOwn'
  BY <1>1, <1>2, <1>3, <1>4 DEF ShellInv, CompanionIsOwn
<1>8. WireInv'
  BY <1>1, <1>2, <1>3, WireEnds
<1> QED BY <1>5, <1>6, <1>7, <1>8 DEF MirrorInv, ShellInv

(* A start is refused, takes over the server of its session, or queues.     *)
LEMMA StartKeeps ==
  ASSUME MirrorInv, NEW resume \in BOOLEAN, Start(resume)
  PROVE  MirrorInv'
<1> DEFINE req == mrRequests + 1
           h == Hostless(pg)
           again == pg.resume /\ ~resume
           p == [h EXCEPT !.host = req, !.resume = again]
<1>1. /\ pg.session # 0 /\ pg.host = 0 /\ mrRequests' = req /\ dc' = dc
      /\ StartCalled(req, pg.session, resume) /\ pg' = p
  BY DEF Start, browserVars
<1>2. ShellInv /\ WireInv /\ ShellTyped /\ OneStartEach /\ HostIsOwn /\ CompanionIsOwn
      /\ pg \in Pages /\ pg.session \in Nat
  BY DEF MirrorInv, ShellInv, ShellTyped, Pages
<1>3. /\ h \in Pages /\ h.session = pg.session /\ ~h.active /\ h.client = 0
  BY <1>2, HostlessIs
<1>4. req \in Nat \ {0} /\ mrRequests < req /\ mrRequests \in Nat /\ again \in BOOLEAN
  BY <1>2 DEF ShellTyped, Pages
<1> HIDE DEF h, again
<1>5. /\ pg' \in Pages /\ pg'.session = pg.session /\ pg'.host = req /\ ~pg'.active
      /\ pg'.client = 0
  BY <1>1, <1>3, <1>4 DEF Pages
<1> HIDE DEF p
<1>6. (\A t \in mrTasks : t.req < req) /\ (\A a \in mrAnswers : a.req < req)
  BY <1>2, <1>4 DEF OneStartEach, ShellTyped, StartTasks, StartAnswers
<1>7. /\ \A t \in mrTasks : t.req \in Nat /\ t.req # req
      /\ \A a \in mrAnswers : a.req \in Nat /\ a.req # req
  BY <1>2, <1>4, <1>6 DEF ShellTyped, StartTasks, StartAnswers
<1> HIDE DEF req
<1> DEFINE no == [req |-> req, server |-> 0]
           yes == [req |-> req, server |-> mrSlot.server]
           task == [req |-> req, session |-> pg.session, at |-> "lock"]
           mine == [mrSlot EXCEPT !.owner = req]
           empty == [NoServer EXCEPT !.owner = req]
<1>8. /\ no \in StartAnswers /\ yes \in StartAnswers /\ task \in StartTasks
      /\ mine \in Slots /\ empty \in Slots /\ mine.server = mrSlot.server
      /\ mine = [server |-> mrSlot.server, session |-> mrSlot.session, owner |-> req]
      /\ empty.server = 0 /\ empty.owner = req /\ mine.owner = req
  BY <1>2, <1>4 DEF StartAnswers, StartTasks, Slots, NoServer, ShellTyped
<1>9. /\ no.req = req /\ no.server = 0 /\ yes.req = req /\ yes.server = mrSlot.server
      /\ task.req = req /\ task.session = pg.session
  OBVIOUS
<1>10. \/ mrAnswers' = mrAnswers \union {no} /\ UNCHANGED <<shellVars, wireVars>>
       \/ /\ mrFlag /\ Adoptable(pg.session) /\ mrSlot' = mine /\ Closes(4002)
          /\ mrAnswers' = mrAnswers \union {yes} /\ UNCHANGED <<mrFlag, mrTasks, mrLive>>
       \/ /\ mrFlag /\ mrSlot' = empty /\ Stops /\ mrTasks' = mrTasks \union {task}
          /\ UNCHANGED <<mrFlag, mrAnswers>>
  BY <1>1 DEF StartCalled
<1> HIDE DEF no, yes, task, mine, empty
<1>11. CASE mrAnswers' = mrAnswers \union {no} /\ UNCHANGED <<shellVars, wireVars>>
  <2> USE DEF shellVars
  <2>1. ShellTyped'
    BY <1>1, <1>2, <1>4, <1>5, <1>8, <1>11 DEF ShellTyped
  <2>2. OneStartEach'
    <3>1. \A t \in mrTasks : t.req <= req
      BY <1>4, <1>6, <1>7
    <3>2. \A a \in mrAnswers' : a.req <= req
      BY <1>4, <1>6, <1>7, <1>9, <1>11
    <3> QED BY <1>1, <1>2, <1>7, <1>9, <1>11, <3>1, <3>2 DEF OneStartEach
  <2>3. HostIsOwn'
    BY <1>1, <1>2, <1>5, <1>7, <1>9, <1>11 DEF HostIsOwn
  <2>4. CompanionIsOwn'
    BY <1>2, <1>5, <1>11 DEF CompanionIsOwn
  <2>5. WireInv'
    BY <1>1, <1>2, <1>5, <1>11, WireEnds
  <2> QED BY <2>1, <2>2, <2>3, <2>4, <2>5 DEF MirrorInv, ShellInv
<1>12. CASE /\ mrFlag /\ Adoptable(pg.session) /\ mrSlot' = mine /\ Closes(4002)
            /\ mrAnswers' = mrAnswers \union {yes} /\ UNCHANGED <<mrFlag, mrTasks, mrLive>>
  <2>1. ShellTyped'
    BY <1>1, <1>2, <1>4, <1>5, <1>8, <1>12 DEF ShellTyped
  <2>2. OneStartEach'
    <3>1. \A t \in mrTasks : t.req <= req
      BY <1>4, <1>6, <1>7
    <3>2. \A a \in mrAnswers' : a.req <= req
      BY <1>4, <1>6, <1>7, <1>9, <1>12
    <3> QED BY <1>1, <1>2, <1>7, <1>9, <1>12, <3>1, <3>2 DEF OneStartEach
  <2>3. mrSlot.session = pg.session /\ mrSlot' = [server |-> mrSlot.server,
                                         session |-> pg.session, owner |-> req]
    BY <1>8, <1>12 DEF Adoptable
  <2>4. HostIsOwn'
    BY <1>1, <1>2, <1>5, <1>7, <1>8, <1>9, <1>12, <2>3 DEF HostIsOwn
  <2>5. CompanionIsOwn'
    BY <1>2, <1>5, <1>8, <1>12 DEF CompanionIsOwn
  <2>6. WireInv'
    BY <1>1, <1>2, <1>5, <1>12, WireEnds
  <2> QED BY <2>1, <2>2, <2>4, <2>5, <2>6 DEF MirrorInv, ShellInv
<1>13. CASE /\ mrFlag /\ mrSlot' = empty /\ Stops /\ mrTasks' = mrTasks \union {task}
            /\ UNCHANGED <<mrFlag, mrAnswers>>
  <2>1. mrLive' = {} /\ (UNCHANGED wireVars \/ Closes(1001))
    BY <1>2, <1>13, StopsIs
  <2>2. ShellTyped'
    BY <1>1, <1>2, <1>4, <1>5, <1>8, <1>13, <2>1 DEF ShellTyped
  <2>3. OneStartEach'
    <3>1. \A t \in mrTasks' : t.req <= req
      BY <1>4, <1>6, <1>7, <1>9, <1>13
    <3>2. \A a \in mrAnswers' : a.req <= req
      BY <1>4, <1>6, <1>7, <1>13
    <3> QED BY <1>1, <1>2, <1>7, <1>9, <1>13, <3>1, <3>2 DEF OneStartEach
  <2>4. HostIsOwn'
    BY <1>1, <1>2, <1>5, <1>7, <1>8, <1>9, <1>13 DEF HostIsOwn
  <2>5. CompanionIsOwn'
    BY <1>5, <2>1 DEF CompanionIsOwn
  <2>6. WireInv'
    BY <1>1, <1>2, <1>5, <2>1, WireEnds
  <2> QED BY <2>2, <2>3, <2>4, <2>5, <2>6 DEF MirrorInv, ShellInv
<1> QED BY <1>10, <1>11, <1>12, <1>13

(* The shell stands still, and its page too, or the page lets go.           *)
LEMMA ShellWaits ==
  ASSUME ShellInv, UNCHANGED <<shellVars, mrRequests>>, mrAnswers' \in SUBSET mrAnswers,
         pg' \in Pages,
         pg' = pg \/ (pg'.host = 0 /\ ~pg'.active /\ pg'.client = 0)
  PROVE  ShellInv'
<1> USE DEF shellVars
<1>1. ShellTyped' /\ OneStartEach'
  BY DEF ShellInv, ShellTyped, OneStartEach
<1>2. HostIsOwn'
  BY DEF ShellInv, ShellTyped, HostIsOwn, StartTasks, StartAnswers
<1>3. CompanionIsOwn'
  BY DEF ShellInv, CompanionIsOwn
<1> QED BY <1>1, <1>2, <1>3 DEF ShellInv

(* The answer is of the host of the page, or comes too late and is undone.  *)
LEMMA StartAnsweredKeeps ==
  ASSUME MirrorInv, NEW a \in mrAnswers, StartAnswered(a)
  PROVE  MirrorInv'
<1>1. /\ mrAnswers' = mrAnswers \ {a} /\ dc' = dc /\ mrRequests' = mrRequests
      /\ \/ /\ a.req = pg.host /\ a.server # 0
            /\ pg' = [pg EXCEPT !.active = TRUE, !.gen = a.server]
            /\ UNCHANGED <<shellVars, wireVars>>
         \/ /\ a.req # pg.host \/ a.server = 0
            /\ pg' = IF a.req = pg.host THEN Hostless(pg) ELSE pg
            /\ StopCalled(a.req)
  BY DEF StartAnswered, browserVars, mirrorBounds, mirrorCounts
<1>2. ShellInv /\ WireInv /\ ShellTyped /\ OneStartEach /\ HostIsOwn /\ CompanionIsOwn
      /\ pg \in Pages
  BY DEF MirrorInv, ShellInv, ShellTyped
<1>3. a.req \in Nat \ {0} /\ a.server \in Nat
  BY <1>2 DEF ShellTyped, StartAnswers
<1>4. CASE /\ a.req = pg.host /\ a.server # 0
           /\ pg' = [pg EXCEPT !.active = TRUE, !.gen = a.server]
           /\ UNCHANGED <<shellVars, wireVars>>
  <2> USE DEF shellVars
  <2>1. /\ pg' \in Pages /\ pg'.session = pg.session /\ pg'.host = pg.host
        /\ pg'.active /\ pg'.gen = a.server /\ pg'.client = pg.client
    BY <1>2, <1>3, <1>4 DEF Pages
  <2>2. ~pg.active /\ pg.client = 0 /\ pg.host # 0
        /\ mrSlot = [server |-> a.server, session |-> pg.session, owner |-> pg.host]
    BY <1>2, <1>3, <1>4 DEF HostIsOwn
  <2>3. ShellTyped' /\ OneStartEach'
    BY <1>1, <1>2, <1>4, <2>1 DEF ShellTyped, OneStartEach
  <2>4. (\A t \in mrTasks : t.req # pg.host) /\ (\A b \in mrAnswers' : b.req # pg.host)
    BY <1>1, <1>2, <1>4 DEF OneStartEach
  <2>5. HostIsOwn'
    BY <1>2, <1>4, <2>1, <2>2, <2>4 DEF HostIsOwn
  <2>6. CompanionIsOwn'
    BY <1>2, <1>4, <2>1, <2>2 DEF CompanionIsOwn
  <2>7. WireInv'
    BY <1>1, <1>2, <1>4, <2>1, <2>2, WireEnds
  <2> QED BY <2>3, <2>5, <2>6, <2>7 DEF MirrorInv, ShellInv
<1>5. CASE /\ a.req # pg.host \/ a.server = 0
           /\ pg' = IF a.req = pg.host THEN Hostless(pg) ELSE pg
           /\ StopCalled(a.req)
  <2>1. /\ pg' \in Pages /\ pg'.client \in {0, pg.client} /\ (pg'.client # 0 => pg'.gen = pg.gen)
        /\ \/ pg' = pg /\ a.req # pg.host
           \/ pg'.host = 0 /\ ~pg'.active /\ pg'.client = 0
    BY <1>2, <1>5, HostlessIs
  <2>2. CASE Owned(a.req)
    <3>1. mrSlot' = NoServer /\ Stops /\ UNCHANGED <<mrFlag, mrTasks>>
      BY <1>5, <2>2 DEF StopCalled
    <3>2. mrLive' = {} /\ (UNCHANGED wireVars \/ Closes(1001))
      BY <1>2, <3>1, StopsIs
    <3>3. WireInv'
      BY <1>1, <1>2, <2>1, <3>2, WireEnds
    <3>4. mrSlot.owner = a.req
      BY <2>2 DEF Owned
    <3>5. CASE pg' = pg /\ a.req # pg.host
      <4>1. ~pg.active /\ pg.client = 0
        BY <1>2, <3>4, <3>5 DEF CompanionIsOwn, HostIsOwn
      <4>2. \A b \in mrAnswers : b.req = pg.host => b.server = 0
        BY <1>2, <3>4, <3>5 DEF HostIsOwn
      <4>3. ShellInv'
        BY <1>1, <1>2, <3>1, <3>2, <3>5, <4>1, <4>2, ShellEnds DEF HostIsOwn, ShellTyped
      <4> QED BY <3>3, <4>3 DEF MirrorInv
    <3>6. CASE pg'.host = 0 /\ ~pg'.active /\ pg'.client = 0
      <4>1. \A t \in mrTasks : t.req # 0
        BY <1>2 DEF ShellTyped, StartTasks
      <4>2. \A b \in mrAnswers' : b.req # 0
        BY <1>1, <1>2 DEF ShellTyped, StartAnswers
      <4>3. ShellInv'
        BY <1>1, <1>2, <2>1, <3>1, <3>2, <3>6, <4>1, <4>2, ShellEnds DEF ShellTyped
      <4> QED BY <3>3, <4>3 DEF MirrorInv
    <3> QED BY <2>1, <3>5, <3>6
  <2>3. CASE ~Owned(a.req)
    <3>1. UNCHANGED <<shellVars, wireVars>>
      BY <1>5, <2>3 DEF StopCalled
    <3>2. ShellInv'
      BY <1>1, <1>2, <2>1, <3>1, ShellWaits
    <3>3. WireInv'
      BY <1>1, <1>2, <2>1, <3>1, WireEnds
    <3> QED BY <3>2, <3>3 DEF MirrorInv
  <2> QED BY <2>2, <2>3
<1> QED BY <1>1, <1>4, <1>5

(* The page lets go of its companion; what the shell holds for it, or for   *)
(* anybody, is stopped, or is left.                                         *)
LEMMA LetsGo ==
  ASSUME MirrorInv, dc' = dc, mrRequests' = mrRequests, mrAnswers' \in SUBSET mrAnswers,
         pg' \in Pages, pg'.host = 0, ~pg'.active, pg'.client = 0, mrFlag' \in BOOLEAN,
         UNCHANGED mrTasks,
         \/ mrSlot' = NoServer /\ Stops
         \/ UNCHANGED <<shellVars, wireVars>>
  PROVE  MirrorInv'
<1>1. ShellInv /\ WireInv
  BY DEF MirrorInv
<1>2. CASE mrSlot' = NoServer /\ Stops
  <2>1. mrLive' = {} /\ (UNCHANGED wireVars \/ Closes(1001))
    BY <1>1, <1>2, StopsIs
  <2>2. (\A t \in mrTasks : t.req # 0) /\ (\A b \in mrAnswers' : b.req # 0)
    BY <1>1 DEF ShellInv, ShellTyped, StartTasks, StartAnswers
  <2>3. ShellInv'
    BY <1>1, <1>2, <2>1, <2>2, ShellEnds
  <2>4. WireInv'
    BY <1>1, <2>1, WireEnds
  <2> QED BY <2>3, <2>4 DEF MirrorInv
<1>3. CASE UNCHANGED <<shellVars, wireVars>>
  <2>1. ShellInv'
    BY <1>1, <1>3, ShellWaits
  <2>2. WireInv'
    BY <1>1, <1>3, WireEnds
  <2> QED BY <2>1, <2>2 DEF MirrorInv
<1> QED BY <1>2, <1>3

(* The companion is stopped, the session is left, or not taken up again.    *)
LEMMA PageEndsKeeps ==
  ASSUME MirrorInv, StopCompanion \/ LeaveEnds \/ ReleaseStale
  PROVE  MirrorInv'
<1>1. pg \in Pages /\ mrFlag \in BOOLEAN
  BY DEF MirrorInv, ShellInv, ShellTyped
<1>2. CASE StopCompanion
  <2>1. /\ pg' = Hostless(pg) /\ StopCalled(pg.host) /\ dc' = dc
        /\ mrAnswers' = mrAnswers /\ mrRequests' = mrRequests
    BY <1>2 DEF StopCompanion, browserVars, mirrorBounds, mirrorCounts
  <2>2. pg' \in Pages /\ pg'.host = 0 /\ ~pg'.active /\ pg'.client = 0
    BY <1>1, <2>1, HostlessIs
  <2>3. \/ mrSlot' = NoServer /\ Stops /\ UNCHANGED <<mrFlag, mrTasks>>
        \/ UNCHANGED <<shellVars, wireVars>>
    BY <2>1 DEF StopCalled
  <2> QED BY <1>1, <2>1, <2>2, <2>3, LetsGo DEF shellVars
<1>3. CASE LeaveEnds
  <2>1. /\ pg' = PageAtRest /\ mrFlag' = FALSE /\ mrSlot' = NoServer /\ Stops
        /\ UNCHANGED mrTasks /\ dc' = dc /\ mrAnswers' = mrAnswers /\ mrRequests' = mrRequests
    BY <1>3 DEF LeaveEnds, Deactivate, browserVars, mirrorBounds, mirrorCounts
  <2> QED BY <1>1, <2>1, HostlessIs, LetsGo
<1>4. CASE ReleaseStale
  <2>1. /\ pg' = pg /\ mrFlag' = FALSE /\ mrSlot' = NoServer /\ Stops /\ pg.session = 0
        /\ UNCHANGED mrTasks /\ dc' = dc /\ mrAnswers' = mrAnswers /\ mrRequests' = mrRequests
    BY <1>4 DEF ReleaseStale, Deactivate, browserVars, mirrorBounds, mirrorCounts
  <2>2. pg.host = 0 /\ ~pg.active /\ pg.client = 0
    BY <2>1 DEF MirrorInv, ShellInv, HostIsOwn
  <2> QED BY <1>1, <2>1, <2>2, LetsGo
<1> QED BY <1>2, <1>3, <1>4

(* The page is loaded again, and hears nothing of what was under way.       *)
LEMMA ReloadKeeps ==
  ASSUME MirrorInv, Reload
  PROVE  MirrorInv'
<1>1. /\ pg' = PageAtRest /\ mrEvents' = <<>> /\ mrAnswers' = {} /\ dc' = dc
      /\ mrRequests' = mrRequests /\ UNCHANGED <<shellVars, mrConn, mrIn>>
  BY DEF Reload, browserVars, mirrorCounts
<1>2. ShellInv /\ WireInv /\ pg \in Pages
  BY DEF MirrorInv, ShellInv, ShellTyped
<1>3. pg' \in Pages /\ pg'.host = 0 /\ ~pg'.active /\ pg'.client = 0
  BY <1>1, <1>2, HostlessIs
<1>4. ShellInv'
  BY <1>1, <1>2, <1>3, ShellWaits
<1>5. mrEvents' \in Seq(MrEvents) /\ Inside(mrEvents') = {} /\ UpOnce(mrEvents', dc.sock)
  BY <1>1 DEF Inside, UpOnce
<1>6. WireInv'
  BY <1>1, <1>2, <1>3, <1>5, DocRests DEF WireInv, WireTyped
<1> QED BY <1>4, <1>6 DEF MirrorInv

----------------------------------------------------------------------------
(* The shell by itself.                                                     *)
LEMMA TaskGoesOnKeeps ==
  ASSUME MirrorInv, NEW t \in mrTasks, TaskGoesOn(t)
  PROVE  MirrorInv'
<1> DEFINE u == [t EXCEPT !.at = "start"]
           no == [req |-> t.req, server |-> 0]
<1>1. /\ ShellInv /\ WireInv /\ ShellTyped /\ OneStartEach /\ HostIsOwn /\ CompanionIsOwn
      /\ t \in StartTasks
  BY DEF MirrorInv, ShellInv, ShellTyped
<1>2. /\ u \in StartTasks /\ u.req = t.req /\ u.session = t.session
      /\ no \in StartAnswers /\ no.req = t.req /\ no.server = 0
  BY <1>1 DEF StartTasks, StartAnswers
<1>3. /\ UNCHANGED <<mrFlag, mrSlot, mrLive, wireVars, pg, mrRequests>> /\ dc' = dc
      /\ \/ mrTasks' = (mrTasks \ {t}) \union {u} /\ UNCHANGED mrAnswers
         \/ mrTasks' = mrTasks \ {t} /\ mrAnswers' = mrAnswers \union {no}
  BY DEF TaskGoesOn, browserVars, mirrorBounds, mirrorCounts
<1> HIDE DEF u, no
<1>4. ShellTyped' /\ CompanionIsOwn'
  BY <1>1, <1>2, <1>3 DEF ShellTyped, CompanionIsOwn
<1>5. OneStartEach'
  <2>1. CASE mrTasks' = (mrTasks \ {t}) \union {u} /\ UNCHANGED mrAnswers
    BY <1>1, <1>2, <1>3, <2>1 DEF OneStartEach
  <2>2. CASE mrTasks' = mrTasks \ {t} /\ mrAnswers' = mrAnswers \union {no}
    BY <1>1, <1>2, <1>3, <2>2 DEF OneStartEach
  <2> QED BY <1>3, <2>1, <2>2
<1>6. HostIsOwn'
  <2>1. CASE mrTasks' = (mrTasks \ {t}) \union {u} /\ UNCHANGED mrAnswers
    BY <1>1, <1>2, <1>3, <2>1 DEF HostIsOwn
  <2>2. CASE mrTasks' = mrTasks \ {t} /\ mrAnswers' = mrAnswers \union {no}
    BY <1>1, <1>2, <1>3, <2>2 DEF HostIsOwn
  <2> QED BY <1>3, <2>1, <2>2
<1>7. WireInv'
  BY <1>1, <1>3, WireEnds DEF WireInv
<1> QED BY <1>4, <1>5, <1>6, <1>7 DEF MirrorInv, ShellInv

(* The server is there: the request owns a slot that is empty, or the       *)
(* server is dropped.                                                       *)
LEMMA InstallsKeeps ==
  ASSUME MirrorInv, NEW t \in mrTasks, Installs(t)
  PROVE  MirrorInv'
<1> DEFINE no == [req |-> t.req, server |-> 0]
           yes == [req |-> t.req, server |-> t.req]
           half == [mrSlot EXCEPT !.server = t.req]
           new == [mrSlot EXCEPT !.server = t.req, !.session = t.session]
<1>1. /\ ShellInv /\ WireInv /\ ShellTyped /\ OneStartEach /\ HostIsOwn /\ CompanionIsOwn
      /\ t \in StartTasks
  BY DEF MirrorInv, ShellInv, ShellTyped
<1>2. t.req \in Nat \ {0} /\ t.session \in Nat /\ mrSlot \in Slots
  BY <1>1 DEF StartTasks, ShellTyped
<1>3. /\ no \in StartAnswers /\ no.req = t.req /\ no.server = 0
      /\ yes \in StartAnswers /\ yes.req = t.req /\ yes.server = t.req
      /\ new \in Slots
      /\ new = [server |-> t.req, session |-> t.session, owner |-> mrSlot.owner]
  <2>1. /\ no \in StartAnswers /\ no.req = t.req /\ no.server = 0
        /\ yes \in StartAnswers /\ yes.req = t.req /\ yes.server = t.req
    BY <1>2 DEF StartAnswers
  <2>2. new \in Slots /\ new = [server |-> t.req, session |-> t.session, owner |-> mrSlot.owner]
    <3>1. mrSlot = [server |-> mrSlot.server, session |-> mrSlot.session, owner |-> mrSlot.owner]
          /\ mrSlot.server \in Nat /\ mrSlot.owner \in Nat /\ DOMAIN mrSlot = {"server", "session", "owner"}
      BY <1>2 DEF Slots
    <3>2. half = [server |-> t.req, session |-> mrSlot.session, owner |-> mrSlot.owner]
      BY <3>1
    <3>3. new = [half EXCEPT !.session = t.session]
      OBVIOUS
    <3>4. new = [server |-> t.req, session |-> t.session, owner |-> mrSlot.owner]
      <4> HIDE DEF new, half
      <4> QED BY <3>2, <3>3
    <3> HIDE DEF new
    <3> QED BY <1>2, <3>1, <3>4 DEF Slots
  <2> QED BY <2>1, <2>2
<1>4. /\ UNCHANGED <<mrFlag, wireVars, pg, mrRequests>> /\ dc' = dc
      /\ mrTasks' = mrTasks \ {t}
      /\ \/ /\ mrSlot.owner = t.req /\ mrFlag /\ mrSlot' = new
            /\ mrLive' = mrLive \union {t.req} /\ mrAnswers' = mrAnswers \union {yes}
         \/ mrAnswers' = mrAnswers \union {no} /\ UNCHANGED <<mrSlot, mrLive>>
  BY DEF Installs, Owned, browserVars, mirrorBounds, mirrorCounts
<1> HIDE DEF no, yes, new
<1>5. ShellTyped'
  BY <1>1, <1>2, <1>3, <1>4 DEF ShellTyped
<1>6. OneStartEach'
  BY <1>1, <1>3, <1>4 DEF OneStartEach
<1>7. ASSUME mrAnswers' = mrAnswers \union {no}, UNCHANGED <<mrSlot, mrLive>>
      PROVE  HostIsOwn' /\ CompanionIsOwn'
  <2>1. HostIsOwn'
    BY <1>1, <1>3, <1>4, <1>7 DEF HostIsOwn
  <2>2. CompanionIsOwn'
    BY <1>1, <1>4, <1>7 DEF CompanionIsOwn
  <2> QED BY <2>1, <2>2
<1>8. ASSUME mrSlot.owner = t.req, mrFlag, mrSlot' = new,
             mrLive' = mrLive \union {t.req}, mrAnswers' = mrAnswers \union {yes}
      PROVE  HostIsOwn' /\ CompanionIsOwn'
  <2>1. mrSlot.server = 0 /\ mrLive = {}
    BY <1>1, <1>8 DEF HostIsOwn, CompanionIsOwn, ShellTyped
  <2>2. ~pg.active
    BY <1>1, <1>8 DEF HostIsOwn, CompanionIsOwn
  <2>3. new.server = t.req /\ new.owner = t.req
    BY <1>3, <1>8
  <2>4. CompanionIsOwn'
    BY <1>3, <1>4, <1>8, <2>1, <2>2, <2>3 DEF CompanionIsOwn
  <2>5. \A v \in mrTasks' : v.req # t.req
    BY <1>1, <1>4 DEF OneStartEach
  <2>6. ASSUME NEW b \in mrAnswers', b.req = pg.host, b.server # 0
        PROVE  new = [server |-> b.server, session |-> pg.session, owner |-> pg.host]
    <3>1. CASE b = yes
      BY <1>1, <1>3, <1>8, <2>6, <3>1 DEF HostIsOwn
    <3>2. CASE b \in mrAnswers
      BY <1>1, <1>8, <2>6, <3>2 DEF HostIsOwn, OneStartEach
    <3> QED BY <1>8, <2>6, <3>1, <3>2
  <2>7. HostIsOwn'
    BY <1>1, <1>3, <1>4, <1>8, <2>2, <2>3, <2>5, <2>6 DEF HostIsOwn
  <2> QED BY <2>4, <2>7
<1>9. WireInv'
  BY <1>1, <1>4, WireEnds DEF WireInv
<1> QED BY <1>4, <1>5, <1>6, <1>7, <1>8, <1>9 DEF MirrorInv, ShellInv

(* The lease ends, or the server notices that the browser has gone.         *)
LEMMA ShellLosesKeeps ==
  ASSUME MirrorInv, LeaseEnds \/ ConnectionEnds
  PROVE  MirrorInv'
<1>1. ShellInv /\ WireInv
  BY DEF MirrorInv
<1>2. CASE LeaseEnds
  <2>1. /\ Stops /\ UNCHANGED <<mrFlag, mrSlot, mrTasks, mrAnswers, pg, mrRequests>> /\ dc' = dc
    BY <1>2 DEF LeaseEnds, browserVars, mirrorCounts
  <2>2. mrLive' = {} /\ (UNCHANGED wireVars \/ Closes(1001))
    BY <1>1, <2>1, StopsIs
  <2>3. ShellTyped' /\ OneStartEach'
    BY <1>1, <2>1, <2>2 DEF ShellInv, ShellTyped, OneStartEach
  <2>4. HostIsOwn'
    BY <1>1, <2>1 DEF ShellInv, HostIsOwn
  <2>5. CompanionIsOwn'
    BY <1>1, <2>1, <2>2 DEF ShellInv, CompanionIsOwn
  <2>6. WireInv'
    BY <1>1, <2>1, <2>2, WireEnds
  <2> QED BY <2>3, <2>4, <2>5, <2>6 DEF MirrorInv, ShellInv
<1>3. CASE ConnectionEnds
  <2>1. /\ Closes(1006) /\ UNCHANGED <<shellVars, mrAnswers, pg, mrRequests>> /\ dc' = dc
    BY <1>3 DEF ConnectionEnds, browserVars, mirrorBounds, mirrorCounts
  <2>2. ShellInv'
    BY <1>1, <2>1, ShellWaits DEF ShellInv, ShellTyped
  <2>3. WireInv'
    BY <1>1, <2>1, WireEnds
  <2> QED BY <2>2, <2>3 DEF MirrorInv
<1> QED BY <1>2, <1>3

----------------------------------------------------------------------------
(* The page speaks, or hears.                                               *)
SameHost(p) ==
  /\ p \in Pages /\ p.session = pg.session /\ p.host = pg.host /\ p.active = pg.active
  /\ p.gen = pg.gen

(* A frame is sent to the client of the page, or to one it has just heard   *)
(* of.                                                                      *)
LEMMA SentKeeps ==
  ASSUME MirrorInv, NEW c \in Nat, NEW f \in MrFrames, NEW p, SameHost(p), Sent(c, f, p),
         UNCHANGED <<shellVars, mrConn, mrAnswers, mrRequests>>, dc' = dc,
         p.client \in {0, c}, ~pg.active => c = 0,
         f.kind \in Notices \/ (p.client = c /\ (f.kind = "snapshot" => f.n \in {0, pg.gen})),
         \/ mrEvents' = mrEvents /\ c = pg.client
         \/ mrEvents # <<>> /\ Head(mrEvents) = Up(c) /\ mrEvents' = Tail(mrEvents)
  PROVE  MirrorInv'
<1>1. ShellInv /\ WireInv /\ pg \in Pages /\ pg.client \in Nat /\ WireTyped
      /\ mrConn \in Nat /\ mrEvents \in Seq(MrEvents) /\ mrIn \in Seq(MrFrames)
      /\ UpOnce(mrEvents, dc.sock)
  BY DEF MirrorInv, ShellInv, ShellTyped, Pages, WireInv, WireTyped
<1> DEFINE z == [p EXCEPT !.client = 0]
<1>2. z \in Pages /\ SameHost(z) /\ z.client = 0
  BY DEF SameHost, Pages
<1>3. \/ c # 0 /\ mrConn = c /\ pg' = p /\ mrIn' = Delivered(mrConn, f)
      \/ pg' = z /\ mrIn' = mrIn
  BY DEF Sent
<1> HIDE DEF z
<1>4. SameHost(pg') /\ pg'.client \in {0, c} /\ (pg'.client = c \/ pg' = z \/ f.kind \in Notices)
  BY <1>2, <1>3
<1>5. ShellInv'
  BY <1>1, <1>4, ShellRests DEF SameHost
<1>6. /\ mrEvents' \in Seq(MrEvents) /\ UpOnce(mrEvents', dc.sock)
      /\ Inside(mrEvents') \subseteq Inside(mrEvents)
      /\ c = dc.sock /\ c # pg.client =>
           Up(dc.sock) \in Inside(mrEvents) /\ Up(dc.sock) \notin Inside(mrEvents')
  <2>1. CASE mrEvents' = mrEvents /\ c = pg.client
    BY <1>1, <2>1
  <2>2. CASE mrEvents # <<>> /\ Head(mrEvents) = Up(c) /\ mrEvents' = Tail(mrEvents)
    <3>1. /\ Tail(mrEvents) \in Seq(MrEvents) /\ Head(mrEvents) \in Inside(mrEvents)
          /\ Inside(Tail(mrEvents)) \subseteq Inside(mrEvents)
          /\ \A d : UpOnce(mrEvents, d) => UpOnce(Tail(mrEvents), d)
          /\ \A d : UpOnce(mrEvents, d) /\ Head(mrEvents) = Up(d) =>
                    Up(d) \notin Inside(Tail(mrEvents))
      BY <1>1, <2>2, TailIs
    <3> QED BY <1>1, <2>2, <3>1
  <2> QED BY <2>1, <2>2
<1>7. /\ mrIn' \in Seq(MrFrames) /\ (dc.sock = 0 => mrIn' = <<>>)
      /\ \A g \in Inside(mrIn') :
           \/ g \in Inside(mrIn)
           \/ g = f /\ dc.sock = c /\ c # 0 /\ pg' = p
  <2>1. CASE c # 0 /\ mrConn = c /\ pg' = p /\ mrIn' = Delivered(mrConn, f)
    <3>1. /\ Delivered(c, f) \in Seq(MrFrames) /\ (dc.sock = 0 => Delivered(c, f) = <<>>)
          /\ \A g \in Inside(Delivered(c, f)) : g \in Inside(mrIn) \/ (g = f /\ dc.sock = c)
      BY <1>1, DeliveredIs
    <3> QED BY <2>1, <3>1
  <2>2. CASE pg' = z /\ mrIn' = mrIn
    BY <1>1, <2>2 DEF WireInv
  <2> QED BY <1>3, <2>1, <2>2
<1>8. \A g \in Inside(mrIn') :
           \/ g \in Inside(mrIn) \/ g.kind \in Notices
           \/ /\ g.kind = "snapshot" => g.n \in {0, pg'.gen}
              /\ dc.sock # 0 /\ dc.sock = pg'.client
  BY <1>7 DEF SameHost
<1>9. dc.sock # 0 /\ dc.sock = pg'.client =>
           \/ dc.sock = pg.client /\ pg'.gen = pg.gen
           \/ Up(dc.sock) \in Inside(mrEvents) /\ Up(dc.sock) \notin Inside(mrEvents')
  BY <1>4, <1>6 DEF SameHost
<1>10. WireInv'
  BY <1>1, <1>6, <1>7, <1>8, <1>9, DocRests
<1> QED BY <1>5, <1>10 DEF MirrorInv

(* The first snapshot, the report, and a media connection that fails.       *)
LEMMA PageSpeaksKeeps ==
  ASSUME MirrorInv, Renders \/ HostPeerFails \/ LeaveBegins
  PROVE  MirrorInv'
<1> DEFINE snapshot == Frame("snapshot", pg.gen)
           report == Frame("report", pg.gen)
           reconnect == Frame("reconnect", 0)
           shown == [pg EXCEPT !.shown = TRUE]
           gone == [pg EXCEPT !.client = 0]
           ending == [pg EXCEPT !.finishing = TRUE]
<1>1. pg \in Pages /\ pg.client \in Nat /\ pg.gen \in Nat /\ (~pg.active => pg.client = 0)
  BY DEF MirrorInv, ShellInv, ShellTyped, HostIsOwn, Pages
<1>2. /\ snapshot \in MrFrames /\ snapshot.n = pg.gen /\ report \in MrFrames
      /\ report.kind = "report" /\ reconnect \in MrFrames /\ reconnect.kind \in Notices
  BY <1>1 DEF Frame, MrFrames, Notices
<1>3. /\ SameHost(shown) /\ shown.client = pg.client /\ SameHost(gone) /\ gone.client = 0
      /\ SameHost(ending) /\ ending.client = pg.client
  BY <1>1 DEF SameHost, Pages
<1>4. /\ \/ Sent(pg.client, snapshot, shown) \/ Sent(pg.client, report, ending)
         \/ Sent(pg.client, reconnect, gone)
      /\ UNCHANGED <<shellVars, mrConn, mrEvents, mrAnswers, mrRequests>> /\ dc' = dc
  BY DEF Renders, HostPeerFails, LeaveBegins, browserVars, mirrorBounds, mirrorCounts
<1> HIDE DEF snapshot, report, reconnect, shown, gone, ending
<1>5. CASE Sent(pg.client, snapshot, shown)
  BY <1>1, <1>2, <1>3, <1>4, <1>5, SentKeeps
<1>6. CASE Sent(pg.client, report, ending)
  BY <1>1, <1>2, <1>3, <1>4, <1>6, SentKeeps
<1>7. CASE Sent(pg.client, reconnect, gone)
  BY <1>1, <1>2, <1>3, <1>4, <1>7, SentKeeps
<1> QED BY <1>4, <1>5, <1>6, <1>7

(* A connection comes up, is told by its number, or goes down.              *)
LEMMA PageHearsKeeps ==
  ASSUME MirrorInv, PageHears
  PROVE  MirrorInv'
<1> DEFINE e == Head(mrEvents)
           f == Frame("snapshot", Shown)
           p == [pg EXCEPT !.client = e.conn]
           q == [pg EXCEPT !.client = IF @ = e.conn THEN 0 ELSE @]
<1>1. /\ ShellInv /\ WireInv /\ pg \in Pages /\ pg.client \in Nat /\ (~pg.active => pg.client = 0)
      /\ mrConn \in Nat /\ mrEvents \in Seq(MrEvents) /\ mrIn \in Seq(MrFrames)
      /\ UpOnce(mrEvents, dc.sock) /\ Shown \in {0, pg.gen} /\ Shown \in Nat
      /\ (dc.sock = 0 => mrIn = <<>>)
  BY DEF MirrorInv, ShellInv, ShellTyped, HostIsOwn, Pages, WireInv, WireTyped, Shown
<1>2. /\ mrEvents # <<>> /\ mrEvents' = Tail(mrEvents) /\ dc' = dc
      /\ UNCHANGED <<shellVars, mrConn, mrAnswers, mrRequests>>
      /\ \/ pg.active /\ e.kind = "up" /\ pg' = p /\ mrIn' = mrIn
         \/ pg.active /\ e.kind = "up" /\ Sent(e.conn, f, p)
         \/ pg' = q /\ mrIn' = mrIn
         \/ pg' = pg /\ mrIn' = mrIn
  BY DEF PageHears, browserVars, mirrorBounds, mirrorCounts
<1>3. /\ e \in MrEvents /\ mrEvents' \in Seq(MrEvents) /\ UpOnce(mrEvents', dc.sock)
      /\ Inside(mrEvents') \subseteq Inside(mrEvents) /\ e \in Inside(mrEvents)
      /\ e = Up(dc.sock) => Up(dc.sock) \notin Inside(mrEvents')
  BY <1>1, <1>2, TailIs
<1>4. f \in MrFrames /\ f.n = Shown
  BY <1>1 DEF Frame, MrFrames
<1> HIDE DEF e, f
<1>5. e.conn \in Nat /\ (e.kind = "up" => e = Up(e.conn))
  BY <1>3 DEF MrEvents, Up
<1>6. SameHost(p) /\ p.client = e.conn /\ SameHost(q) /\ q.client \in {0, pg.client}
  BY <1>1, <1>5 DEF SameHost, Pages
<1> HIDE DEF p, q
<1>7. CASE pg.active /\ e.kind = "up" /\ Sent(e.conn, f, p)
  BY <1>1, <1>2, <1>4, <1>5, <1>6, <1>7, SentKeeps DEF e
<1>8. CASE pg.active /\ e.kind = "up" /\ pg' = p /\ mrIn' = mrIn
  <2>1. ShellInv'
    BY <1>1, <1>2, <1>6, <1>8, ShellRests DEF SameHost
  <2>2. dc.sock = pg'.client => Up(dc.sock) \in Inside(mrEvents) /\ Up(dc.sock) \notin Inside(mrEvents')
    BY <1>3, <1>5, <1>6, <1>8
  <2>3. WireInv'
    BY <1>1, <1>2, <1>3, <1>8, <2>2, DocRests
  <2> QED BY <2>1, <2>3 DEF MirrorInv
<1>9. CASE pg' \in {pg, q} /\ mrIn' = mrIn
  <2>0. SameHost(pg') /\ pg'.client \in {0, pg.client}
    BY <1>1, <1>6, <1>9 DEF SameHost
  <2>1. ShellInv'
    BY <1>1, <1>2, <2>0, ShellRests DEF SameHost
  <2>2. WireInv'
    BY <1>1, <1>2, <1>3, <1>9, <2>0, DocRests DEF SameHost
  <2> QED BY <2>1, <2>2 DEF MirrorInv
<1> QED BY <1>2, <1>7, <1>8, <1>9

----------------------------------------------------------------------------
(* The document.                                                            *)
SafeCapture(x) ==
  /\ x \in Docs
  /\ x.held # 0 => x.held = x.cur
  /\ x.status = "connected" => x.sock # 0
  /\ x.status = "disconnected" => x.sock = 0
  /\ x.held # 0 => ~Stopped(x) /\ (x.status = "connected" \/ x.timer)

(* The document of the invariant is one.                                    *)
LEMMA DocIsCaptureSafe ==
  ASSUME WireInv PROVE SafeCapture(dc)
BY DEF WireInv, WireTyped, DocIsSafe, CameraHasReason, SafeCapture

(* A permission survives a move only in the scope it was asked in.          *)
LEMMA BecomesIs ==
  ASSUME WireInv, NEW y, SafeCapture(y), Becomes(y), y.ask \in {0, dc.ask}
  PROVE  dc' \in Docs /\ DocIsSafe' /\ dc'.sock = y.sock /\ dc'.status = y.status /\ dc'.cur = y.cur
<1> DEFINE z == [y EXCEPT !.ask = 0]
<1>1. /\ z \in Docs /\ z.ask = 0 /\ z.sock = y.sock /\ z.status = y.status /\ z.cur = y.cur
      /\ z.held = y.held /\ z.timer = y.timer
  BY DEF SafeCapture, Docs
<1>2. \/ dc' = z
      \/ dc' = y /\ Live(y) /\ dc.cur = y.cur
  BY DEF Becomes, Scoped
<1> HIDE DEF z
<1>3. dc.ask # 0 => dc.ask = dc.cur
  BY DEF WireInv, DocIsSafe
<1>4. CASE dc' = z
  BY <1>1, <1>4 DEF SafeCapture, DocIsSafe, CameraHasReason, Stopped
<1>5. CASE dc' = y /\ Live(y) /\ dc.cur = y.cur
  BY <1>3, <1>5 DEF SafeCapture, DocIsSafe, CameraHasReason, Stopped, Live
<1> QED BY <1>2, <1>4, <1>5

(* The document moves on: it keeps its socket or leaves it, and shows what   *)
(* it showed or what has come to it.                                        *)
LEMMA DocMoves ==
  ASSUME MirrorInv, UNCHANGED <<shellVars, mrConn, mrEvents, mrAnswers, pg, mrRequests>>,
         dc' \in Docs, DocIsSafe', dc'.sock \in {0, dc.sock}, mrIn' \in Seq(MrFrames),
         Inside(mrIn') \subseteq Inside(mrIn), dc'.sock = 0 => mrIn' = <<>>,
         dc'.status = "connected" =>
           \/ dc.status = "connected" /\ dc'.cur = dc.cur
           \/ \E f \in Inside(mrIn) :
                \/ f.kind = "snapshot" /\ dc'.cur = f.n
                \/ f.kind = "report" /\ dc'.cur = 0
  PROVE  MirrorInv'
<1>1. ShellInv /\ WireInv /\ WireTyped /\ mrEvents \in Seq(MrEvents)
  BY DEF MirrorInv, WireInv, WireTyped
<1>2. ShellInv'
  BY <1>1, ShellWaits DEF ShellInv, ShellTyped
<1>3. WireTyped'
  BY <1>1 DEF WireTyped
<1>4. SocketIsFresh'
  BY <1>1 DEF WireInv, SocketIsFresh, Notices
<1>5. SocketIsOwn'
  BY <1>1 DEF WireInv, SocketIsOwn
<1>6. UpOnce(mrEvents', dc'.sock)
  <2>1. UpOnce(mrEvents, dc.sock)
    BY <1>1 DEF WireInv
  <2>2. \A i \in DOMAIN mrEvents : mrEvents[i] \in MrEvents
    BY <1>1
  <2>3. Up(0) \notin MrEvents
    BY DEF Up, MrEvents
  <2> QED BY <2>1, <2>2, <2>3 DEF UpOnce
<1> QED BY <1>2, <1>3, <1>4, <1>5, <1>6 DEF MirrorInv, WireInv

(* The operators on a document.                                             *)
LEMMA ReleasedIs ==
  ASSUME NEW x \in Docs
  PROVE  /\ Released(x) \in Docs /\ Released(x).held = 0 /\ Released(x).sock = x.sock
         /\ Released(x).status = x.status /\ Released(x).cur = x.cur /\ Released(x).ask = x.ask
         /\ Released(x).done = x.done
BY DEF Released, Docs

LEMMA ConnectingIs ==
  ASSUME NEW x \in Docs, x.held # 0 => x.held = x.cur /\ x.timer
  PROVE  /\ SafeCapture(Connecting(x)) /\ Connecting(x).ask = x.ask /\ Connecting(x).sock = 0
         /\ Connecting(x).status = "connecting"
<1> DEFINE y == Connecting(x)
<1>1. /\ y \in Docs /\ y.ask = x.ask /\ y.sock = 0 /\ y.status = "connecting" /\ y.held = x.held
      /\ y.timer = x.timer /\ y.cur = x.cur
  BY DEF Connecting, Docs
<1> HIDE DEF y
<1>2. SafeCapture(y)
  BY <1>1 DEF SafeCapture, Stopped
<1> QED BY <1>1, <1>2 DEF y

LEMMA DroppedIs ==
  ASSUME NEW x, SafeCapture(x), NEW code \in Nat, NEW y,
         y = Dropped(x, code, TRUE) \/ y = Dropped(x, code, FALSE)
  PROVE  /\ SafeCapture(y) /\ y.ask = x.ask /\ y.sock = 0
         /\ y.status \in {"moved", "disconnected"}
<1> DEFINE st == IF code = 4001 THEN "moved" ELSE "disconnected"
<1>0. x \in Docs
  BY DEF SafeCapture
<1>1. Suspended(x) \in Docs /\ Suspended(x).held = x.held /\ Suspended(x).cur = x.cur
      /\ Suspended(x).ask = x.ask /\ (x.held # 0 => Suspended(x).timer)
  <2> DEFINE v == Suspended(x)
             on == x.held # 0
  <2>1. v = [x EXCEPT !.timer = on] /\ on \in BOOLEAN
    BY DEF Suspended
  <2> HIDE DEF on, v
  <2>2. v \in Docs /\ v.held = x.held /\ v.cur = x.cur /\ v.ask = x.ask /\ v.timer = on
    BY <1>0, <2>1 DEF Docs
  <2> QED BY <2>2 DEF v, on
<1>2. PICK w \in {Released(x), Suspended(x)} :
        (code = 4001 => w = Released(x)) /\ y = [w EXCEPT !.sock = 0, !.status = st]
  <2>1. CASE code = 4001
    BY <2>1 DEF Dropped
  <2>2. CASE code # 4001
    BY <2>2 DEF Dropped
  <2> QED BY <2>1, <2>2
<1>3. /\ w \in Docs /\ w.ask = x.ask /\ w.cur = x.cur /\ w.held \in {0, x.held}
      /\ (w.held # 0 => w.timer) /\ (code = 4001 => w.held = 0)
  <2>1. CASE w = Released(x)
    BY <1>0, <2>1, ReleasedIs
  <2>2. CASE w = Suspended(x) /\ code # 4001
    <3>1. x.held \in Nat
      BY <1>0 DEF Docs
    <3> QED BY <1>1, <2>2, <3>1
  <2> QED BY <1>2, <2>1, <2>2
<1>4. st \in {"moved", "disconnected"} /\ (st = "moved" => code = 4001)
  OBVIOUS
<1> HIDE DEF st
<1>5. /\ y \in Docs /\ y.ask = x.ask /\ y.cur = x.cur /\ y.held = w.held /\ y.timer = w.timer
      /\ y.sock = 0 /\ y.status \in {"moved", "disconnected"} /\ (y.status = "moved" => code = 4001)
  <2>1. /\ y.ask = w.ask /\ y.cur = w.cur /\ y.held = w.held /\ y.timer = w.timer
        /\ y.sock = 0 /\ y.status = st /\ w \in Docs
    BY <1>2, <1>3 DEF Docs
  <2>2. y \in Docs
    <3> DEFINE v == [w EXCEPT !.sock = 0]
    <3>1. v \in Docs /\ y = [v EXCEPT !.status = st]
      BY <1>2, <1>3 DEF Docs
    <3> HIDE DEF v
    <3> QED BY <1>4, <3>1 DEF Docs
  <2> QED BY <1>3, <1>4, <2>1, <2>2
<1>6. SafeCapture(y)
  BY <1>3, <1>5 DEF SafeCapture, Stopped
<1> QED BY <1>3, <1>5, <1>6

(* A snapshot is followed.                                                  *)
LEMMA FollowedIs ==
  ASSUME NEW x, SafeCapture(x), x.sock # 0, NEW gen \in Nat
  PROVE  /\ SafeCapture(Followed(x, gen)) /\ Followed(x, gen).ask = x.ask
         /\ Followed(x, gen).sock = x.sock /\ Followed(x, gen).status = "connected"
         /\ Followed(x, gen).cur = gen
<1> DEFINE w == IF gen = x.cur THEN [x EXCEPT !.timer = FALSE] ELSE Released(x)
           y == Followed(x, gen)
<1>0. x \in Docs
  BY DEF SafeCapture
<1>1. /\ w \in Docs /\ w.ask = x.ask /\ w.sock = x.sock
      /\ w.held = 0 \/ (w.held = x.held /\ gen = x.cur)
  <2>1. CASE gen = x.cur
    BY <1>0, <2>1 DEF Docs
  <2>2. CASE gen # x.cur
    BY <1>0, <2>2, ReleasedIs
  <2> QED BY <2>1, <2>2
<1>2. y = [w EXCEPT !.cur = gen, !.done = 0, !.status = "connected"]
  BY DEF Followed
<1> HIDE DEF w, y
<1>3. /\ y \in Docs /\ y.ask = x.ask /\ y.sock = x.sock /\ y.held = w.held /\ y.cur = gen
      /\ y.status = "connected"
  BY <1>1, <1>2 DEF Docs
<1>4. SafeCapture(y)
  BY <1>1, <1>3 DEF SafeCapture, Stopped
<1> QED BY <1>3, <1>4 DEF y

(* A snapshot is followed, unless its session has had its report; whatever   *)
(* else comes ends the socket, or is the report.                            *)
LEMMA TakenIs ==
  ASSUME NEW x, SafeCapture(x), x.sock # 0, NEW f \in MrFrames
  PROVE  /\ SafeCapture(Taken(x, f)) /\ Taken(x, f).ask = x.ask
         /\ Taken(x, f).sock \in {0, x.sock}
         /\ Taken(x, f).status = "connected" =>
              \/ x.status = "connected" /\ Taken(x, f).cur = x.cur
              \/ f.kind = "snapshot" /\ Taken(x, f).cur = f.n
              \/ f.kind = "report" /\ Taken(x, f).cur = 0
<1>1. /\ f.n \in Nat /\ f.kind \in {"snapshot", "report", "reconnect", "close"}
      /\ x \in Docs /\ x.done \in Nat
  BY DEF MrFrames, SafeCapture, Docs
<1>2. CASE f.kind = "snapshot" /\ f.n = 0
  <2>1. Taken(x, f) = Dropped(x, 1000, TRUE)
    BY <1>2 DEF Taken
  <2> DEFINE code == 1000
  <2>2. code \in Nat /\ Taken(x, f) = Dropped(x, code, TRUE)
    BY <2>1
  <2> HIDE DEF code
  <2> QED BY <2>2, DroppedIs
<1>3. CASE f.kind = "snapshot" /\ f.n = x.done /\ f.n # 0
  <2>1. Taken(x, f) = x
    BY <1>3 DEF Taken
  <2> QED BY <2>1
<1>4. CASE f.kind = "snapshot" /\ f.n \notin {0, x.done}
  <2>1. Taken(x, f) = Followed(x, f.n)
    BY <1>4 DEF Taken
  <2> QED BY <1>1, <1>4, <2>1, FollowedIs
<1>5. CASE f.kind = "report"
  <2> DEFINE w == Released(x)
             y == [w EXCEPT !.cur = 0, !.done = f.n, !.status = "connected"]
  <2>1. Taken(x, f) = y
    BY <1>5 DEF Taken
  <2>2. w \in Docs /\ w.held = 0 /\ w.sock = x.sock /\ w.ask = x.ask
    BY <1>1, ReleasedIs
  <2> HIDE DEF w
  <2>3. /\ y \in Docs /\ y.held = 0 /\ y.sock = x.sock /\ y.ask = x.ask /\ y.cur = 0
        /\ y.status = "connected"
    BY <1>1, <2>2 DEF Docs
  <2> HIDE DEF y
  <2>4. SafeCapture(y)
    BY <2>3 DEF SafeCapture
  <2> QED BY <1>5, <2>1, <2>3, <2>4
<1>6. CASE f.kind \in {"reconnect", "close"}
  <2>1. Taken(x, f) = Dropped(x, f.n, FALSE)
    BY <1>6 DEF Taken
  <2> QED BY <1>1, <2>1, DroppedIs
<1> QED BY <1>1, <1>2, <1>3, <1>4, <1>5, <1>6

(* The document takes the next frame.                                       *)
LEMMA TakesFrameKeeps ==
  ASSUME MirrorInv, TakesFrame
  PROVE  MirrorInv'
<1> DEFINE f == Head(mrIn)
           y == Taken(dc, f)
<1>1. /\ mrIn # <<>> /\ Becomes(y) /\ mrIn' = IF y.sock = 0 THEN <<>> ELSE Tail(mrIn)
      /\ UNCHANGED <<shellVars, mrConn, mrEvents, mrAnswers, pg, mrRequests>>
  BY DEF TakesFrame, mirrorBounds, mirrorCounts
<1>2. WireInv /\ mrIn \in Seq(MrFrames) /\ dc.sock # 0
  BY <1>1 DEF MirrorInv, WireInv, WireTyped
<1>3. /\ f \in MrFrames /\ Tail(mrIn) \in Seq(MrFrames) /\ f \in Inside(mrIn)
      /\ Inside(Tail(mrIn)) \subseteq Inside(mrIn)
  BY <1>1, <1>2, TailIs
<1>4. SafeCapture(dc)
  BY <1>2, DocIsCaptureSafe
<1> HIDE DEF f
<1>5. /\ SafeCapture(y) /\ y.ask = dc.ask /\ y.sock \in {0, dc.sock}
      /\ y.status = "connected" =>
              \/ dc.status = "connected" /\ y.cur = dc.cur
              \/ f.kind = "snapshot" /\ y.cur = f.n
              \/ f.kind = "report" /\ y.cur = 0
  BY <1>2, <1>3, <1>4, TakenIs
<1> HIDE DEF y
<1>6. /\ dc' \in Docs /\ DocIsSafe' /\ dc'.sock = y.sock /\ dc'.status = y.status
      /\ dc'.cur = y.cur
  BY <1>1, <1>2, <1>5, BecomesIs
<1>7. /\ mrIn' \in Seq(MrFrames) /\ Inside(mrIn') \subseteq Inside(mrIn)
      /\ (dc'.sock = 0 => mrIn' = <<>>)
  BY <1>1, <1>3, <1>6 DEF Inside
<1> QED BY <1>1, <1>3, <1>5, <1>6, <1>7, DocMoves

(* The document goes to another state by itself, without a socket.           *)
LEMMA LeavesSocket ==
  ASSUME MirrorInv, UNCHANGED <<shellVars, mrConn, mrEvents, mrAnswers, pg, mrRequests>>,
         NEW y, SafeCapture(y), Becomes(y), y.ask \in {0, dc.ask}, y.sock = 0,
         mrIn' = <<>>
  PROVE  MirrorInv'
<1>1. WireInv
  BY DEF MirrorInv
<1>2. /\ dc' \in Docs /\ DocIsSafe' /\ dc'.sock = 0
  BY <1>1, BecomesIs
<1>3. dc'.status # "connected"
  BY <1>2 DEF DocIsSafe
<1>4. mrIn' \in Seq(MrFrames) /\ Inside(mrIn') \subseteq Inside(mrIn)
  BY DEF Inside
<1> QED BY <1>2, <1>3, <1>4, DocMoves

(* Opening, retrying, being refused, a silent wire, a broken one, and       *)
(* Disconnect.                                                              *)
LEMMA DocLeavesKeeps ==
  ASSUME MirrorInv, \/ OpensDoc \/ RetryFires \/ SocketRefused \/ HeartbeatEnds \/ LosesSocket
                    \/ Disconnects
  PROVE  MirrorInv'
<1>1. WireInv /\ SafeCapture(dc) /\ dc \in Docs /\ (dc.sock = 0 => mrIn = <<>>)
  BY DocIsCaptureSafe DEF MirrorInv, WireInv, WireTyped
<1>2. UNCHANGED <<shellVars, mrConn, mrEvents, mrAnswers, pg, mrRequests>>
  BY DEF OpensDoc, RetryFires, SocketRefused, HeartbeatEnds, LosesSocket, Disconnects,
         mirrorBounds, mirrorCounts, wireVars
<1>3. CASE OpensDoc
  <2> DEFINE x == [DocAtRest EXCEPT !.cur = dc.cur, !.done = dc.done]
  <2>1. x \in Docs /\ x.held = 0 /\ x.ask = 0
    BY <1>1 DEF DocAtRest, Docs
  <2>2. dc.sock = 0 /\ Becomes(Connecting(x)) /\ mrIn' = mrIn
    BY <1>3 DEF OpensDoc, wireVars
  <2> HIDE DEF x
  <2>3. SafeCapture(Connecting(x)) /\ Connecting(x).ask = 0 /\ Connecting(x).sock = 0
    BY <2>1, ConnectingIs
  <2> QED BY <1>1, <1>2, <2>2, <2>3, LeavesSocket
<1>4. CASE RetryFires
  <2>1. dc.status = "disconnected" /\ Becomes(Connecting(dc)) /\ mrIn' = mrIn
    BY <1>4 DEF RetryFires, wireVars
  <2>2. dc.sock = 0 /\ (dc.held # 0 => dc.held = dc.cur /\ dc.timer)
    BY <1>1, <2>1 DEF SafeCapture
  <2>3. SafeCapture(Connecting(dc)) /\ Connecting(dc).ask = dc.ask /\ Connecting(dc).sock = 0
    BY <1>1, <2>2, ConnectingIs
  <2> QED BY <1>1, <1>2, <2>1, <2>2, <2>3, LeavesSocket
<1>5. CASE SocketRefused \/ HeartbeatEnds \/ LosesSocket
  <2> DEFINE code == 1006
             y == Dropped(dc, code, FALSE)
  <2>1. Becomes(y) /\ mrIn' = <<>> /\ code \in Nat
    <3>1. Becomes(y)
      BY <1>5, Zenon DEF SocketRefused, HeartbeatEnds, LosesSocket
    <3> HIDE DEF y
    <3>2. CASE LosesSocket
      BY <3>1, <3>2 DEF LosesSocket
    <3>3. CASE SocketRefused \/ HeartbeatEnds
      <4>1. mrIn = <<>> /\ UNCHANGED wireVars
        BY <1>1, <3>3, Zenon DEF SocketRefused, HeartbeatEnds
      <4> QED BY <3>1, <4>1 DEF wireVars
    <3> QED BY <1>5, <3>2, <3>3
  <2> HIDE DEF code
  <2>2. SafeCapture(y) /\ y.ask = dc.ask /\ y.sock = 0
    BY <1>1, <2>1, DroppedIs
  <2> HIDE DEF y
  <2> QED BY <1>1, <1>2, <2>1, <2>2, LeavesSocket
<1>6. CASE Disconnects
  <2> DEFINE y == [DocAtRest EXCEPT !.status = "pairing"]
  <2>1. Becomes(y) /\ mrIn' = <<>>
    BY <1>6 DEF Disconnects
  <2>2. y \in Docs /\ y.held = 0 /\ y.ask = 0 /\ y.sock = 0 /\ y.status = "pairing"
    BY DEF DocAtRest, Docs
  <2> HIDE DEF y
  <2>3. SafeCapture(y)
    BY <2>2 DEF SafeCapture
  <2> QED BY <1>1, <1>2, <2>1, <2>2, <2>3, LeavesSocket
<1> QED BY <1>3, <1>4, <1>5, <1>6

(* Pairing starts anew, without captures, or was abandoned.                 *)
LEMMA PairsKeeps ==
  ASSUME MirrorInv, Pairs
  PROVE  MirrorInv'
<1>1. /\ dc.sock = 0 /\ UNCHANGED <<shellVars, mrConn, mrEvents, mrAnswers, pg, mrRequests>>
      /\ mrIn' = mrIn /\ (Becomes(Connecting(Released(dc))) \/ UNCHANGED dc)
  BY DEF Pairs, mirrorBounds, mirrorCounts, wireVars
<1>2. WireInv /\ dc \in Docs /\ mrIn = <<>> /\ DocIsSafe
  BY <1>1 DEF MirrorInv, WireInv, WireTyped
<1>3. CASE Becomes(Connecting(Released(dc)))
  <2>1. Released(dc) \in Docs /\ Released(dc).held = 0 /\ Released(dc).ask = dc.ask
    BY <1>2, ReleasedIs
  <2>2. /\ SafeCapture(Connecting(Released(dc))) /\ Connecting(Released(dc)).ask = dc.ask
        /\ Connecting(Released(dc)).sock = 0
    BY <2>1, ConnectingIs
  <2> QED BY <1>1, <1>2, <1>3, <2>2, LeavesSocket
<1>4. CASE UNCHANGED dc
  <2>1. DocIsSafe' /\ mrIn' \in Seq(MrFrames)
    BY <1>1, <1>2, <1>4 DEF DocIsSafe, CameraHasReason, Live, Stopped
  <2> QED BY <1>1, <1>2, <1>4, <2>1, DocMoves
<1> QED BY <1>1, <1>3, <1>4

(* The camera: a permission is asked for, given, and taken back.            *)
LEMMA CameraKeeps ==
  ASSUME MirrorInv, Asks \/ Granted \/ StopsCapture
  PROVE  MirrorInv'
<1>1. /\ WireInv /\ dc \in Docs /\ DocIsSafe /\ mrIn \in Seq(MrFrames)
      /\ (dc.sock = 0 => mrIn = <<>>)
  BY DEF MirrorInv, WireInv, WireTyped
<1>2. UNCHANGED <<shellVars, mrConn, mrEvents, mrAnswers, pg, mrRequests, mrIn>>
  BY DEF Asks, Granted, StopsCapture, mirrorBounds, mirrorCounts, wireVars
<1>3. ASSUME dc' \in Docs, dc'.sock = dc.sock, dc'.status = dc.status, dc'.cur = dc.cur, DocIsSafe'
      PROVE  MirrorInv'
  BY <1>1, <1>2, <1>3, DocMoves
<1>4. CASE Asks
  <2>1. /\ Live(dc) /\ dc.held = 0 /\ dc' = [dc EXCEPT !.ask = dc.cur]
    BY <1>4 DEF Asks
  <2>2. /\ dc' \in Docs /\ dc'.sock = dc.sock /\ dc'.status = dc.status /\ dc'.cur = dc.cur
        /\ dc'.held = 0 /\ dc'.done = dc.done /\ dc'.ask = dc.cur
    BY <1>1, <2>1 DEF Docs
  <2>3. DocIsSafe'
    BY <1>1, <2>1, <2>2 DEF DocIsSafe, CameraHasReason, Live
  <2> QED BY <1>3, <2>2, <2>3
<1>5. CASE Granted
  <2>1. dc.ask # 0 /\ dc' = [dc EXCEPT !.held = dc.ask, !.ask = 0]
    BY <1>5 DEF Granted
  <2>2. /\ dc' \in Docs /\ dc'.sock = dc.sock /\ dc'.status = dc.status /\ dc'.cur = dc.cur
        /\ dc'.held = dc.ask /\ dc'.ask = 0
    BY <1>1, <2>1 DEF Docs
  <2>3. dc.ask = dc.cur /\ dc.status = "connected"
    BY <1>1, <2>1 DEF DocIsSafe, Live
  <2>4. DocIsSafe'
    BY <1>1, <2>2, <2>3 DEF DocIsSafe, CameraHasReason, Stopped
  <2> QED BY <1>3, <2>2, <2>4
<1>6. CASE StopsCapture
  <2>1. dc' = Released(dc)
    BY <1>6 DEF StopsCapture
  <2>2. /\ dc' \in Docs /\ dc'.sock = dc.sock /\ dc'.status = dc.status /\ dc'.cur = dc.cur
        /\ dc'.held = 0 /\ dc'.ask = dc.ask /\ dc'.done = dc.done
    BY <1>1, <2>1, ReleasedIs
  <2>3. DocIsSafe'
    BY <1>1, <2>2 DEF DocIsSafe, CameraHasReason, Live
  <2> QED BY <1>3, <2>2, <2>3
<1> QED BY <1>4, <1>5, <1>6

(* A new socket: nobody knows its number, and the page is told of it.       *)
LEMMA TakesOverIs ==
  ASSUME WireInv, pg.client \in Nat, TakesOver
  PROVE  /\ NewSocket \in Nat /\ NewSocket \notin {0, mrConn, pg.client, dc.sock}
         /\ mrConn' = NewSocket /\ mrEvents' \in Seq(MrEvents)
         /\ UpOnce(mrEvents', NewSocket) /\ UpOnce(mrEvents', dc.sock)
         /\ Up(dc.sock) \in Inside(mrEvents') => Up(dc.sock) \in Inside(mrEvents)
         /\ mrIn' \in Seq(MrFrames) /\ (dc.sock = 0 => mrIn' = <<>>)
         /\ \A f \in Inside(mrIn') : f \in Inside(mrIn) \/ f.kind \in Notices
<1> DEFINE n == NewSocket
           f == Frame("close", 4001)
           said == mrEvents \o Downs
<1>1. /\ FreeSockets # {} /\ mrConn' = n /\ mrEvents' = said \o <<Up(n)>>
      /\ mrIn' = Delivered(mrConn, f)
  BY DEF TakesOver, Up
<1>2. FreeSockets \subseteq 1..MaxSockets /\ MaxSockets \in Nat
  BY MirrorAssumption DEF FreeSockets
<1>3. n \in FreeSockets
  BY <1>1 DEF NewSocket
<1>4. /\ n \in Nat \ {0} /\ n \notin {mrConn, pg.client, dc.sock}
      /\ \A i \in DOMAIN mrEvents : mrEvents[i].conn # n
  BY <1>2, <1>3 DEF FreeSockets
<1>5. WireTyped /\ mrConn \in Nat /\ UpOnce(mrEvents, dc.sock)
  BY DEF WireInv, WireTyped
<1>6. /\ said \in Seq(MrEvents) /\ (Up(n) \in Inside(said) <=> Up(n) \in Inside(mrEvents))
      /\ (Up(dc.sock) \in Inside(said) <=> Up(dc.sock) \in Inside(mrEvents))
      /\ UpOnce(said, dc.sock)
  BY <1>5, DownsAre
<1>7. Up(n) \in MrEvents /\ Up(n) # Up(dc.sock) /\ Up(n) \notin Inside(mrEvents)
  <2>1. Up(n).conn = n /\ Up(dc.sock).conn = dc.sock /\ Up(n) \in MrEvents
    BY <1>4 DEF Up, MrEvents
  <2> QED BY <1>4, <2>1 DEF Inside
<1> HIDE DEF n, said
<1>8. mrEvents' = Append(said, Up(n))
  BY <1>1, <1>6, <1>7, AppendIsConcat
<1>9. /\ mrEvents' \in Seq(MrEvents) /\ Inside(mrEvents') = Inside(said) \union {Up(n)}
      /\ UpOnce(mrEvents', n) /\ UpOnce(mrEvents', dc.sock)
  BY <1>6, <1>7, <1>8, AppendIs
<1>10. f \in MrFrames /\ f.kind \in Notices
  BY DEF Frame, MrFrames, Notices
<1> HIDE DEF f
<1>11. /\ mrIn' \in Seq(MrFrames) /\ (dc.sock = 0 => mrIn' = <<>>)
       /\ \A g \in Inside(mrIn') : g \in Inside(mrIn) \/ g.kind \in Notices
  BY <1>1, <1>5, <1>10, DeliveredIs
<1> QED BY <1>1, <1>4, <1>6, <1>7, <1>9, <1>11 DEF n

(* The socket of the document: nothing has been sent on it yet.             *)
LEMMA SocketOpensKeeps ==
  ASSUME MirrorInv, SocketOpens
  PROVE  MirrorInv'
<1>1. /\ dc.status = "connecting" /\ dc.sock = 0 /\ TakesOver
      /\ dc' = [dc EXCEPT !.sock = NewSocket]
      /\ UNCHANGED <<shellVars, mrAnswers, pg, mrRequests>>
  BY DEF SocketOpens, mirrorBounds, mirrorCounts
<1>2. ShellInv /\ WireInv /\ pg.client \in Nat /\ dc \in Docs /\ DocIsSafe
  BY DEF MirrorInv, ShellInv, ShellTyped, Pages, WireInv, WireTyped
<1>3. /\ NewSocket \in Nat /\ NewSocket \notin {0, pg.client} /\ mrConn' = NewSocket
      /\ mrEvents' \in Seq(MrEvents) /\ UpOnce(mrEvents', NewSocket)
      /\ mrIn' \in Seq(MrFrames) /\ mrIn' = <<>>
  BY <1>1, <1>2, TakesOverIs
<1>4. /\ dc' \in Docs /\ dc'.sock = NewSocket /\ dc'.status = "connecting" /\ dc'.held = dc.held
      /\ dc'.cur = dc.cur /\ dc'.ask = dc.ask /\ dc'.timer = dc.timer /\ dc'.done = dc.done
  BY <1>1, <1>2, <1>3 DEF Docs
<1>5. ShellInv'
  BY <1>1, <1>2, ShellWaits DEF ShellInv, ShellTyped
<1>6. WireTyped' /\ Inside(mrIn') = {}
  BY <1>3, <1>4 DEF WireTyped, Inside
<1>7. DocIsSafe'
  BY <1>1, <1>2, <1>4 DEF DocIsSafe, CameraHasReason, Live, Stopped
<1>8. SocketIsFresh' /\ SocketIsOwn'
  BY <1>1, <1>3, <1>4, <1>6 DEF SocketIsFresh, SocketIsOwn
<1> QED BY <1>3, <1>4, <1>5, <1>6, <1>7, <1>8 DEF MirrorInv, WireInv

(* The socket of another document: this one is told to go.                  *)
LEMMA OtherDocumentKeeps ==
  ASSUME MirrorInv, OtherDocument
  PROVE  MirrorInv'
<1>1. TakesOver /\ dc' = dc /\ UNCHANGED <<shellVars, mrAnswers, pg, mrRequests>>
  BY DEF OtherDocument, browserVars
<1>2. ShellInv /\ WireInv /\ pg.client \in Nat
  BY DEF MirrorInv, ShellInv, ShellTyped, Pages
<1>3. ShellInv'
  BY <1>1, <1>2, ShellWaits DEF ShellInv, ShellTyped
<1>4. /\ mrConn' \in Nat /\ mrEvents' \in Seq(MrEvents) /\ UpOnce(mrEvents', dc.sock)
      /\ Up(dc.sock) \in Inside(mrEvents') => Up(dc.sock) \in Inside(mrEvents)
      /\ mrIn' \in Seq(MrFrames) /\ (dc.sock = 0 => mrIn' = <<>>)
      /\ \A f \in Inside(mrIn') : f \in Inside(mrIn) \/ f.kind \in Notices
  BY <1>1, <1>2, TakesOverIs
<1>5. WireInv'
  BY <1>1, <1>2, <1>4, DocRests
<1> QED BY <1>3, <1>5 DEF MirrorInv

----------------------------------------------------------------------------
(* Nothing happens.                                                         *)
LEMMA MirrorStands ==
  ASSUME MirrorInv, UNCHANGED mirrorVars
  PROVE  MirrorInv'
<1>1. /\ dc' = dc /\ UNCHANGED wireVars /\ pg' = pg /\ mrAnswers' = mrAnswers
      /\ UNCHANGED <<shellVars, mrRequests>>
  BY DEF mirrorVars, browserVars, mirrorBounds, mirrorCounts
<1>2. ShellInv /\ WireInv
  BY DEF MirrorInv
<1>3. ShellInv'
  BY <1>1, <1>2, ShellWaits DEF ShellInv, ShellTyped
<1>4. WireInv'
  BY <1>1, <1>2, WireEnds
<1> QED BY <1>3, <1>4 DEF MirrorInv

(* Every step keeps it.                                                     *)
LEMMA MirrorKeeps ==
  ASSUME MirrorInv, [MirrorNext]_mirrorVars
  PROVE  MirrorInv'
<1>1. CASE PageStep
  <2>1. CASE \E session \in 1..MaxSessions : Enter(session)
    BY <2>1, EnterKeeps
  <2>2. CASE \E resume \in BOOLEAN : Start(resume)
    BY <2>2, StartKeeps
  <2>3. CASE \E a \in mrAnswers : StartAnswered(a)
    BY <2>3, StartAnsweredKeeps
  <2> QED BY <1>1, <2>1, <2>2, <2>3, PageEndsKeeps, ReloadKeeps, PageSpeaksKeeps, PageHearsKeeps
          DEF PageStep
<1>2. CASE ShellStep
  BY <1>2, TaskGoesOnKeeps, InstallsKeeps, ShellLosesKeeps DEF ShellStep
<1>3. CASE DocStep
  BY <1>3, DocLeavesKeeps, OtherDocumentKeeps, SocketOpensKeeps, TakesFrameKeeps, PairsKeeps,
     CameraKeeps DEF DocStep, Reconnects
<1>4. CASE UNCHANGED mirrorVars
  BY <1>4, MirrorStands
<1> QED BY <1>1, <1>2, <1>3, <1>4 DEF MirrorNext

(* For any number of sessions, requests, reloads and sockets: what the page *)
(* shows as its companion is the live server of its session, and the only   *)
(* one; a camera that is on was granted to the session it serves, and has a *)
(* desktop or a timer that turns it off (mirror.rs, runtime.ts,             *)
(* MirrorSession.tsx).                                                      *)
THEOREM MirrorAlwaysSound == MirrorSpec => []MirrorIsSound
<1>1. MirrorInit => MirrorInv
  BY MirrorStart
<1>2. MirrorInv /\ [MirrorNext]_mirrorVars => MirrorInv'
  BY MirrorKeeps
<1>3. MirrorInv => MirrorIsSound
  BY MirrorSound
<1> QED BY <1>1, <1>2, <1>3, PTL DEF MirrorSpec
=============================================================================
