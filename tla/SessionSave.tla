----------------------------- MODULE SessionSave -----------------------------
(***************************************************************************)
(* What becomes of a session when its user leaves it: the row that the      *)
(* stints of one session are added up in (buildLeaveHandler and             *)
(* db/sessions.rs), the save that is retried until it is confirmed, the     *)
(* launch-time recovery record (recovery.ts), and what is kept out          *)
(* meanwhile: admissions, changes of identity, installations of an update.  *)
(*                                                                          *)
(* The user is a guest of one session, entered again and again by invite,   *)
(* Rejoin or the recovery prompt; each stay is a stint.  The row holds how   *)
(* often each stint is counted in it; a launch may adopt the audit of a     *)
(* stint that was never saved, as a row that counts none.  A call of the    *)
(* backend may commit and be rejected all the same; the process may die     *)
(* between any two steps.                                                   *)
(***************************************************************************)
EXTENDS Integers, Sequences, FiniteSets

CONSTANTS
  MaxStints,    \* bound: stints
  MaxChanges    \* bound: changes of identity

ASSUME SaveBounds == MaxStints \in Nat /\ MaxChanges \in Nat

VARIABLES
  up,           \* does the process run?
  status,       \* of the session store
  stint,        \* number of the latest stint
  leaving,      \* how far the leave handler is: "no", "teardown", "saving"
  pending,      \* the stint whose pendingSave is set, or 0
  prepared,     \* its frozen merged row, or NoRow
  fallback,     \* has it a fallback row?
  persisted,    \* is it known to be saved?
  attempt,      \* step of the save attempt under way
  row,          \* the row on disk: how often each stint is counted
  exists,       \* is there a row?
  identity,     \* number of the identity in the keychain
  owner,        \* owner[s]: the identity that stint s began with
  committing,   \* is another identity being written?
  installing,   \* is the installation of an update reserved?
  disk,         \* stint the recovery record on disk is of, or 0
  queue,        \* recovery operations; a stint is to be recorded, 0 clears
  running,      \* has the first of them begun?
  retained,     \* retainedForQuit
  prompt,       \* is the recovery prompt shown?
  quitting,     \* was the quit confirmed?
  confirmed,    \* stints reported as saved
  left,         \* stints this process left
  resumable,    \* stint the user should be offered at a launch, or 0
  missed        \* did the last recovery operation fail, or die with a process?

saveVars == <<pending, prepared, fallback, persisted, attempt, row, confirmed>>
recoveryVars == <<disk, queue, running, missed>>
guardVars == <<identity, committing, installing>>
sessionVars == <<up, status, stint, leaving, saveVars, exists, guardVars, owner,
          recoveryVars, retained, prompt, quitting, left, resumable>>

Stints == 1..MaxStints
Rows == [Stints -> Nat]
NoRow == [s \in Stints |-> 0]
Only(s) == [NoRow EXCEPT ![s] = 1]

(* mergeSessionStints: the stint's figures are added to those of the row.   *)
Merged(r, s) == [r EXCEPT ![s] = @ + 1]

FlagsOK ==
  /\ up \in BOOLEAN /\ quitting \in BOOLEAN
  /\ fallback \in BOOLEAN /\ persisted \in BOOLEAN
  /\ committing \in BOOLEAN /\ installing \in BOOLEAN
  /\ running \in BOOLEAN /\ retained \in BOOLEAN
  /\ prompt \in BOOLEAN /\ missed \in BOOLEAN
  /\ exists \in BOOLEAN

SessionTypeOK ==
  /\ status \in {"idle", "active", "ended"}
  /\ status = "active" => stint # 0
  /\ stint \in 0..MaxStints /\ leaving \in {"no", "teardown", "saving"}
  /\ owner \in [Stints -> 0..MaxChanges] /\ identity \in 0..MaxChanges
  /\ committing => identity < MaxChanges
  /\ left \subseteq 1..stint

RowTypeOK ==
  /\ pending \in 0..stint /\ prepared \in Rows /\ row \in Rows
  /\ ~exists => row = NoRow
  /\ attempt \in {"none", "first", "second", "insert", "write"}
  /\ confirmed \subseteq 1..stint
  /\ leaving # "no" => status = "active" /\ pending = stint
  /\ attempt # "none" => pending # 0 /\ ~persisted
  /\ status = "active" /\ leaving = "no" => pending = 0

RecoveryTypeOK ==
  /\ disk \in 0..MaxStints /\ resumable \in 0..MaxStints
  /\ queue \in Seq(0..MaxStints)
  /\ running => queue # <<>>

SaveTypeOK == FlagsOK /\ SessionTypeOK /\ RowTypeOK /\ RecoveryTypeOK

SaveInit ==
  /\ up = TRUE /\ status = "idle" /\ stint = 0 /\ leaving = "no"
  /\ pending = 0 /\ prepared = NoRow /\ fallback = FALSE
  /\ persisted = FALSE /\ attempt = "none" /\ row = NoRow /\ exists = FALSE
  /\ identity = 0 /\ owner = [s \in Stints |-> 0]
  /\ committing = FALSE /\ installing = FALSE
  /\ disk = 0 /\ queue = <<>> /\ running = FALSE
  /\ retained = FALSE /\ prompt = FALSE /\ quitting = FALSE
  /\ confirmed = {} /\ left = {} /\ resumable = 0 /\ missed = FALSE

----------------------------------------------------------------------------
(* The session.                                                             *)

(* joinExistingSession and begin: refused while a save is pending, an       *)
(* update is being installed or the identity is being replaced.  The        *)
(* recovery record is written behind what is still queued.                  *)
Enter ==
  /\ up /\ ~quitting /\ status # "active" /\ stint < MaxStints
  /\ pending = 0 /\ ~installing /\ ~committing
  /\ status' = "active" /\ stint' = stint + 1
  /\ owner' = [owner EXCEPT ![stint + 1] = identity]
  /\ queue' = Append(queue, stint + 1) /\ resumable' = stint + 1
  /\ prompt' = FALSE
  /\ UNCHANGED <<up, leaving, saveVars, exists, guardVars, disk, running,
                 missed, retained, quitting, left>>

(* performLeave up to its first await: the stint's figures are frozen, the  *)
(* save claims pendingSave, the recovery record is cleared unless the user  *)
(* quits.                                                                   *)
BeginLeave(keepRecord) ==
  /\ leaving' = "teardown"
  /\ pending' = stint /\ prepared' = NoRow /\ fallback' = FALSE
  /\ persisted' = FALSE
  /\ queue' = IF keepRecord THEN queue ELSE Append(queue, 0)

Leave ==
  /\ up /\ status = "active" /\ leaving = "no"
  /\ BeginLeave(retained)
  /\ resumable' = 0
  /\ UNCHANGED <<up, status, stint, attempt, row, exists, confirmed, guardVars,
                 owner, disk, running, missed, retained, prompt, quitting,
                 left>>

(* A confirmed quit leaves, too, or joins the leave under way; the process  *)
(* ends when that is over or has taken five seconds.                        *)
ConfirmQuit ==
  /\ up /\ status = "active" /\ ~quitting
  /\ quitting' = TRUE /\ retained' = TRUE
  /\ IF leaving = "no" THEN BeginLeave(TRUE)
     ELSE UNCHANGED <<leaving, pending, prepared, fallback, persisted, queue>>
  /\ UNCHANGED <<up, status, stint, attempt, row, exists, confirmed, guardVars,
                 owner, disk, running, missed, prompt, left, resumable>>

(* performSave begins with the frozen row, if there is one.                 *)
Begins == IF prepared = NoRow THEN "first" ELSE "write"

(* Announcement, room.leave and the flush of the audit are over, each in    *)
(* one way or another; now the stint is saved.                              *)
TeardownEnds ==
  /\ up /\ leaving = "teardown"
  /\ leaving' = "saving" /\ attempt' = Begins
  /\ UNCHANGED <<up, status, stint, pending, prepared, fallback, persisted,
                 row, exists, confirmed, guardVars, owner, recoveryVars,
                 retained, prompt, quitting, left, resumable>>

(* markEnded and releaseSaved, whether or not the save succeeded.           *)
MarkEnded ==
  /\ up /\ leaving = "saving" /\ attempt = "none"
  /\ status' = "ended" /\ leaving' = "no" /\ left' = left \union {stint}
  /\ pending' = IF persisted THEN 0 ELSE pending
  /\ UNCHANGED <<up, stint, prepared, fallback, persisted, attempt, row,
                 exists, confirmed, guardVars, owner, recoveryVars, retained,
                 prompt, quitting, resumable>>

(* The report is closed; the pending save stays.                            *)
Reset ==
  /\ up /\ status = "ended"
  /\ status' = "idle"
  /\ UNCHANGED <<up, stint, leaving, saveVars, exists, guardVars, owner,
                 recoveryVars, retained, prompt, quitting, left, resumable>>

----------------------------------------------------------------------------
(* The save.  Only the step at which the attempt is moves; what the leave   *)
(* handler or Settings awaits is attempt = "none".                          *)

Saving(step) ==
  /\ up /\ attempt = step
  /\ UNCHANGED <<up, status, stint, leaving, guardVars, owner, recoveryVars,
                 retained, prompt, quitting, left, resumable>>

(* sessionPersisted, and releaseSaved outside an active session.            *)
Persist ==
  /\ persisted' = TRUE /\ attempt' = "none"
  /\ confirmed' = confirmed \union {pending}
  /\ pending' = IF status = "active" THEN pending ELSE 0

GivesUp == attempt' = "none" /\ UNCHANGED <<pending, persisted, confirmed>>

(* Settings, Retry saving session.                                          *)
Retry ==
  /\ up /\ status # "active" /\ pending # 0 /\ attempt = "none"
  /\ attempt' = Begins
  /\ UNCHANGED <<up, status, stint, leaving, pending, prepared, fallback,
                 persisted, row, exists, confirmed, guardVars, owner,
                 recoveryVars, retained, prompt, quitting, left, resumable>>

(* savedRowMatches: the row on disk is the fallback of this very stint.     *)
IsFallback == fallback /\ row = Only(pending)

ReadMerges ==                        \* slip: merge whatever is there
  /\ Saving("first") \/ Saving("second")
  /\ prepared' = Merged(row, pending) /\ attempt' = "write"
  /\ UNCHANGED <<row, exists, fallback, pending, persisted, confirmed>>

(* sessionsGet answers: its fallback is the stint's save; any other row is   *)
(* merged with the stint, and the result frozen.                            *)
ReadSucceeds ==
  /\ Saving("first") \/ Saving("second")
  /\ IF IsFallback
       THEN Persist /\ UNCHANGED prepared
       ELSE /\ prepared' = Merged(row, pending)
            /\ attempt' = "write"
            /\ UNCHANGED <<pending, persisted, confirmed>>
  /\ UNCHANGED <<row, exists, fallback>>

ReadFails ==
  /\ \/ Saving("first") /\ attempt' = "second" /\ UNCHANGED fallback
     \/ Saving("second") /\ attempt' = "insert" /\ fallback' = TRUE
  /\ UNCHANGED <<row, exists, pending, prepared, persisted, confirmed>>

InsertReplaces ==                    \* slip: an upsert without a read
  /\ Saving("insert")
  /\ row' = Only(pending) /\ exists' = TRUE /\ Persist
  /\ UNCHANGED <<prepared, fallback>>

(* sessionsInsertIfAbsent of the fallback row: it is inserted, it may be    *)
(* inserted without our knowing, or nothing happens.                        *)
InsertIfAbsent ==
  /\ Saving("insert")
  /\ \/ /\ ~exists /\ exists' = TRUE /\ row' = Only(pending)
        /\ Persist \/ GivesUp
     \/ GivesUp /\ UNCHANGED <<row, exists>>
  /\ UNCHANGED <<prepared, fallback>>

(* sessionsInsert of the frozen row, likewise.                              *)
Write ==
  /\ Saving("write")
  /\ \/ row' = prepared /\ exists' = TRUE /\ (Persist \/ GivesUp)
     \/ GivesUp /\ UNCHANGED <<row, exists>>
  /\ UNCHANGED <<prepared, fallback>>

----------------------------------------------------------------------------
(* The recovery record: saves and clears run one after the other.           *)

RecoveryBegins ==
  /\ up /\ queue # <<>> /\ ~running
  /\ running' = TRUE /\ retained' = FALSE
  /\ UNCHANGED <<up, status, stint, leaving, saveVars, exists, guardVars,
                 owner, disk, queue, missed, prompt, quitting, left,
                 resumable>>

RecoveryEndsLast ==                  \* slip: the latest operation goes first
  /\ up /\ running
  /\ running' = FALSE /\ queue' = SubSeq(queue, 1, Len(queue) - 1)
  /\ disk' = queue[Len(queue)] /\ missed' = FALSE
  /\ UNCHANGED <<up, status, stint, leaving, saveVars, exists, guardVars,
                 owner, retained, prompt, quitting, left, resumable>>

RecoveryEnds ==
  /\ up /\ running
  /\ running' = FALSE /\ queue' = Tail(queue)
  /\ \/ disk' = Head(queue) /\ missed' = FALSE
     \/ disk' = disk /\ missed' = TRUE
  /\ UNCHANGED <<up, status, stint, leaving, saveVars, exists, guardVars,
                 owner, retained, prompt, quitting, left, resumable>>

(* The prompt is answered with the end of the session.                      *)
EndInterrupted ==
  /\ up /\ prompt
  /\ prompt' = FALSE /\ resumable' = 0
  /\ queue' = Append(queue, 0)
  /\ UNCHANGED <<up, status, stint, leaving, saveVars, exists, guardVars,
                 owner, disk, running, missed, retained, quitting, left>>

----------------------------------------------------------------------------
(* Identities and updates.                                                  *)

Aside == UNCHANGED <<up, status, stint, leaving, saveVars, exists, owner,
                     recoveryVars, retained, prompt, quitting, left,
                     resumable>>

(* A commit of another identity waits for the session and for its save.     *)
CommitBegins ==
  /\ up /\ ~prompt /\ ~quitting /\ ~committing /\ identity < MaxChanges
  /\ status # "active" /\ pending = 0
  /\ committing' = TRUE
  /\ Aside /\ UNCHANGED <<identity, installing>>

CommitEnds ==
  /\ up /\ committing
  /\ committing' = FALSE /\ identity' \in {identity, identity + 1}
  /\ Aside /\ UNCHANGED installing

InstallBegins ==
  /\ up /\ ~quitting /\ ~installing /\ status # "active"
  /\ installing' = TRUE
  /\ Aside /\ UNCHANGED <<identity, committing>>

InstallFails ==
  /\ up /\ installing
  /\ installing' = FALSE
  /\ Aside /\ UNCHANGED <<identity, committing>>

----------------------------------------------------------------------------
(* The process ends, by a crash, a quit or the relaunch of an update, and   *)
(* begins anew with what is on disk.                                        *)
Down ==
  /\ up
  /\ up' = FALSE /\ status' = "idle" /\ leaving' = "no"
  /\ pending' = 0 /\ prepared' = NoRow /\ fallback' = FALSE
  /\ persisted' = FALSE /\ attempt' = "none"
  /\ identity' \in IF committing THEN {identity, identity + 1} ELSE {identity}
  /\ committing' = FALSE /\ installing' = FALSE
  /\ queue' = <<>> /\ running' = FALSE /\ missed' = (missed \/ queue # <<>>)
  /\ retained' = FALSE /\ prompt' = FALSE /\ quitting' = FALSE /\ left' = {}
  /\ UNCHANGED <<stint, row, exists, confirmed, owner, disk, resumable>>

(* synthesize_from_orphaned_audit_events: when the database is opened, a    *)
(* session without a row is adopted with what its audit knows of it.        *)
AdoptsAudit == exists' \in {exists, exists \/ stint > 0}

(* After that, loadSessionRecovery offers the record of this identity,      *)
(* gives it up as too old, or cannot read it this time.                     *)
Launch ==
  /\ ~up /\ up' = TRUE
  /\ AdoptsAudit
  /\ \/ prompt' = FALSE /\ UNCHANGED <<queue, resumable>>
     \/ /\ disk # 0 /\ owner[disk] = identity
        /\ \/ prompt' = TRUE /\ UNCHANGED <<queue, resumable>>
           \/ prompt' = FALSE /\ queue' = <<0>> /\ resumable' = 0
  /\ UNCHANGED <<status, stint, leaving, saveVars, guardVars, owner, disk,
                 running, missed, retained, quitting, left>>

SaveNext ==
  \/ Enter \/ Leave \/ ConfirmQuit \/ TeardownEnds \/ MarkEnded \/ Reset
  \/ Retry \/ ReadSucceeds \/ ReadFails \/ InsertIfAbsent \/ Write
  \/ RecoveryBegins \/ RecoveryEnds \/ EndInterrupted
  \/ CommitBegins \/ CommitEnds \/ InstallBegins \/ InstallFails
  \/ Down \/ Launch

SaveSpec == SaveInit /\ [][SaveNext]_sessionVars

----------------------------------------------------------------------------
(* Property: no stint is counted twice, whatever was committed without the  *)
(* caller's knowing and however often the save was tried again.             *)
NeverCountedTwice == \A s \in Stints : row[s] <= 1

(* Property: nothing is forgotten.  A stint that was reported as saved      *)
(* stays in the row for good, through every later merge, fallback and       *)
(* crash; and a stint this process left is in the row or its save is still  *)
(* pending.                                                                 *)
NothingForgotten ==
  \A s \in confirmed \union (left \ {pending}) : row[s] >= 1

(* Property: once the queue has drained and unless its last operation       *)
(* failed, the record on disk is that of the stint the user was torn out of *)
(* or quit from, and there is none after a Leave or an End.                 *)
RecoveryFollowsSession ==
  queue = <<>> /\ ~missed => disk = resumable

(* Property: neither an update nor another identity comes over a session,   *)
(* and no other identity over one that is not saved yet.                    *)
OwnerIsStable ==
  /\ status = "active" => ~installing
  /\ status = "active" => ~committing /\ identity = owner[stint]
  /\ pending # 0 => ~committing /\ identity = owner[pending]

(* Property: a session and its recovery record have one owner and one fate. *)
RecoveryIsOwn == RecoveryFollowsSession /\ OwnerIsStable
=============================================================================
