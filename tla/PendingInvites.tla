--------------------------- MODULE PendingInvites ---------------------------
(***************************************************************************)
(* Invitations that wait for an answer (features/friends/                   *)
(* pendingInvitesStore.ts, driven by InboxBoot.tsx): they belong to one     *)
(* identity, live deliveries join them while the file is still being read,  *)
(* and whatever was dismissed in the meantime must not come back with it.   *)
(*                                                                          *)
(* The file has one record, of one identity.  The shell keeps it in memory  *)
(* (`piKept`), saves it with each write, and handles the commands on it in  *)
(* the order they are sent.  The limit of sixteen entries is not modelled.  *)
(***************************************************************************)
EXTENDS Naturals, Sequences

CONSTANTS
  Identities,   \* identities of the user
  Invites,      \* invitations, one for each signed payload
  To,           \* [Invites -> Identities]: who is invited
  Topic,        \* [Invites -> topics]: the session; with the sender the key
  Rosters,      \* what may be from friends: sets of invitations
  Nobody,
  MaxSwitches,   \* bound: identities, rosters and launches
  MaxPosts,     \* bound: deliveries and dismissals
  MaxFaults     \* bound: reads and writes that fail

ASSUME InvitesAssumption ==
  /\ To \in [Invites -> Identities] /\ Rosters \subseteq SUBSET Invites
  /\ Nobody \notin Identities
  /\ {MaxSwitches, MaxPosts, MaxFaults} \subseteq Nat

VARIABLES
  piIdentity,   \* identityEdPubkeyHex
  piStatus,     \* "idle", "loading", "ready" or "degraded"
  piPending,    \* the invitations shown
  piTombs,      \* tombstones: [key, revision] of dismissals, one for a key
  piSuppress,   \* suppressRestoredRevision # 0: a clear is not yet saved
  piReady,      \* persistenceReady
  piRead,       \* the latest reconcile: [pc, friends, record]
  piQueue,      \* persistenceQueue: the identities of the jobs
  piWrite,      \* the job under way: [pc, owner, entries, same, covers]
  piKept,       \* the record in memory: [owner, entries]
  piDisk,       \* the record on disk
  piGone,       \* invitations that have expired
  piChanges, piPosts, piFaults,
  piDismissed,  \* history: what was dismissed last, since this activation
  piUnsaved     \* history: the latest write has failed or was passed over

piStore == <<piIdentity, piStatus, piPending, piTombs, piSuppress, piReady>>
piFile == <<piKept, piDisk>>
piBounds == <<piChanges, piPosts, piFaults>>
piPast == <<piDismissed, piUnsaved>>
piVars == <<piStore, piRead, piQueue, piWrite, piFile, piGone, piBounds, piPast>>

NoRecord == [owner |-> Nobody, entries |-> {}]
NoRead == [pc |-> "none", friends |-> {}, record |-> NoRecord]
NoWrite == [pc |-> "none", owner |-> Nobody, entries |-> {}, same |-> FALSE,
            covers |-> FALSE]

PendingInit ==
  /\ piIdentity = Nobody /\ piStatus = "idle" /\ piPending = {}
  /\ piTombs = {} /\ piSuppress = FALSE /\ piReady = FALSE
  /\ piRead = NoRead /\ piQueue = <<>> /\ piWrite = NoWrite
  /\ \E o \in Identities :
       piDisk \in {NoRecord} \union
         {[owner |-> o, entries |-> {i}] : i \in {j \in Invites : To[j] = o}}
  /\ piKept = piDisk /\ piGone = {}
  /\ piChanges = 0 /\ piPosts = 0 /\ piFaults = 0
  /\ piDismissed = {} /\ piUnsaved = FALSE

Change == piChanges < MaxSwitches /\ piChanges' = piChanges + 1 /\ UNCHANGED <<piPosts, piFaults>>
Post == piPosts < MaxPosts /\ piPosts' = piPosts + 1 /\ UNCHANGED <<piChanges, piFaults>>
Fault == piFaults < MaxFaults /\ piFaults' = piFaults + 1 /\ UNCHANGED <<piChanges, piPosts>>

SameTopic(i, j) == Topic[i] = Topic[j]

(* recordTombstones(): a newer one of the same key replaces an older one.   *)
Tombs(rows) == {i \in piTombs : \A j \in rows : ~SameTopic(i, j)} \union rows

(* schedulePersistence(): behind whatever is queued.                        *)
WriteQueued == piQueue' = IF piReady THEN Append(piQueue, piIdentity) ELSE piQueue

(* A dismissal in whatever way: by hand, by expiry, with its sender.        *)
Dismissed(rows) ==
  /\ piDismissed' = {i \in piDismissed : \A j \in rows : ~SameTopic(i, j)} \union rows

----------------------------------------------------------------------------
(* Identities and their friends.                                            *)

(* deactivateExpected(): the effect of the inbox is cleaned up; so is every *)
(* activation of before, its read and the right to write.                   *)
Deactivate ==
  /\ piIdentity # Nobody /\ Change
  /\ piIdentity' = Nobody /\ piStatus' = "idle" /\ piPending' = {}
  /\ piTombs' = {} /\ piSuppress' = FALSE /\ piReady' = FALSE
  /\ piRead' = NoRead /\ piWrite' = [piWrite EXCEPT !.same = FALSE]
  /\ piDismissed' = {} /\ piUnsaved' = FALSE
  /\ UNCHANGED <<piQueue, piFile, piGone>>

Activate(o) ==
  /\ piIdentity = Nobody
  /\ piIdentity' = o
  /\ UNCHANGED <<piStatus, piPending, piTombs, piSuppress, piReady, piRead, piQueue,
                 piWrite, piFile, piGone, piBounds, piPast>>

(* reconcile(), when the friends are loaded or have changed: a newer one    *)
(* supersedes the read of an older one.                                     *)
Reconcile(friends) ==
  LET revoked == {i \in piPending : i \in piGone \/ i \notin friends} IN
  /\ piIdentity # Nobody /\ Change
  /\ piReady' = FALSE /\ piStatus' = "loading"
  /\ piPending' = piPending \ revoked
  /\ piTombs' = Tombs(revoked)
  /\ Dismissed(revoked)
  /\ piRead' = [pc |-> "asked", friends |-> friends, record |-> NoRecord]
  /\ UNCHANGED <<piIdentity, piSuppress, piQueue, piWrite, piFile, piGone, piUnsaved>>

ReadSamples ==
  /\ piRead.pc = "asked" /\ piWrite.pc # "set"
  /\ piRead' = [piRead EXCEPT !.pc = "read", !.record = piKept]
  /\ UNCHANGED <<piStore, piQueue, piWrite, piFile, piGone, piBounds, piPast>>

ReadLost ==
  /\ piRead.pc = "asked" /\ Fault
  /\ piRead' = NoRead /\ piStatus' = "degraded"
  /\ UNCHANGED <<piIdentity, piPending, piTombs, piSuppress, piReady, piQueue, piWrite,
                 piFile, piGone, piPast>>

(* decodeSnapshot() and restoreEntries().                                   *)
OfAnybody(record) == record.entries      \* slip: the owner is not compared
OfOwner(record) == IF record.owner = piIdentity THEN record.entries ELSE {}

Restored ==
  IF piSuppress THEN {}
  ELSE {i \in OfOwner(piRead.record) : i \notin piGone /\ i \in piRead.friends
                                         /\ i \notin piTombs}

(* Of two invitations to the same session the live one stays.               *)
WithLive(restored, live) ==
  live \union {i \in restored : \A j \in live : ~SameTopic(i, j)}

ReadReturns ==
  LET live == {i \in piPending : i \notin piGone /\ i \in piRead.friends}
      revoked == piPending \ live IN
  /\ piRead.pc = "read"
  /\ piRead' = NoRead
  /\ piTombs' = Tombs(revoked)
  /\ Dismissed(revoked)
  /\ piPending' = WithLive(Restored, live)
  /\ piStatus' = "ready" /\ piReady' = TRUE
  /\ piQueue' = Append(piQueue, piIdentity)
  /\ UNCHANGED <<piIdentity, piSuppress, piWrite, piFile, piGone, piBounds, piUnsaved>>

----------------------------------------------------------------------------
(* Deliveries and dismissals.                                               *)

(* An envelope for `To[i]` has been opened; its inbox may have been left    *)
(* since.  The same payload again, or one just dismissed, is not news.      *)
Deliver(i) ==
  /\ piIdentity = To[i] /\ i \notin piGone /\ Post
  /\ i \notin piPending /\ i \notin piTombs
  /\ piTombs' = {t \in piTombs : ~SameTopic(i, t)} \union (piPending \intersect piGone)
  /\ piPending' = {j \in piPending : ~SameTopic(i, j) /\ j \notin piGone} \union {i}
  /\ piDismissed' = {j \in piDismissed : ~SameTopic(i, j)}
                      \union (piPending \intersect piGone)
  /\ WriteQueued
  /\ UNCHANGED <<piIdentity, piStatus, piSuppress, piReady, piRead, piWrite, piFile,
                 piGone, piUnsaved>>

(* remove(), removeIfCurrent() and prune().                                 *)
RemoveInvite(rows) ==
  /\ rows # {} /\ rows \subseteq piPending
  /\ piPending' = piPending \ rows
  /\ piTombs' = Tombs(rows)
  /\ Dismissed(rows)
  /\ WriteQueued
  /\ UNCHANGED <<piIdentity, piStatus, piSuppress, piReady, piRead, piWrite, piFile,
                 piGone, piUnsaved>>

RemoveOne(i) == Post /\ RemoveInvite({i})

Prune ==
  /\ piTombs \intersect piGone = {}
  /\ RemoveInvite(piPending \intersect piGone) /\ UNCHANGED piBounds

(* clear() also speaks for what is still on disk.                           *)
Clear ==
  /\ piIdentity # Nobody /\ Post
  /\ piTombs' = Tombs(piPending)
  /\ piSuppress' = TRUE
  /\ piWrite' = [piWrite EXCEPT !.covers = FALSE]
  /\ piPending' = {}
  /\ piDismissed' = Invites
  /\ WriteQueued
  /\ UNCHANGED <<piIdentity, piStatus, piReady, piRead, piFile, piGone, piUnsaved>>

Expire(i) ==
  /\ i \notin piGone
  /\ piGone' = piGone \union {i}
  /\ UNCHANGED <<piStore, piRead, piQueue, piWrite, piFile, piBounds, piPast>>

----------------------------------------------------------------------------
(* The queue of writes.                                                     *)
JobBegins ==
  /\ piQueue # <<>> /\ piWrite = NoWrite
  /\ piQueue' = Tail(piQueue)
  /\ IF Head(piQueue) = piIdentity /\ piStatus = "ready" /\ piReady
       THEN /\ piWrite' = [pc |-> "set", owner |-> piIdentity, entries |-> piPending,
                           same |-> TRUE, covers |-> TRUE]
       ELSE UNCHANGED piWrite
  /\ UNCHANGED <<piStore, piRead, piFile, piGone, piBounds, piPast>>

JobSets ==
  /\ piWrite.pc = "set"
  /\ piKept' = IF piWrite.entries = {} THEN NoRecord
               ELSE [owner |-> piWrite.owner, entries |-> piWrite.entries]
  /\ piWrite' = [piWrite EXCEPT !.pc = "save"]
  /\ UNCHANGED <<piStore, piRead, piQueue, piDisk, piGone, piBounds, piPast>>

StopsSuppressing ==
  piSuppress' = (piSuppress /\ ~(piWrite.same /\ piWrite.covers))

JobSaves ==
  /\ piWrite.pc = "save"
  /\ piDisk' = piKept
  /\ StopsSuppressing
  /\ piWrite' = NoWrite
  /\ piUnsaved' = IF piWrite.same THEN FALSE ELSE piUnsaved
  /\ UNCHANGED <<piIdentity, piStatus, piPending, piTombs, piReady, piRead, piQueue,
                 piKept, piGone, piBounds, piDismissed>>

JobFails ==
  /\ piWrite # NoWrite /\ Fault
  /\ piWrite' = NoWrite /\ piUnsaved' = TRUE
  /\ UNCHANGED <<piStore, piRead, piQueue, piFile, piGone, piDismissed>>

(* The application is quit or crashes, and is launched again.               *)
Relaunch ==
  /\ Change
  /\ piIdentity' = Nobody /\ piStatus' = "idle" /\ piPending' = {}
  /\ piTombs' = {} /\ piSuppress' = FALSE /\ piReady' = FALSE
  /\ piRead' = NoRead /\ piQueue' = <<>> /\ piWrite' = NoWrite
  /\ piKept' = piDisk
  /\ piDismissed' = {} /\ piUnsaved' = FALSE
  /\ UNCHANGED <<piDisk, piGone>>

----------------------------------------------------------------------------
PendingNext ==
  \/ Deactivate \/ Relaunch \/ \E o \in Identities : Activate(o)
  \/ \E friends \in Rosters : Reconcile(friends)
  \/ ReadSamples \/ ReadLost \/ ReadReturns
  \/ \E i \in Invites : Deliver(i) \/ RemoveOne(i) \/ Expire(i)
  \/ Prune \/ Clear \/ JobBegins \/ JobSets \/ JobSaves \/ JobFails

PendingSpec == PendingInit /\ [][PendingNext]_piVars

----------------------------------------------------------------------------
(* Nobody is shown the invitations of another identity, whichever way the   *)
(* identities, their reads and the writes of before overtake each other.    *)
InvitesAreOwn == \A i \in piPending : To[i] = piIdentity

(* What was dismissed last, or cleared, does not come back with the file,   *)
(* not even with one read or saved before, or never saved since.            *)
DismissedStays == piPending \intersect piDismissed = {}

(* When the writes are through, the file says what is shown.                *)
FileFollows ==
  (piStatus = "ready" /\ piQueue = <<>> /\ piWrite = NoWrite /\ ~piUnsaved)
    => /\ OfOwner(piDisk) = piPending
       /\ ~piSuppress

(* The list is the owner's, and the file in the end that list.              *)
InboxIsSound == InvitesAreOwn /\ DismissedStays /\ FileFollows
=============================================================================
