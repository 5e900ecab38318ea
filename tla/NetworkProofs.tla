--------------------------- MODULE NetworkProofs ----------------------------
(***************************************************************************)
(* Proofs about what a client and the broker keep between calls, for any   *)
(* sessions, identities, accounts, faults and interleavings: the           *)
(* invitations one sends (InviteRetry), those one was sent                 *)
(* (PendingInvites), and the credentials of the TURN broker (TurnBroker).  *)
(*                                                                         *)
(* And about the presence of friends (Presence), for any intervals and     *)
(* delays. What is shown follows from the clocks; that it is right does    *)
(* not. It holds because the beats leave no gap: of every stretch of time  *)
(* as long as their interval, since the watch began and the friend came,   *)
(* one is under way or was heard, unless it was lost (BeatInv). So a watch *)
(* that has not heard of a friend that is there has just begun (NoTale).   *)
(***************************************************************************)
EXTENDS InviteRetry, PendingInvites, TurnBroker, Presence, TLAPS

(* What the invariants need besides: an invitation that still waits has a   *)
(* young entry and is not recorded as delivered.                            *)
WaitingIsYoung ==
  \A s \in waiting : pendingInvite[s] # None /\ ~pendingInvite[s].old /\ s \notin delivered

InviteInv ==
  /\ InviteTypeOK /\ InFlightIsSending /\ RetriesAreWanted
  /\ FailedInvitesAreKept /\ WaitingIsYoung

----------------------------------------------------------------------------
(* Aborting the retries of some sessions leaves none of theirs active, and  *)
(* those of the others as they were.                                        *)
LEMMA AbortedRetries ==
  ASSUME NEW S \in SUBSET Sends, NEW ss \in SUBSET Sessions
  PROVE  /\ AbortRetries(S, ss) \in SUBSET Sends
         /\ \A s \in ss : Active(AbortRetries(S, ss), s) = {}
         /\ \A s \in Sessions \ ss : Active(AbortRetries(S, ss), s) = Active(S, s)
<1> DEFINE ab(r) == IF r.kind = "retry" /\ r.session \in ss
                      THEN [r EXCEPT !.aborted = TRUE] ELSE r
<1>0. AbortRetries(S, ss) = {ab(r) : r \in S}
  BY DEF AbortRetries
<1>1. ASSUME NEW r \in S
      PROVE  /\ ab(r) \in Sends
             /\ ab(r).kind = r.kind /\ ab(r).session = r.session
             /\ r.kind = "retry" /\ r.session \in ss => ab(r).aborted
             /\ ~(r.kind = "retry" /\ r.session \in ss) => ab(r) = r
  BY DEF Sends
<1> HIDE DEF ab
<1>2. AbortRetries(S, ss) \in SUBSET Sends
  BY <1>0, <1>1
<1>3. ASSUME NEW s \in ss PROVE Active(AbortRetries(S, ss), s) = {}
  BY <1>0, <1>1 DEF Active
<1>4. ASSUME NEW s \in Sessions \ ss
      PROVE  Active(AbortRetries(S, ss), s) = Active(S, s)
  BY <1>0, <1>1 DEF Active
<1> QED BY <1>2, <1>3, <1>4

(* The invariant holds at the start.                                        *)
LEMMA InviteInitial == InviteInit => InviteInv
BY MaxInvitesAssumption
   DEF InviteInit, InviteInv, InviteTypeOK, InFlightIsSending, RetriesAreWanted,
       FailedInvitesAreKept, WaitingIsYoung, InTheAir, Retrying, Active, Numbers

(* A heartbeat starts the retry of the live session at most.                *)
LEMMA Resent ==
  ASSUME InviteInv, PresenceOnline
  PROVE  \A s \in Sessions :
           /\ Resend(s) => /\ s = live /\ pendingInvite[s] # None
                          /\ Retrying(s)' = {Resending(s, pendingInvite[s].number)}
           /\ ~Resend(s) => Retrying(s)' = Retrying(s)
<1> USE DEF InviteInv, InviteTypeOK
<1>1. TAKE s \in Sessions
<1>2. Retrying(s)' = Retrying(s) \union
        {r \in {Resending(t, pendingInvite[t].number) : t \in {u \in Sessions : Resend(u)}} :
           r.session = s}
  BY DEF PresenceOnline, Retrying, Active, Resending
<1>3. CASE Resend(s)
  <2>1. Retrying(s) = {} /\ s = live /\ pendingInvite[s] # None
    BY <1>3 DEF Resend, InFlightIsSending, InTheAir
  <2>2. {r \in {Resending(t, pendingInvite[t].number) : t \in {u \in Sessions : Resend(u)}} :
           r.session = s} = {Resending(s, pendingInvite[s].number)}
    BY <1>3 DEF Resending
  <2> QED BY <1>2, <1>3, <2>1, <2>2
<1>4. CASE ~Resend(s)
  <2>1. {r \in {Resending(t, pendingInvite[t].number) : t \in {u \in Sessions : Resend(u)}} :
           r.session = s} = {}
    BY <1>4 DEF Resending
  <2> QED BY <1>2, <1>4, <2>1
<1> QED BY <1>3, <1>4

(* Every step keeps the invariant.                                          *)
LEMMA InviteStep == InviteInv /\ [InviteNext]_inviteVars => InviteInv'
<1> SUFFICES ASSUME InviteInv, [InviteNext]_inviteVars PROVE InviteInv'
  OBVIOUS
<1> USE NoneAssumption DEF InviteInv
<1> USE DEF InviteTypeOK, InFlightIsSending, RetriesAreWanted,
            FailedInvitesAreKept, WaitingIsYoung, InTheAir
<1>1. ASSUME NEW s \in Sessions, EnterSession(s) PROVE InviteInv'
  BY <1>1 DEF EnterSession, Retrying
<1>2. ASSUME NEW s \in Sessions, Ages(s) PROVE InviteInv'
  <2>1. pendingInvite' \in [Sessions -> Entries \union {None}]
    BY <1>2 DEF Ages, Entries
  <2>a. /\ pendingInvite[s] \in Entries
        /\ pendingInvite' = [pendingInvite EXCEPT ![s] = [pendingInvite[s] EXCEPT !.old = TRUE]]
    BY <1>2 DEF Ages
  <2>b. LET e == [pendingInvite[s] EXCEPT !.old = TRUE] IN
        /\ e \in Entries /\ e.inFlight = pendingInvite[s].inFlight
        /\ e.number = pendingInvite[s].number
    BY <2>a DEF Entries
  <2>2. \A t \in Sessions :
          /\ pendingInvite'[t] = None <=> pendingInvite[t] = None
          /\ pendingInvite[t] # None => /\ pendingInvite'[t].inFlight = pendingInvite[t].inFlight
                                 /\ pendingInvite'[t].number = pendingInvite[t].number
          /\ t # s => pendingInvite'[t] = pendingInvite[t]
    BY <1>2, <2>a, <2>b
  <2> QED BY <1>2, <2>1, <2>2 DEF Ages, Retrying
<1>3. CASE LeaveSession
  <2> DEFINE ss == {s \in Sessions : pendingInvite[s] # None}
  <2>a. sends' = AbortRetries(sends, ss)
    BY <1>3 DEF LeaveSession
  <2>b. sends \in SUBSET Sends /\ ss \in SUBSET Sessions
    OBVIOUS
  <2>c. \A s \in Sessions \ ss : Active(sends, s) = {}
    BY DEF Retrying
  <2> HIDE DEF ss
  <2>d. /\ AbortRetries(sends, ss) \in SUBSET Sends
        /\ \A s \in ss : Active(AbortRetries(sends, ss), s) = {}
        /\ \A s \in Sessions \ ss :
             Active(AbortRetries(sends, ss), s) = Active(sends, s)
    BY <2>b, AbortedRetries
  <2>1. /\ sends' \in SUBSET Sends
        /\ \A s \in Sessions : Active(sends', s) = {}
    BY <2>a, <2>c, <2>d
  <2> QED BY <1>3, <2>1 DEF LeaveSession, Retrying
<1>4. CASE Invite
  <2>1. /\ Direct(live, invites + 1) \in Sends
        /\ invites' \in 0..MaxInvites
    BY <1>4, MaxInvitesAssumption DEF Invite, Direct, Sends, Numbers
  <2>2. \A s : Retrying(s)' = Retrying(s)
    BY <1>4 DEF Invite, Retrying, Active, Direct
  <2> QED BY <1>4, <2>1, <2>2 DEF Invite
<1>5. CASE PresenceOnline
  <2>a. \A s \in Sessions : Resend(s) => pendingInvite[s] \in Entries
    BY DEF Resend
  <2>b. \A e \in Entries : /\ [e EXCEPT !.inFlight = TRUE] \in Entries
                           /\ [e EXCEPT !.inFlight = TRUE].inFlight
                           /\ [e EXCEPT !.inFlight = TRUE].number = e.number
                           /\ [e EXCEPT !.inFlight = TRUE].old = e.old
    BY DEF Entries
  <2>c. pendingInvite' \in [Sessions -> Entries \union {None}]
    BY <1>5, <2>a, <2>b DEF PresenceOnline
  <2>d. \A s \in Sessions : Resend(s) => Resending(s, pendingInvite[s].number) \in Sends
    BY <2>a DEF Entries, Sends, Resending
  <2>1. /\ pendingInvite' \in [Sessions -> Entries \union {None}]
        /\ sends' \subseteq Sends
    BY <1>5, <2>c, <2>d DEF PresenceOnline
  <2>2. \A s \in Sessions :
          /\ InTheAir(s) => ~Resend(s) /\ pendingInvite'[s] = pendingInvite[s]
          /\ Resend(s) => pendingInvite'[s] = [pendingInvite[s] EXCEPT !.inFlight = TRUE]
          /\ ~InTheAir(s) /\ ~Resend(s) => pendingInvite'[s] = None
    BY <1>5 DEF PresenceOnline, Resend
  <2>3. \A s \in Sessions : Resend(s) =>
          /\ pendingInvite'[s] # None /\ pendingInvite'[s].inFlight
          /\ pendingInvite'[s].number = pendingInvite[s].number
          /\ pendingInvite'[s].old = pendingInvite[s].old
    <3> TAKE s \in Sessions
    <3> HAVE Resend(s)
    <3> DEFINE e == [pendingInvite[s] EXCEPT !.inFlight = TRUE]
    <3>1. /\ e \in Entries /\ e.inFlight
          /\ e.number = pendingInvite[s].number /\ e.old = pendingInvite[s].old
      BY <2>a, <2>b
    <3>2. pendingInvite'[s] = e
      BY <2>2
    <3> HIDE DEF e
    <3> QED BY <3>1, <3>2
  <2>4. \A s \in waiting : InTheAir(s) \/ Resend(s)
    BY DEF Resend
  <2> QED BY <1>5, <2>1, <2>2, <2>3, <2>4, Resent DEF PresenceOnline
<1>6. ASSUME NEW r \in sends, DirectAcked(r) PROVE InviteInv'
  <2>1. r.session \in Sessions /\ sends \ {r} \in SUBSET Sends
    BY DEF Sends
  <2>2. \A s \in Sessions : Active(sends \ {r}, s) = Retrying(s)
    BY <1>6 DEF DirectAcked, Active, Retrying
  <2>3. /\ sends' \subseteq Sends
        /\ Retrying(r.session)' = {}
        /\ \A s \in Sessions \ {r.session} : Retrying(s)' = Retrying(s)
    <3>1. CASE pendingInvite[r.session] = None
      BY <1>6, <2>1, <2>2, <3>1 DEF DirectAcked, Retrying
    <3>2. CASE pendingInvite[r.session] # None
      <4>1. sends' = AbortRetries(sends \ {r}, {r.session})
        BY <1>6, <3>2 DEF DirectAcked
      <4>2. /\ sends' \in SUBSET Sends
            /\ \A s \in {r.session} : Active(sends', s) = {}
            /\ \A s \in Sessions \ {r.session} :
                 Active(sends', s) = Active(sends \ {r}, s)
        <5> DEFINE S == sends \ {r}
                   ss == {r.session}
        <5>1. S \in SUBSET Sends /\ ss \in SUBSET Sessions
          BY <2>1
        <5> HIDE DEF S, ss
        <5>2. /\ AbortRetries(S, ss) \in SUBSET Sends
              /\ \A s \in ss : Active(AbortRetries(S, ss), s) = {}
              /\ \A s \in Sessions \ ss :
                   Active(AbortRetries(S, ss), s) = Active(S, s)
          BY <5>1, AbortedRetries
        <5> QED BY <4>1, <5>2 DEF S, ss
      <4> QED BY <2>1, <2>2, <4>2 DEF Retrying
    <3> QED BY <3>1, <3>2
  <2>4. pendingInvite' = [pendingInvite EXCEPT ![r.session] = None]
    BY <1>6 DEF DirectAcked
  <2>5. InviteTypeOK'
    BY <1>6, <2>1, <2>3, <2>4 DEF DirectAcked
  <2> QED BY <1>6, <2>1, <2>3, <2>4, <2>5 DEF DirectAcked
<1>7. ASSUME NEW r \in sends, DirectUnconfirmed(r) PROVE InviteInv'
  <2>1. /\ r.session \in Sessions /\ Fresh(r.number) \in Entries
        /\ sends' \subseteq Sends
    BY <1>7 DEF DirectUnconfirmed, Sends, Entries, Fresh
  <2>2. \A s \in Sessions : Retrying(s)' = Retrying(s)
    BY <1>7 DEF DirectUnconfirmed, Active, Retrying
  <2>3. Fresh(r.number) # None /\ ~Fresh(r.number).inFlight /\ ~Fresh(r.number).old
    BY <2>1 DEF Fresh
  <2> QED BY <1>7, <2>1, <2>2, <2>3 DEF DirectUnconfirmed, Register
<1>8. ASSUME NEW r \in sends, DirectFailed(r) PROVE InviteInv'
  <2>1. \A s \in Sessions : Retrying(s)' = Retrying(s)
    BY <1>8 DEF DirectFailed, Active, Retrying
  <2> QED BY <1>8, <2>1 DEF DirectFailed
<1>9. ASSUME NEW r \in sends, RetryStale(r) PROVE InviteInv'
  <2>1. r.session \in Sessions
    BY DEF Sends
  <2>2. r.aborted \/ r \in Retrying(r.session)
    BY <1>9 DEF RetryStale, Retrying, Active
  <2>3. r.aborted
    BY <1>9, <2>1, <2>2 DEF RetryStale, IsCurrent, Resending
  <2>4. \A s \in Sessions : Retrying(s)' = Retrying(s)
    BY <1>9, <2>3 DEF RetryStale, Active, Retrying
  <2> QED BY <1>9, <2>4 DEF RetryStale
<1>10. ASSUME NEW r \in sends, RetryAcked(r) PROVE InviteInv'
  <2>1. r.session \in Sessions /\ r \in Retrying(r.session)
    BY <1>10 DEF RetryAcked, Retrying, Active, Sends
  <2>2. /\ Retrying(r.session)' = {}
        /\ \A s \in Sessions \ {r.session} : Retrying(s)' = Retrying(s)
    BY <1>10, <2>1 DEF RetryAcked, Active, Retrying
  <2> QED BY <1>10, <2>1, <2>2 DEF RetryAcked
<1>11. ASSUME NEW r \in sends, RetryFailed(r) PROVE InviteInv'
  <2>1. r.session \in Sessions /\ r \in Retrying(r.session)
    BY <1>11 DEF RetryFailed, Retrying, Active, Sends
  <2>2. /\ Retrying(r.session)' = {}
        /\ \A s \in Sessions \ {r.session} : Retrying(s)' = Retrying(s)
    BY <1>11, <2>1 DEF RetryFailed, Active, Retrying
  <2>3. r.session = live /\ pendingInvite[r.session] \in Entries
    BY <2>1
  <2>4. /\ pendingInvite' = [pendingInvite EXCEPT ![r.session] = [@ EXCEPT !.inFlight = FALSE]]
        /\ UNCHANGED <<live, delivered, invites, waiting>>
    BY <1>11, <2>3 DEF RetryFailed
  <2>5. /\ pendingInvite'[r.session] \in Entries
        /\ pendingInvite'[r.session] # None
        /\ ~pendingInvite'[r.session].inFlight
        /\ pendingInvite'[r.session].old = pendingInvite[r.session].old
    <3> DEFINE e == [pendingInvite[r.session] EXCEPT !.inFlight = FALSE]
    <3>1. e \in Entries /\ ~e.inFlight /\ e.old = pendingInvite[r.session].old
      BY <2>3 DEF Entries
    <3>2. pendingInvite'[r.session] = e
      BY <2>1, <2>4
    <3> HIDE DEF e
    <3> QED BY <3>1, <3>2
  <2>6. /\ pendingInvite' \in [Sessions -> Entries \union {None}]
        /\ \A s \in Sessions \ {r.session} : pendingInvite'[s] = pendingInvite[s]
    BY <2>1, <2>4, <2>5
  <2>7. sends' \subseteq Sends
    BY <1>11 DEF RetryFailed
  <2> QED BY <2>1, <2>2, <2>3, <2>4, <2>5, <2>6, <2>7
<1>12. CASE UNCHANGED inviteVars
  BY <1>12 DEF inviteVars, Retrying
<1> QED
  BY <1>1, <1>2, <1>3, <1>4, <1>5, <1>6, <1>7, <1>8, <1>9, <1>10, <1>11, <1>12
  DEF InviteNext

(* Theorem: retries are matched one to one with the entries in flight, are  *)
(* only ever under way for the session the user is in and for an            *)
(* invitation not yet acknowledged, and a failed invitation is kept.        *)
THEOREM InvitesSafe == InviteSpec => [](InviteTypeOK /\ RetriesAreSound)
<1>1. InviteInv => InviteTypeOK /\ RetriesAreSound
  BY DEF InviteInv, RetriesAreSound
<1> QED BY <1>1, InviteInitial, InviteStep, PTL DEF InviteSpec

----------------------------------------------------------------------------
(* The inbox. That the file in the end says what is shown needs to be told *)
(* of every moment at which it does not: what is read, written or kept is  *)
(* its owner's, what was dismissed is covered by its tombstones, and the   *)
(* last job of the queue writes what is shown.                             *)

Records == [owner : Identities \union {Nobody}, entries : SUBSET Invites]
Reads == [pc : {"none", "asked", "read"}, friends : SUBSET Invites, record : Records]
Writes == [pc : {"none", "set", "save"}, owner : Identities \union {Nobody},
           entries : SUBSET Invites, same : BOOLEAN, covers : BOOLEAN]

PendingTypeOK ==
  /\ piIdentity \in Identities \union {Nobody}
  /\ piStatus \in {"idle", "loading", "ready", "degraded"}
  /\ piPending \in SUBSET Invites /\ piTombs \in SUBSET Invites
  /\ piDismissed \in SUBSET Invites /\ piGone \in SUBSET Invites
  /\ piSuppress \in BOOLEAN /\ piReady \in BOOLEAN /\ piUnsaved \in BOOLEAN
  /\ piRead \in Reads /\ piWrite \in Writes
  /\ piQueue \in Seq(Identities \union {Nobody})
  /\ piKept \in Records /\ piDisk \in Records

(* What is kept, read or written is its owner's.                            *)
Owned(record) == \A i \in record.entries : To[i] = record.owner
RecordsAreOwn == Owned(piKept) /\ Owned(piDisk) /\ Owned(piRead.record) /\ Owned(piWrite)

(* Only a read lets an activation write, and its jobs are its own.          *)
OneActivation ==
  /\ piReady <=> piStatus = "ready"
  /\ piRead.pc # "none" \/ piReady => piIdentity # Nobody
  /\ piIdentity = Nobody => piDismissed = {}
  /\ piRead.pc # "none" => ~piReady
  /\ piRead.pc = "read" => piWrite.pc # "set"
  /\ piWrite.pc = "none" <=> piWrite = NoWrite
  /\ piWrite.same => piWrite.owner = piIdentity /\ piIdentity # Nobody

(* A record that may yet be restored holds nothing that was dismissed but   *)
(* what a tombstone tells.  After a clear, which leaves no tombstones, only  *)
(* what was written since may be.                                           *)
Covered(record) ==
  record.owner = piIdentity => record.entries \intersect piDismissed \subseteq piTombs
Speaks == piWrite.same /\ piWrite.covers
Trusted == ~piSuppress \/ (piWrite.pc = "save" /\ Speaks)

DismissedIsCovered ==
  /\ piWrite.pc = "set" /\ (~piSuppress \/ Speaks) => Covered(piWrite)
  /\ Trusted => Covered(piKept)
  /\ Trusted /\ piRead.pc = "read" => Covered(piRead.record)

(* The last job of the queue will write what is shown; else the one under   *)
(* way does.                                                                *)
ShownIsScheduled ==
  piStatus = "ready" =>
    /\ piQueue # <<>> => piQueue[Len(piQueue)] = piIdentity
    /\ piQueue = <<>> /\ piWrite # NoWrite =>
         /\ Speaks /\ piWrite.entries = piPending
         /\ piWrite.pc = "save" => OfOwner(piKept) = piPending

InboxInv ==
  /\ PendingTypeOK /\ RecordsAreOwn /\ OneActivation /\ DismissedIsCovered
  /\ ShownIsScheduled /\ InboxIsSound

----------------------------------------------------------------------------
LEMMA InboxInvInit == PendingInit => InboxInv
<1> SUFFICES ASSUME PendingInit PROVE InboxInv
  OBVIOUS
<1>1. NoRecord \in Records /\ Owned(NoRecord)
  BY DEF NoRecord, Records, Owned
<1>2. piDisk \in Records /\ Owned(piDisk)
  <2>1. ASSUME NEW o \in Identities, NEW i \in Invites, To[i] = o,
               piDisk = [owner |-> o, entries |-> {i}]
        PROVE  piDisk \in Records /\ Owned(piDisk)
    BY <2>1 DEF Records, Owned
  <2> QED BY <1>1, <2>1 DEF PendingInit
<1>3. NoRead \in Reads /\ NoRead.pc = "none" /\ NoRead.record = NoRecord
  BY <1>1 DEF NoRead, Reads
<1>4. NoWrite \in Writes /\ Owned(NoWrite) /\ NoWrite.pc = "none" /\ NoWrite.same = FALSE
  BY DEF NoWrite, Writes, Owned
<1>5. PendingTypeOK
  <2>1. <<>> \in Seq(Identities \union {Nobody})
    OBVIOUS
  <2> QED BY <1>2, <1>3, <1>4, <2>1 DEF PendingInit, PendingTypeOK
<1>6. RecordsAreOwn /\ OneActivation
  BY <1>1, <1>2, <1>3, <1>4 DEF PendingInit, RecordsAreOwn, OneActivation
<1>7. DismissedIsCovered /\ ShownIsScheduled /\ InboxIsSound
  BY <1>4 DEF PendingInit, DismissedIsCovered, Covered, ShownIsScheduled, InboxIsSound,
              InvitesAreOwn, DismissedStays, FileFollows
<1> QED BY <1>5, <1>6, <1>7 DEF InboxInv

(* A write that speaks for its activation, or for the list, no more.        *)
LEMMA Muted ==
  ASSUME NEW w \in Writes
  PROVE  /\ LET s == [w EXCEPT !.same = FALSE]
            IN  /\ s \in Writes /\ s.pc = w.pc /\ s.owner = w.owner
                /\ s.entries = w.entries /\ s.same = FALSE
                /\ w = NoWrite => s = NoWrite
         /\ LET c == [w EXCEPT !.covers = FALSE]
            IN  /\ c \in Writes /\ c.pc = w.pc /\ c.owner = w.owner
                /\ c.entries = w.entries /\ c.same = w.same /\ c.covers = FALSE
                /\ w = NoWrite => c = NoWrite
<1> DEFINE s == [w EXCEPT !.same = FALSE]
           c == [w EXCEPT !.covers = FALSE]
<1>1. /\ s \in Writes /\ s.pc = w.pc /\ s.owner = w.owner
      /\ s.entries = w.entries /\ s.same = FALSE
  BY DEF Writes
<1>2. /\ c \in Writes /\ c.pc = w.pc /\ c.owner = w.owner
      /\ c.entries = w.entries /\ c.same = w.same /\ c.covers = FALSE
  BY DEF Writes
<1>3. w = NoWrite => s = NoWrite /\ c = NoWrite
  <2>1. [w EXCEPT !.same = w.same] = w /\ [w EXCEPT !.covers = w.covers] = w
    BY DEF Writes
  <2>2. w = NoWrite => w.same = FALSE /\ w.covers = FALSE
    BY DEF NoWrite
  <2> QED BY <2>1, <2>2
<1> QED BY <1>1, <1>2, <1>3

(* The identity is left: nothing is shown, read or dismissed any more.      *)
LEMMA LeftKeeps ==
  ASSUME InboxInv, piIdentity' = Nobody, piStatus' = "idle", piPending' = {},
         piTombs' = {}, piSuppress' = FALSE, piReady' = FALSE, piRead' = NoRead,
         piDismissed' = {}, piUnsaved' = FALSE, UNCHANGED <<piDisk, piGone>>,
         \/ /\ piWrite' = [piWrite EXCEPT !.same = FALSE]
            /\ UNCHANGED <<piQueue, piKept>>
         \/ piWrite' = NoWrite /\ piQueue' = <<>> /\ piKept' = piDisk
  PROVE  InboxInv'
<1> USE DEF InboxInv
<1>1. NoRead \in Reads /\ NoRead.pc = "none" /\ NoRead.record = NoRecord
      /\ Owned(NoRecord)
  BY DEF NoRead, Reads, NoRecord, Records, Owned
<1>2. NoWrite \in Writes /\ Owned(NoWrite) /\ NoWrite.pc = "none" /\ NoWrite.same = FALSE
  BY DEF NoWrite, Writes, Owned
<1>3. /\ piWrite' \in Writes /\ piWrite'.same = FALSE
      /\ piWrite'.pc = "none" <=> piWrite' = NoWrite
      /\ Owned(piWrite')
  <2>1. piWrite \in Writes /\ Owned(piWrite) /\ (piWrite.pc = "none" <=> piWrite = NoWrite)
    BY DEF PendingTypeOK, OneActivation, RecordsAreOwn
  <2>2. CASE piWrite' = NoWrite
    BY <1>2, <2>2
  <2>3. CASE piWrite' = [piWrite EXCEPT !.same = FALSE]
    BY <1>2, <2>1, <2>3, Muted DEF Owned
  <2> QED BY <2>2, <2>3
<1>4. PendingTypeOK'
  <2>1. piQueue' \in Seq(Identities \union {Nobody}) /\ piKept' \in Records
    <3>1. <<>> \in Seq(Identities \union {Nobody})
      OBVIOUS
    <3>2. /\ piQueue \in Seq(Identities \union {Nobody})
          /\ piKept \in Records /\ piDisk \in Records
      BY DEF PendingTypeOK
    <3> QED BY <3>1, <3>2
  <2> QED BY <1>1, <1>3, <2>1 DEF PendingTypeOK
<1>5. RecordsAreOwn'
  BY <1>1, <1>3 DEF RecordsAreOwn, Owned
<1>6. OneActivation'
  BY <1>1, <1>3 DEF OneActivation
<1>7. DismissedIsCovered' /\ ShownIsScheduled' /\ InboxIsSound'
  BY DEF DismissedIsCovered, Covered, ShownIsScheduled, InboxIsSound, InvitesAreOwn,
         DismissedStays, FileFollows
<1> QED BY <1>4, <1>5, <1>6, <1>7

LEMMA ActivateKeeps ==
  ASSUME InboxInv, NEW o \in Identities, Activate(o) PROVE InboxInv'
<1> USE DEF InboxInv
<1>1. /\ piPending = {} /\ piStatus # "ready" /\ ~piReady /\ piRead.pc = "none"
      /\ ~piWrite.same /\ piDismissed = {} /\ piIdentity' = o /\ o # Nobody
      /\ UNCHANGED <<piStatus, piPending, piTombs, piSuppress, piReady, piRead, piQueue,
                     piWrite, piFile, piGone, piPast>>
  BY InvitesAssumption
     DEF Activate, InboxIsSound, InvitesAreOwn, OneActivation, PendingTypeOK
<1> USE DEF piFile, piPast
<1>2. PendingTypeOK' /\ RecordsAreOwn'
  BY <1>1 DEF PendingTypeOK, RecordsAreOwn, Owned
<1>3. OneActivation'
  BY <1>1 DEF OneActivation
<1>4. DismissedIsCovered' /\ ShownIsScheduled' /\ InboxIsSound'
  BY <1>1 DEF DismissedIsCovered, Covered, ShownIsScheduled, InboxIsSound, InvitesAreOwn,
              DismissedStays, FileFollows
<1> QED BY <1>2, <1>3, <1>4


(* Whatever was changed, a write behind the queue is due if one is allowed. *)
LEMMA ScheduledAnew ==
  ASSUME InboxInv, WriteQueued, UNCHANGED <<piStatus, piReady, piIdentity>>
  PROVE  /\ piQueue' \in Seq(Identities \union {Nobody})
         /\ ShownIsScheduled' /\ FileFollows'
<1>1. /\ piQueue \in Seq(Identities \union {Nobody}) /\ piIdentity \in Identities \union {Nobody}
      /\ piReady <=> piStatus = "ready"
  BY DEF InboxInv, PendingTypeOK, OneActivation
<1>2. CASE piReady
  <2>1. piQueue' = Append(piQueue, piIdentity)
    BY <1>2 DEF WriteQueued
  <2>2. /\ piQueue' \in Seq(Identities \union {Nobody}) /\ piQueue' # <<>>
        /\ piQueue'[Len(piQueue')] = piIdentity
    BY <1>1, <2>1
  <2> QED BY <2>2 DEF ShownIsScheduled, FileFollows
<1>3. CASE ~piReady
  BY <1>1, <1>3 DEF WriteQueued, ShownIsScheduled, FileFollows
<1> QED BY <1>2, <1>3

(* Rows that leave the list by a dismissal get their tombstones.            *)
LEMMA TombsKeep ==
  ASSUME InboxInv, NEW rows \in SUBSET piPending, piTombs' = Tombs(rows), Dismissed(rows),
         piPending' = piPending \ rows,
         UNCHANGED <<piIdentity, piSuppress, piWrite, piKept>>,
         piRead'.pc = "read" => piRead' = piRead
  PROVE  /\ piTombs' \in SUBSET Invites /\ piDismissed' \in SUBSET Invites
         /\ DismissedIsCovered' /\ InvitesAreOwn' /\ DismissedStays'
<1> USE DEF InboxInv
<1>1. piTombs' \in SUBSET Invites /\ piDismissed' \in SUBSET Invites
  BY DEF Tombs, Dismissed, PendingTypeOK
<1>2. \A i : i \in piDismissed' => i \in piTombs' \/ (i \in piDismissed /\ i \notin piTombs)
  BY DEF Tombs, Dismissed
<1>3. DismissedIsCovered'
  BY <1>2 DEF DismissedIsCovered, Covered, Trusted, Speaks
<1>4. InvitesAreOwn' /\ DismissedStays'
  BY DEF InboxIsSound, InvitesAreOwn, DismissedStays, Dismissed
<1> QED BY <1>1, <1>3, <1>4

LEMMA ReconcileKeeps ==
  ASSUME InboxInv, NEW friends \in Rosters, Reconcile(friends) PROVE InboxInv'
<1> USE DEF InboxInv
<1> DEFINE revoked == {i \in piPending : i \in piGone \/ i \notin friends}
           read == [pc |-> "asked", friends |-> friends, record |-> NoRecord]
<1>1. /\ piIdentity # Nobody /\ piReady' = FALSE /\ piStatus' = "loading"
      /\ piPending' = piPending \ revoked /\ piTombs' = Tombs(revoked)
      /\ Dismissed(revoked) /\ piRead' = read
      /\ UNCHANGED <<piIdentity, piSuppress, piQueue, piWrite, piKept, piDisk, piGone,
                     piUnsaved>>
  BY DEF Reconcile, piFile
<1>2. revoked \in SUBSET piPending
  OBVIOUS
<1>3. read \in Reads /\ read.pc = "asked" /\ Owned(read.record)
  <2>1. NoRecord \in Records /\ Owned(NoRecord) /\ friends \in SUBSET Invites
    BY InvitesAssumption DEF NoRecord, Records, Owned
  <2> QED BY <2>1 DEF Reads
<1> HIDE DEF revoked, read
<1>4. /\ piTombs' \in SUBSET Invites /\ piDismissed' \in SUBSET Invites
      /\ DismissedIsCovered' /\ InvitesAreOwn' /\ DismissedStays'
  BY <1>1, <1>2, <1>3, TombsKeep
<1>5. PendingTypeOK'
  BY <1>1, <1>3, <1>4 DEF PendingTypeOK
<1>6. RecordsAreOwn' /\ OneActivation'
  BY <1>1, <1>3 DEF RecordsAreOwn, OneActivation, Owned
<1>7. ShownIsScheduled' /\ FileFollows'
  BY <1>1 DEF ShownIsScheduled, FileFollows
<1> QED BY <1>4, <1>5, <1>6, <1>7 DEF InboxIsSound

LEMMA RemoveInviteKeeps ==
  ASSUME InboxInv, NEW rows \in SUBSET piPending, RemoveInvite(rows) PROVE InboxInv'
<1> USE DEF InboxInv
<1>1. /\ piPending' = piPending \ rows /\ piTombs' = Tombs(rows) /\ Dismissed(rows)
      /\ WriteQueued /\ rows # {}
      /\ UNCHANGED <<piIdentity, piStatus, piSuppress, piReady, piRead, piWrite, piKept,
                     piDisk, piGone, piUnsaved>>
  BY DEF RemoveInvite, piFile
<1>2. piIdentity # Nobody
  BY <1>1, InvitesAssumption DEF InboxIsSound, InvitesAreOwn, PendingTypeOK
<1>3. /\ piTombs' \in SUBSET Invites /\ piDismissed' \in SUBSET Invites
      /\ DismissedIsCovered' /\ InvitesAreOwn' /\ DismissedStays'
  BY <1>1, TombsKeep
<1>4. /\ piQueue' \in Seq(Identities \union {Nobody})
      /\ ShownIsScheduled' /\ FileFollows'
  BY <1>1, ScheduledAnew
<1>5. PendingTypeOK'
  BY <1>1, <1>3, <1>4 DEF PendingTypeOK
<1>6. RecordsAreOwn' /\ OneActivation'
  BY <1>1, <1>2 DEF RecordsAreOwn, OneActivation, Owned
<1> QED BY <1>3, <1>4, <1>5, <1>6 DEF InboxIsSound

(* A live delivery takes the place of another one of the same session, and  *)
(* of what was dismissed of it.                                             *)
LEMMA DeliverKeeps ==
  ASSUME InboxInv, NEW i \in Invites, Deliver(i) PROVE InboxInv'
<1> USE DEF InboxInv
<1>1. /\ piIdentity = To[i] /\ i \notin piGone
      /\ piTombs' = {t \in piTombs : ~SameTopic(i, t)} \union (piPending \intersect piGone)
      /\ piPending' = {j \in piPending : ~SameTopic(i, j) /\ j \notin piGone} \union {i}
      /\ piDismissed' = {j \in piDismissed : ~SameTopic(i, j)}
                           \union (piPending \intersect piGone)
      /\ WriteQueued
      /\ UNCHANGED <<piIdentity, piStatus, piSuppress, piReady, piRead, piWrite, piKept,
                     piDisk, piGone, piUnsaved>>
  BY DEF Deliver, piFile
<1>2. piIdentity # Nobody
  BY <1>1, InvitesAssumption
<1>3. /\ piQueue' \in Seq(Identities \union {Nobody})
      /\ ShownIsScheduled' /\ FileFollows'
  BY <1>1, ScheduledAnew
<1>4. PendingTypeOK'
  BY <1>1, <1>3 DEF PendingTypeOK
<1>5. RecordsAreOwn' /\ OneActivation'
  BY <1>1, <1>2 DEF RecordsAreOwn, OneActivation, Owned
<1>6. \A j : j \in piDismissed' => j \in piTombs' \/ (j \in piDismissed /\ j \notin piTombs)
  BY <1>1
<1>7. DismissedIsCovered'
  BY <1>1, <1>6 DEF DismissedIsCovered, Covered, Trusted, Speaks
<1>8. InvitesAreOwn' /\ DismissedStays'
  BY <1>1 DEF InboxIsSound, InvitesAreOwn, DismissedStays, SameTopic
<1> QED BY <1>3, <1>4, <1>5, <1>7, <1>8 DEF InboxIsSound

(* Clearing leaves no tombstones for what is only on disk: nothing of it is *)
(* trusted until a write of after the clear is saved.                       *)
LEMMA ClearKeeps ==
  ASSUME InboxInv, Clear PROVE InboxInv'
<1> USE DEF InboxInv
<1>1. /\ piIdentity # Nobody /\ piTombs' = Tombs(piPending) /\ piSuppress' = TRUE
      /\ piWrite' = [piWrite EXCEPT !.covers = FALSE]
      /\ piPending' = {} /\ piDismissed' = Invites /\ WriteQueued
      /\ UNCHANGED <<piIdentity, piStatus, piReady, piRead, piKept, piDisk, piGone,
                     piUnsaved>>
  BY DEF Clear, piFile
<1>2. /\ piWrite' \in Writes /\ piWrite'.pc = piWrite.pc /\ piWrite'.owner = piWrite.owner
      /\ piWrite'.entries = piWrite.entries /\ piWrite'.same = piWrite.same
      /\ piWrite'.covers = FALSE /\ (piWrite = NoWrite => piWrite' = NoWrite)
  <2>1. piWrite \in Writes
    BY DEF PendingTypeOK
  <2> QED BY <1>1, <2>1, Muted
<1>3. /\ piQueue' \in Seq(Identities \union {Nobody})
      /\ ShownIsScheduled' /\ FileFollows'
  BY <1>1, ScheduledAnew
<1>4. PendingTypeOK'
  BY <1>1, <1>2, <1>3 DEF PendingTypeOK, Tombs
<1>5. RecordsAreOwn' /\ OneActivation'
  <2>1. piWrite' = NoWrite => piWrite'.pc = "none"
    BY DEF NoWrite
  <2> QED BY <1>1, <1>2, <2>1 DEF RecordsAreOwn, OneActivation, Owned
<1>6. DismissedIsCovered'
  BY <1>1, <1>2 DEF DismissedIsCovered, Trusted, Speaks
<1>7. InvitesAreOwn' /\ DismissedStays'
  BY <1>1 DEF InvitesAreOwn, DismissedStays
<1> QED BY <1>3, <1>4, <1>5, <1>6, <1>7 DEF InboxIsSound

(* A read that fails, or that an identity does not wait for any more.        *)
LEMMA ReadSamplesKeeps ==
  ASSUME InboxInv, ReadSamples PROVE InboxInv'
<1> USE DEF InboxInv
<1>1. /\ piRead.pc = "asked" /\ piWrite.pc # "set"
      /\ piRead' = [piRead EXCEPT !.pc = "read", !.record = piKept]
      /\ UNCHANGED <<piIdentity, piStatus, piPending, piTombs, piSuppress, piReady, piQueue,
                     piWrite, piKept, piDisk, piGone, piDismissed, piUnsaved>>
  BY DEF ReadSamples, piStore, piFile, piPast
<1>2. piRead' \in Reads /\ piRead'.pc = "read" /\ piRead'.record = piKept
  <2>1. piRead \in Reads /\ piKept \in Records
    BY DEF PendingTypeOK
  <2> QED BY <1>1, <2>1 DEF Reads
<1>3. PendingTypeOK' /\ RecordsAreOwn' /\ OneActivation'
  BY <1>1, <1>2 DEF PendingTypeOK, RecordsAreOwn, Owned, OneActivation
<1>4. DismissedIsCovered'
  BY <1>1, <1>2 DEF DismissedIsCovered, Covered, Trusted, Speaks
<1>5. ShownIsScheduled' /\ InboxIsSound'
  BY <1>1 DEF ShownIsScheduled, Speaks, OfOwner, InboxIsSound, InvitesAreOwn,
              DismissedStays, FileFollows
<1> QED BY <1>3, <1>4, <1>5

LEMMA ReadLostKeeps ==
  ASSUME InboxInv, ReadLost PROVE InboxInv'
<1> USE DEF InboxInv
<1>1. /\ piRead.pc = "asked" /\ piRead' = NoRead /\ piStatus' = "degraded"
      /\ UNCHANGED <<piIdentity, piPending, piTombs, piSuppress, piReady, piQueue,
                     piWrite, piKept, piDisk, piGone, piDismissed, piUnsaved>>
  BY DEF ReadLost, piFile, piPast
<1>2. NoRead \in Reads /\ NoRead.pc = "none" /\ Owned(NoRead.record)
  BY DEF NoRead, Reads, NoRecord, Records, Owned
<1>3. PendingTypeOK' /\ RecordsAreOwn' /\ OneActivation'
  BY <1>1, <1>2 DEF PendingTypeOK, RecordsAreOwn, Owned, OneActivation
<1>4. DismissedIsCovered'
  BY <1>1, <1>2 DEF DismissedIsCovered, Covered, Trusted, Speaks
<1>5. ShownIsScheduled' /\ InboxIsSound'
  BY <1>1 DEF ShownIsScheduled, InboxIsSound, InvitesAreOwn, DismissedStays, FileFollows
<1> QED BY <1>3, <1>4, <1>5

(* What is restored was not dismissed: it is covered, and no tombstone      *)
(* speaks of it; and nothing is restored across a clear.                    *)
LEMMA ReadReturnsKeeps ==
  ASSUME InboxInv, ReadReturns PROVE InboxInv'
<1> USE DEF InboxInv
<1> DEFINE alive == {i \in piPending : i \notin piGone /\ i \in piRead.friends}
           revoked == piPending \ alive
<1>1. /\ piRead.pc = "read" /\ piRead' = NoRead
      /\ piTombs' = Tombs(revoked) /\ Dismissed(revoked)
      /\ piPending' = WithLive(Restored, alive)
      /\ piStatus' = "ready" /\ piReady' = TRUE /\ piQueue' = Append(piQueue, piIdentity)
      /\ UNCHANGED <<piIdentity, piSuppress, piWrite, piKept, piDisk, piGone, piUnsaved>>
  BY DEF ReadReturns, piFile
<1>2. NoRead \in Reads /\ NoRead.pc = "none" /\ Owned(NoRead.record)
  BY DEF NoRead, Reads, NoRecord, Records, Owned
<1>3. /\ \A i \in Restored : /\ ~piSuppress /\ i \in piRead.record.entries
                              /\ piRead.record.owner = piIdentity
                              /\ i \notin piTombs /\ i \notin revoked
      /\ piPending' \subseteq alive \union Restored
  BY <1>1 DEF Restored, OfOwner, WithLive
<1>4. revoked \subseteq piPending /\ alive \subseteq piPending /\ alive \intersect revoked = {}
  OBVIOUS
<1> HIDE DEF alive, revoked
<1>5. \A i \in Restored : i \notin piDismissed /\ To[i] = piIdentity /\ i \in Invites
  <2>1. piRead.record.entries \subseteq Invites
    BY DEF PendingTypeOK, Reads, Records
  <2> QED BY <1>1, <1>3, <2>1 DEF DismissedIsCovered, Covered, Trusted, RecordsAreOwn, Owned
<1>6. InvitesAreOwn' /\ DismissedStays'
  BY <1>1, <1>3, <1>4, <1>5 DEF InboxIsSound, InvitesAreOwn, DismissedStays, Dismissed
<1>7. /\ piQueue' \in Seq(Identities \union {Nobody}) /\ piQueue' # <<>>
      /\ piQueue'[Len(piQueue')] = piIdentity
  BY <1>1 DEF PendingTypeOK
<1>8. PendingTypeOK'
  <2>1. /\ piPending' \in SUBSET Invites /\ piTombs' \in SUBSET Invites
        /\ piDismissed' \in SUBSET Invites
    BY <1>1, <1>3, <1>4, <1>5 DEF PendingTypeOK, Tombs, Dismissed
  <2> QED BY <1>1, <1>2, <1>7, <2>1 DEF PendingTypeOK
<1>9. RecordsAreOwn' /\ OneActivation'
  BY <1>1, <1>2 DEF RecordsAreOwn, Owned, OneActivation
<1>10. DismissedIsCovered'
  <2>1. \A i : i \in piDismissed'
                => i \in piTombs' \/ (i \in piDismissed /\ i \notin piTombs)
    BY <1>1 DEF Tombs, Dismissed
  <2> QED BY <1>1, <1>2, <2>1 DEF DismissedIsCovered, Covered, Trusted, Speaks
<1>11. ShownIsScheduled' /\ FileFollows'
  BY <1>1, <1>7 DEF ShownIsScheduled, FileFollows
<1> QED BY <1>6, <1>8, <1>9, <1>10, <1>11 DEF InboxIsSound

LEMMA ExpireKeeps ==
  ASSUME InboxInv, NEW i \in Invites, Expire(i) PROVE InboxInv'
<1> USE DEF InboxInv
<1>1. /\ piGone' \in SUBSET Invites
      /\ UNCHANGED <<piIdentity, piStatus, piPending, piTombs, piSuppress, piReady, piRead,
                     piQueue, piWrite, piKept, piDisk, piDismissed, piUnsaved>>
  BY DEF Expire, piStore, piFile, piPast, PendingTypeOK
<1>2. PendingTypeOK' /\ RecordsAreOwn' /\ OneActivation'
  BY <1>1 DEF PendingTypeOK, RecordsAreOwn, Owned, OneActivation
<1>3. DismissedIsCovered' /\ ShownIsScheduled' /\ InboxIsSound'
  BY <1>1 DEF DismissedIsCovered, Covered, Trusted, Speaks, ShownIsScheduled, OfOwner,
              InboxIsSound, InvitesAreOwn, DismissedStays, FileFollows
<1> QED BY <1>2, <1>3

----------------------------------------------------------------------------
LEMMA JobBeginsKeeps ==
  ASSUME InboxInv, JobBegins PROVE InboxInv'
<1> USE DEF InboxInv
<1> DEFINE w == [pc |-> "set", owner |-> piIdentity, entries |-> piPending, same |-> TRUE,
                 covers |-> TRUE]
<1>1. /\ piQueue # <<>> /\ piWrite = NoWrite /\ piQueue' = Tail(piQueue)
      /\ UNCHANGED <<piIdentity, piStatus, piPending, piTombs, piSuppress, piReady, piRead,
                     piKept, piDisk, piGone, piDismissed, piUnsaved>>
      /\ \/ /\ Head(piQueue) = piIdentity /\ piStatus = "ready" /\ piReady /\ piWrite' = w
         \/ /\ ~(Head(piQueue) = piIdentity /\ piStatus = "ready" /\ piReady)
            /\ piWrite' = NoWrite
  BY DEF JobBegins, piStore, piFile, piPast
<1>2. /\ piQueue \in Seq(Identities \union {Nobody})
      /\ piQueue' \in Seq(Identities \union {Nobody})
      /\ piQueue' # <<>> => piQueue'[Len(piQueue')] = piQueue[Len(piQueue)]
      /\ piQueue' = <<>> => Head(piQueue) = piQueue[Len(piQueue)]
  BY <1>1 DEF PendingTypeOK
<1>3. NoWrite \in Writes /\ NoWrite.pc = "none" /\ NoWrite.same = FALSE /\ Owned(NoWrite)
  BY DEF NoWrite, Writes, Owned
<1>4. CASE Head(piQueue) = piIdentity /\ piStatus = "ready" /\ piReady /\ piWrite' = w
  <2>1. /\ w \in Writes /\ w.pc = "set" /\ w.owner = piIdentity /\ w.entries = piPending
        /\ w.same = TRUE /\ w.covers = TRUE
    BY DEF Writes, PendingTypeOK
  <2> HIDE DEF w
  <2>2. w # NoWrite /\ piRead.pc = "none" /\ piIdentity # Nobody
    BY <1>3, <1>4, <2>1 DEF OneActivation, PendingTypeOK
  <2>3. PendingTypeOK'
    BY <1>1, <1>2, <1>4, <2>1 DEF PendingTypeOK
  <2>4. RecordsAreOwn' /\ OneActivation'
    BY <1>1, <1>4, <2>1, <2>2
       DEF RecordsAreOwn, Owned, OneActivation, InboxIsSound, InvitesAreOwn
  <2>5. DismissedIsCovered'
    BY <1>1, <1>3, <1>4, <2>1, <2>2
       DEF DismissedIsCovered, Covered, Trusted, Speaks, InboxIsSound, DismissedStays
  <2>6. ShownIsScheduled' /\ InboxIsSound'
    BY <1>1, <1>2, <1>4, <2>1, <2>2
       DEF ShownIsScheduled, Speaks, InboxIsSound, InvitesAreOwn, DismissedStays, FileFollows
  <2> QED BY <2>3, <2>4, <2>5, <2>6
<1>5. CASE ~(Head(piQueue) = piIdentity /\ piStatus = "ready" /\ piReady)
           /\ piWrite' = NoWrite
  <2>1. PendingTypeOK' /\ RecordsAreOwn' /\ OneActivation'
    BY <1>1, <1>2, <1>3, <1>5 DEF PendingTypeOK, RecordsAreOwn, Owned, OneActivation
  <2>2. DismissedIsCovered'
    BY <1>1, <1>3, <1>5 DEF DismissedIsCovered, Covered, Trusted, Speaks
  <2>3. piStatus = "ready" => piQueue' # <<>>
    BY <1>1, <1>2, <1>5 DEF ShownIsScheduled, OneActivation
  <2>4. ShownIsScheduled' /\ InboxIsSound'
    BY <1>1, <1>2, <1>5, <2>3
       DEF ShownIsScheduled, InboxIsSound, InvitesAreOwn, DismissedStays, FileFollows
  <2> QED BY <2>1, <2>2, <2>4
<1> QED BY <1>1, <1>4, <1>5

LEMMA JobSetsKeeps ==
  ASSUME InboxInv, JobSets PROVE InboxInv'
<1> USE DEF InboxInv
<1>1. /\ piWrite.pc = "set" /\ piWrite' = [piWrite EXCEPT !.pc = "save"]
      /\ piKept' = IF piWrite.entries = {} THEN NoRecord
                   ELSE [owner |-> piWrite.owner, entries |-> piWrite.entries]
      /\ UNCHANGED <<piIdentity, piStatus, piPending, piTombs, piSuppress, piReady, piRead,
                     piQueue, piDisk, piGone, piDismissed, piUnsaved>>
  BY DEF JobSets, piStore, piPast
<1>2. piWrite \in Writes
  BY DEF PendingTypeOK
<1>3. /\ piWrite' \in Writes /\ piWrite'.pc = "save" /\ piWrite'.owner = piWrite.owner
      /\ piWrite'.entries = piWrite.entries /\ piWrite'.same = piWrite.same
      /\ piWrite'.covers = piWrite.covers
  BY <1>1, <1>2 DEF Writes
<1>4. piWrite' # NoWrite /\ piWrite # NoWrite
  BY <1>1, <1>3 DEF NoWrite
<1>5. /\ piKept' \in Records /\ Owned(piKept')
      /\ piKept'.entries = piWrite.entries
      /\ piKept'.entries # {} => piKept'.owner = piWrite.owner
  BY <1>1, <1>2 DEF NoRecord, Records, Owned, RecordsAreOwn, Writes
<1>6. PendingTypeOK' /\ RecordsAreOwn' /\ OneActivation'
  BY <1>1, <1>3, <1>4, <1>5 DEF PendingTypeOK, RecordsAreOwn, Owned, OneActivation
<1>7. DismissedIsCovered'
  <2>1. Trusted' => (~piSuppress \/ Speaks)
    BY <1>1, <1>3 DEF Trusted, Speaks
  <2>2. Trusted' => Covered(piWrite)
    BY <1>1, <2>1 DEF DismissedIsCovered
  <2>3. Trusted' => Covered(piKept)'
    BY <1>1, <1>5, <2>2 DEF Covered
  <2>4. piRead.pc # "read"
    BY <1>1 DEF OneActivation
  <2> QED BY <1>1, <1>3, <2>3, <2>4 DEF DismissedIsCovered
<1>8. ShownIsScheduled'
  <2>1. piStatus = "ready" /\ piQueue = <<>>
          => /\ Speaks /\ piWrite.entries = piPending
             /\ OfOwner(piKept)' = piPending
    BY <1>1, <1>4, <1>5 DEF ShownIsScheduled, Speaks, OneActivation, OfOwner
  <2> QED BY <1>1, <1>3, <2>1 DEF ShownIsScheduled, Speaks
<1>9. InboxIsSound'
  BY <1>1, <1>4 DEF InboxIsSound, InvitesAreOwn, DismissedStays, FileFollows
<1> QED BY <1>6, <1>7, <1>8, <1>9

LEMMA JobSavesKeeps ==
  ASSUME InboxInv, JobSaves PROVE InboxInv'
<1> USE DEF InboxInv
<1>1. /\ piWrite.pc = "save" /\ piDisk' = piKept /\ piWrite' = NoWrite
      /\ piSuppress' = (piSuppress /\ ~Speaks)
      /\ piUnsaved' = IF piWrite.same THEN FALSE ELSE piUnsaved
      /\ UNCHANGED <<piIdentity, piStatus, piPending, piTombs, piReady, piRead, piQueue,
                     piKept, piGone, piDismissed>>
  BY DEF JobSaves, StopsSuppressing, Speaks
<1>2. NoWrite \in Writes /\ NoWrite.pc = "none" /\ NoWrite.same = FALSE /\ Owned(NoWrite)
  BY DEF NoWrite, Writes, Owned
<1>3. piSuppress' \in BOOLEAN /\ piUnsaved' \in BOOLEAN
  <2>1. piUnsaved \in BOOLEAN /\ (piSuppress /\ ~Speaks) \in BOOLEAN
    BY DEF PendingTypeOK
  <2> QED BY <1>1, <2>1
<1>4. PendingTypeOK'
  BY <1>1, <1>2, <1>3 DEF PendingTypeOK
<1>5. RecordsAreOwn' /\ OneActivation'
  BY <1>1, <1>2 DEF RecordsAreOwn, Owned, OneActivation
<1>6. DismissedIsCovered'
  <2>1. ~piSuppress' => Trusted
    BY <1>1 DEF Trusted
  <2> QED BY <1>1, <1>2, <2>1 DEF DismissedIsCovered, Covered, Trusted, Speaks
<1>7. ShownIsScheduled'
  BY <1>1 DEF ShownIsScheduled
<1>8. FileFollows'
  <2>1. piWrite # NoWrite
    BY <1>1, <1>2
  <2> QED BY <1>1, <2>1 DEF ShownIsScheduled, FileFollows, OfOwner
<1>9. InvitesAreOwn' /\ DismissedStays'
  BY <1>1 DEF InboxIsSound, InvitesAreOwn, DismissedStays
<1> QED BY <1>4, <1>5, <1>6, <1>7, <1>8, <1>9 DEF InboxIsSound

LEMMA JobFailsKeeps ==
  ASSUME InboxInv, JobFails PROVE InboxInv'
<1> USE DEF InboxInv
<1>1. /\ piWrite' = NoWrite /\ piUnsaved' = TRUE
      /\ UNCHANGED <<piIdentity, piStatus, piPending, piTombs, piSuppress, piReady, piRead,
                     piQueue, piKept, piDisk, piGone, piDismissed>>
  BY DEF JobFails, piStore, piFile
<1>2. NoWrite \in Writes /\ NoWrite.pc = "none" /\ NoWrite.same = FALSE /\ Owned(NoWrite)
  BY DEF NoWrite, Writes, Owned
<1>3. PendingTypeOK' /\ RecordsAreOwn' /\ OneActivation'
  BY <1>1, <1>2 DEF PendingTypeOK, RecordsAreOwn, Owned, OneActivation
<1>4. DismissedIsCovered'
  BY <1>1, <1>2 DEF DismissedIsCovered, Covered, Trusted, Speaks
<1>5. ShownIsScheduled' /\ InboxIsSound'
  BY <1>1 DEF ShownIsScheduled, InboxIsSound, InvitesAreOwn, DismissedStays, FileFollows
<1> QED BY <1>3, <1>4, <1>5

LEMMA InboxInvNext == InboxInv /\ [PendingNext]_piVars => InboxInv'
<1> SUFFICES ASSUME InboxInv, [PendingNext]_piVars PROVE InboxInv'
  OBVIOUS
<1>1. CASE Deactivate
  BY <1>1, LeftKeeps DEF Deactivate, piFile
<1>2. CASE Relaunch
  BY <1>2, LeftKeeps DEF Relaunch
<1>3. ASSUME NEW o \in Identities, Activate(o) PROVE InboxInv'
  BY <1>3, ActivateKeeps
<1>4. ASSUME NEW friends \in Rosters, Reconcile(friends) PROVE InboxInv'
  BY <1>4, ReconcileKeeps
<1>5. CASE ReadSamples \/ ReadLost \/ ReadReturns
  BY <1>5, ReadSamplesKeeps, ReadLostKeeps, ReadReturnsKeeps
<1>6. ASSUME NEW i \in Invites, Deliver(i) \/ RemoveOne(i) \/ Expire(i) PROVE InboxInv'
  <2>1. RemoveOne(i) => {i} \in SUBSET piPending /\ RemoveInvite({i})
    BY DEF RemoveOne, RemoveInvite
  <2> QED BY <1>6, <2>1, DeliverKeeps, RemoveInviteKeeps, ExpireKeeps
<1>7. CASE Prune
  <2>1. piPending \intersect piGone \in SUBSET piPending
    OBVIOUS
  <2> QED BY <1>7, <2>1, RemoveInviteKeeps DEF Prune
<1>8. CASE Clear
  BY <1>8, ClearKeeps
<1>9. CASE JobBegins \/ JobSets \/ JobSaves \/ JobFails
  BY <1>9, JobBeginsKeeps, JobSetsKeeps, JobSavesKeeps, JobFailsKeeps
<1>10. CASE UNCHANGED piVars
  <2>1. UNCHANGED <<piIdentity, piStatus, piPending, piTombs, piSuppress, piReady, piRead,
                    piQueue, piWrite, piKept, piDisk, piGone, piDismissed, piUnsaved>>
    BY <1>10 DEF piVars, piStore, piFile, piPast
  <2> QED BY <2>1 DEF InboxInv, PendingTypeOK, RecordsAreOwn, Owned, OneActivation,
             DismissedIsCovered, Covered, Trusted, Speaks, ShownIsScheduled, OfOwner,
             InboxIsSound, InvitesAreOwn, DismissedStays, FileFollows
<1> QED BY <1>1, <1>2, <1>3, <1>4, <1>5, <1>6, <1>7, <1>8, <1>9, <1>10 DEF PendingNext

(* Property: nobody is shown what another identity was sent, what was       *)
(* dismissed stays dismissed, and the file in the end says what is shown    *)
(* (reconcile, clear and schedulePersistence of pendingInvitesStore.ts),    *)
(* for any identities, invitations, switches, faults and rosters.           *)
THEOREM InboxAlwaysSound == PendingSpec => []InboxIsSound
<1>1. InboxInv => InboxIsSound
  BY DEF InboxInv
<1> QED BY <1>1, InboxInvInit, InboxInvNext, PTL DEF PendingSpec

----------------------------------------------------------------------------
(* The broker. An unlink condemns the credentials of before it, for any     *)
(* accounts, any number of requests, logins, alarms and restarts that       *)
(* overlap at every await.                                                  *)
(*                                                                         *)
(* What is promised speaks of the credentials the client was given; an      *)
(* unlink only knows those in its tables. It works because a credential     *)
(* that was given and is alive is always in one of the two tables, and      *)
(* because the issuance that holds activeIssuances is the latest one.       *)

BrokerTypeOK ==
  /\ brNumber \in Nat /\ brLogins \in Nat
  /\ brHandler \in [Handlers -> [pc : {"idle", "minting", "revoking"}, cred : Nat]]
  /\ brLogin \in [id : Nat, state : {"none", "pending", "exchanging", "ready", "failed"},
                  account : Accounts \union {"none"}]

GivenAreRecorded == brGiven \intersect brAlive \subseteq brIssued \union brDoomed

(* The issuance that may still be handed out was asked for after the unlink. *)
TokenIsLatest ==
  brToken # "none" =>
    /\ brToken \in Handlers /\ brHandler[brToken].cred = brNumber
    /\ brNumber \notin brCondemned

LoginIsLater == brRefused \subseteq 1..brLogins /\ brLogin.id \notin brRefused

BrokerInv ==
  /\ BrokerTypeOK /\ UnlinkCondemns
  /\ GivenAreRecorded /\ TokenIsLatest /\ LoginIsLater
  /\ brCondemned \subseteq 1..brNumber

LEMMA BrokerInvInit == BrokerInit => BrokerInv
BY DEF BrokerInit, BrokerInv, BrokerTypeOK, UnlinkCondemns, GivenAreRecorded,
       TokenIsLatest, LoginIsLater, Resting, NoLogin

(* What a step leaves alone.                                                *)
CredsKept == UNCHANGED <<credVars, brToken, brHandler, brCondemned>>
LoginKept == UNCHANGED <<brLogins, brRefused>> /\ brLogin'.id \in {brLogin.id, 0}
             /\ brLogin' \in [id : Nat,
                              state : {"none", "pending", "exchanging", "ready", "failed"},
                              account : Accounts \union {"none"}]

LEMMA LoginStays ==
  ASSUME BrokerInv, UNCHANGED <<brLogin, brLogins, brRefused>>
  PROVE  LoginKept
BY DEF BrokerInv, BrokerTypeOK, LoginKept

(* A request that is over, and one that is still looked after.              *)
LEMMA FinishKeepsToken ==
  ASSUME BrokerInv, NEW h \in Handlers, Finish(h), UNCHANGED <<brNumber, brCondemned>>
  PROVE  /\ brHandler' \in [Handlers -> [pc : {"idle", "minting", "revoking"}, cred : Nat]]
         /\ TokenIsLatest'
<1>1. brHandler' \in [Handlers -> [pc : {"idle", "minting", "revoking"}, cred : Nat]]
  BY DEF Finish, BrokerInv, BrokerTypeOK, Resting
<1>2. ASSUME brToken' # "none" PROVE brToken' = brToken /\ brToken # h
  BY <1>2 DEF Finish
<1>3. TokenIsLatest'
  BY <1>2 DEF Finish, BrokerInv, TokenIsLatest, BrokerTypeOK
<1> QED BY <1>1, <1>3

LEMMA BrokerInvNext == BrokerInv /\ [BrokerNext]_brVars => BrokerInv'
<1> SUFFICES ASSUME BrokerInv, [BrokerNext]_brVars PROVE BrokerInv'
  OBVIOUS
<1> USE BrokerAssumption
<1>1. ASSUME CredsKept, LoginKept PROVE BrokerInv'
  BY <1>1 DEF CredsKept, LoginKept, credVars, BrokerInv, BrokerTypeOK, UnlinkCondemns,
              GivenAreRecorded, TokenIsLatest, LoginIsLater
<1>2. CASE StartLogin
  <2>1. brLogin' = [id |-> brLogins + 1, state |-> "pending", account |-> "none"]
        /\ brLogins' = brLogins + 1 /\ UNCHANGED <<credVars, workVars, brCondemned, brRefused>>
    BY <1>2 DEF StartLogin
  <2>2. LoginIsLater'
    BY <2>1 DEF BrokerInv, BrokerTypeOK, LoginIsLater
  <2> QED BY <2>1, <2>2 DEF BrokerInv, BrokerTypeOK, UnlinkCondemns, GivenAreRecorded,
                          TokenIsLatest, credVars, workVars
<1>3. CASE CallbackBegins
  <2>1. LoginKept
    BY <1>3 DEF CallbackBegins, LoginKept, BrokerInv, BrokerTypeOK
  <2> QED BY <1>1, <1>3, <2>1 DEF CallbackBegins, CredsKept, workVars
<1>4. ASSUME NEW id \in brExchanges, CallbackEnds(id) PROVE BrokerInv'
  <2>1. LoginKept
    BY <1>4 DEF CallbackEnds, LoginKept, BrokerInv, BrokerTypeOK
  <2> QED BY <1>1, <1>4, <2>1 DEF CallbackEnds, CredsKept, workVars
<1>5. CASE LoginExpires
  <2>1. LoginKept
    BY <1>5 DEF LoginExpires, LoginKept, NoLogin
  <2> QED BY <1>1, <1>5, <2>1 DEF LoginExpires, CredsKept, workVars
<1>6. CASE Confirm
  <2>1. /\ brLogin' = NoLogin /\ brToken' = "none"
        /\ UNCHANGED <<brLogins, credVars, brHandler, brCondemned, brRefused>>
    BY <1>6 DEF Confirm
  <2>2. LoginIsLater' /\ TokenIsLatest' /\ BrokerTypeOK'
    BY <2>1 DEF BrokerInv, BrokerTypeOK, LoginIsLater, TokenIsLatest, NoLogin, credVars
  <2> QED BY <2>1, <2>2 DEF BrokerInv, UnlinkCondemns, GivenAreRecorded, credVars
<1>7. ASSUME NEW a \in Accounts, Unlink(a) PROVE BrokerInv'
  <2>1. /\ brLogin' = NoLogin /\ brToken' = "none"
        /\ brCached' = 0 /\ brIssued' = {}
        /\ brDoomed' = (brDoomed \intersect brAlive) \union (brIssued \intersect brAlive)
        /\ brCondemned' = 1..brNumber /\ brRefused' = 1..brLogins
        /\ UNCHANGED <<brLogins, brNumber, brAlive, brGiven, brHandler>>
    BY <1>7 DEF Unlink, Forget, QueueRevocations, Doom, Current
  <2>2. BrokerTypeOK' /\ LoginIsLater' /\ TokenIsLatest'
    BY <2>1 DEF BrokerInv, BrokerTypeOK, LoginIsLater, TokenIsLatest, NoLogin
  <2>3. UnlinkCondemns' /\ GivenAreRecorded'
    BY <2>1 DEF BrokerInv, UnlinkCondemns, GivenAreRecorded
  <2> QED BY <2>1, <2>2, <2>3 DEF BrokerInv
<1>8. CASE UnlinkEnds
  BY <1>1, <1>8, LoginStays DEF UnlinkEnds, CredsKept, loginVars, workVars
<1>9. ASSUME NEW call \in brCalls, Revoked(call) PROVE BrokerInv'
  <2>1. BrokerTypeOK' /\ LoginIsLater' /\ TokenIsLatest'
    BY <1>9 DEF Revoked, BrokerInv, BrokerTypeOK, LoginIsLater, TokenIsLatest,
                loginVars, workVars
  <2>2. UnlinkCondemns' /\ GivenAreRecorded'
    BY <1>9 DEF Revoked, BrokerInv, UnlinkCondemns, GivenAreRecorded
  <2> QED BY <1>9, <2>1, <2>2 DEF Revoked, BrokerInv
<1>10. CASE AlarmRings
  <2>1. BrokerTypeOK' /\ LoginIsLater' /\ TokenIsLatest'
    BY <1>10 DEF AlarmRings, BrokerInv, BrokerTypeOK, LoginIsLater, TokenIsLatest,
                loginVars, workVars
  <2>2. UnlinkCondemns' /\ GivenAreRecorded'
    BY <1>10 DEF AlarmRings, Current, BrokerInv, UnlinkCondemns, GivenAreRecorded
  <2> QED BY <1>10, <2>1, <2>2 DEF AlarmRings, BrokerInv
<1>11. CASE AlarmEnds
  BY <1>1, <1>11, LoginStays DEF AlarmEnds, CredsKept, loginVars, workVars
<1>12. ASSUME NEW h \in Handlers, Credentials(h) PROVE BrokerInv'
  <2>1. /\ brNumber' = brNumber + 1 /\ brToken' = h
        /\ brHandler' = [brHandler EXCEPT ![h] = [pc |-> "minting", cred |-> brNumber + 1]]
        /\ UNCHANGED <<loginVars, brIssued, brCached, brDoomed, brAlive, brGiven,
                       brCondemned, brRefused>>
    BY <1>12 DEF Credentials
  <2>2. brHandler' \in [Handlers -> [pc : {"idle", "minting", "revoking"}, cred : Nat]]
        /\ brHandler'[h].cred = brNumber'
    BY <2>1 DEF BrokerInv, BrokerTypeOK
  <2>3. brNumber' \notin brCondemned' /\ brCondemned' \subseteq 1..brNumber'
    BY <2>1 DEF BrokerInv, BrokerTypeOK
  <2> QED BY <2>1, <2>2, <2>3 DEF BrokerInv, BrokerTypeOK, UnlinkCondemns,
                          GivenAreRecorded, TokenIsLatest, LoginIsLater, loginVars
<1>13. ASSUME NEW h \in Handlers, MintFails(h) PROVE BrokerInv'
  <2>1. Finish(h) /\ UNCHANGED <<loginVars, credVars, brCondemned, brRefused>>
    BY <1>13 DEF MintFails
  <2>2. TokenIsLatest'
        /\ brHandler' \in [Handlers -> [pc : {"idle", "minting", "revoking"}, cred : Nat]]
    BY <2>1, FinishKeepsToken DEF credVars
  <2> QED BY <2>1, <2>2 DEF BrokerInv, BrokerTypeOK, UnlinkCondemns,
                          GivenAreRecorded, LoginIsLater, loginVars, credVars
<1>14. ASSUME NEW h \in Handlers, Minted(h) PROVE BrokerInv'
  <2> DEFINE c == brHandler[h].cred
  <2>1. /\ brToken = h /\ brAlive' = brAlive \union {c} /\ brIssued' = brIssued \union {c}
        /\ brCached' = c /\ brGiven' = brGiven \union {c} /\ Finish(h)
        /\ UNCHANGED <<loginVars, brNumber, brDoomed, brCondemned, brRefused>>
    BY <1>14 DEF Minted, StillValid
  <2>2. c = brNumber /\ c \notin brCondemned
    BY <2>1 DEF BrokerInv, TokenIsLatest
  <2> HIDE DEF c
  <2>3. TokenIsLatest'
        /\ brHandler' \in [Handlers -> [pc : {"idle", "minting", "revoking"}, cred : Nat]]
    BY <2>1, FinishKeepsToken
  <2>4. UnlinkCondemns' /\ GivenAreRecorded'
    BY <2>1, <2>2 DEF BrokerInv, UnlinkCondemns, GivenAreRecorded
  <2> QED BY <2>1, <2>3, <2>4 DEF BrokerInv, BrokerTypeOK, LoginIsLater, loginVars
<1>15. ASSUME NEW h \in Handlers, MintedInVain(h) PROVE BrokerInv'
  <2> DEFINE c == brHandler[h].cred
  <2>1. /\ brAlive' = brAlive \union {c} /\ brCached' = 0 /\ brIssued' = {}
        /\ brDoomed' = (brDoomed \intersect brAlive)
                         \union ((brIssued \intersect brAlive) \union {c})
        /\ brHandler' = [brHandler EXCEPT ![h].pc = "revoking"]
        /\ UNCHANGED <<loginVars, brNumber, brGiven, brToken, brCondemned, brRefused>>
    BY <1>15 DEF MintedInVain, Doom, Current
  <2> HIDE DEF c
  <2>2. BrokerTypeOK' /\ LoginIsLater' /\ TokenIsLatest'
    BY <2>1 DEF BrokerInv, BrokerTypeOK, LoginIsLater, TokenIsLatest, loginVars
  <2>3. UnlinkCondemns' /\ GivenAreRecorded'
    BY <2>1 DEF BrokerInv, UnlinkCondemns, GivenAreRecorded
  <2> QED BY <2>1, <2>2, <2>3 DEF BrokerInv
<1>16. ASSUME NEW h \in Handlers, GivesUpRevoking(h) PROVE BrokerInv'
  <2>1. Finish(h) /\ UNCHANGED <<loginVars, credVars, brCondemned, brRefused>>
    BY <1>16 DEF GivesUpRevoking
  <2>2. TokenIsLatest'
        /\ brHandler' \in [Handlers -> [pc : {"idle", "minting", "revoking"}, cred : Nat]]
    BY <2>1, FinishKeepsToken DEF credVars
  <2> QED BY <2>1, <2>2 DEF BrokerInv, BrokerTypeOK, UnlinkCondemns,
                          GivenAreRecorded, LoginIsLater, loginVars, credVars
<1>17. CASE ReservationExpires
  BY <1>1, <1>17, LoginStays DEF ReservationExpires, CredsKept, loginVars
<1>18. CASE Restart
  <2>1. /\ brToken' = "none" /\ brHandler' = [h \in Handlers |-> Resting]
        /\ UNCHANGED <<brLogin, brLogins, credVars, brCondemned, brRefused>>
    BY <1>18 DEF Restart
  <2> QED BY <2>1 DEF BrokerInv, BrokerTypeOK, UnlinkCondemns, GivenAreRecorded,
                      TokenIsLatest, LoginIsLater, Resting, credVars
<1>19. ASSUME NEW c \in brAlive, CredentialExpires(c) PROVE BrokerInv'
  BY <1>19 DEF CredentialExpires, BrokerInv, BrokerTypeOK, UnlinkCondemns,
               GivenAreRecorded, TokenIsLatest, LoginIsLater, loginVars, workVars
<1>20. CASE UNCHANGED brVars
  BY <1>1, <1>20, LoginStays DEF brVars, CredsKept, loginVars, workVars
<1> QED BY <1>2, <1>3, <1>4, <1>5, <1>6, <1>7, <1>8, <1>9, <1>10, <1>11, <1>12, <1>13,
           <1>14, <1>15, <1>16, <1>17, <1>18, <1>19, <1>20 DEF BrokerNext

(* Property: no credential of before the latest unlink is handed out again, *)
(* and those the client has are queued until they are dead (unlink, the     *)
(* checks after the provider's answer, and drainRevocations of worker.ts).  *)
THEOREM UnlinkAlwaysCondemns == BrokerSpec => []UnlinkCondemns
<1>1. BrokerInv => UnlinkCondemns
  BY DEF BrokerInv
<1> QED BY <1>1, BrokerInvInit, BrokerInvNext, PTL DEF BrokerSpec

(* Action property: a credential is handed out only when those of before    *)
(* the unlink are dead, and an account is linked only by a login that was   *)
(* started after it (credentials and confirm of worker.ts).                 *)
THEOREM UnlinkSettlesFirst == BrokerSpec => UnlinkIsSettledFirst
<1>1. ASSUME BrokerInv, [BrokerNext]_brVars
      PROVE  [/\ brGiven' # brGiven =>
                   brGiven \intersect brCondemned \intersect brAlive = {}
              /\ \A a \in brLinks' \ brLinks : brLogin.id \notin brRefused]_brVars
  <2>1. \A a \in brLinks' \ brLinks : brLogin.id \notin brRefused
    BY <1>1 DEF BrokerInv, LoginIsLater
  <2>2. (\E h \in Handlers : Minted(h)) \/ brGiven' = brGiven
    BY <1>1 DEF BrokerNext, brVars, StartLogin, CallbackBegins, CallbackEnds, LoginExpires,
                Confirm, Unlink, UnlinkEnds, Revoked, AlarmRings, AlarmEnds, Credentials,
                MintFails, MintedInVain, GivesUpRevoking, ReservationExpires, Restart,
                CredentialExpires, credVars
  <2>3. ASSUME NEW h \in Handlers, Minted(h)
        PROVE  brGiven \intersect brCondemned \intersect brAlive = {}
    BY <1>1, <2>3 DEF Minted, StillValid, Entitled, BrokerInv, UnlinkCondemns
  <2> QED BY <2>1, <2>2, <2>3
<1> QED BY <1>1, BrokerInvInit, BrokerInvNext, PTL DEF BrokerSpec, UnlinkIsSettledFirst

----------------------------------------------------------------------------
(* The presence of friends: of every stretch as long as a beat, a beat was  *)
(* heard or is under way.                                                   *)

(* The types, part by part.                                                 *)
PrMessages == [leg : {"relay", "direct"}, kind : {"beat", "leaving"}, at : Nat]
PrEntries == [seen : Int, direct : Int, since : Int, left : BOOLEAN]
PrNotifies == [was : BOOLEAN, baseline : BOOLEAN, watched : Int, direct : Int]
PrGhosts == [turn : Nat, away : Int, whole : BOOLEAN, excuse : BOOLEAN, direct : Int,
             calls : SUBSET Nat, stray : BOOLEAN]

(* The types once more, of the variables.                                   *)
PresenceTyped ==
  /\ prNow \in 0..MaxClock /\ prLegs \in {{"relay"}, {"relay", "direct"}} /\ prUp \in BOOLEAN
  /\ prNextBeat \in Nat /\ prFlight \in SUBSET PrMessages
  /\ prListed \in BOOLEAN /\ prFollowed \in BOOLEAN /\ prRoom \in {"open", "leaving", "none"}
  /\ prEntry \in PrEntries /\ prSwept \in Nat /\ prNotify \in PrNotifies
  /\ prShown \in BOOLEAN /\ prGhost \in PrGhosts

(* Nothing is overdue.                                                      *)
ClockInv ==
  /\ prSwept <= prNow /\ prNow <= prSwept + Sweep
  /\ prUp => prNow <= prNextBeat /\ prNextBeat <= prNow + Beat
  /\ prGhost.turn <= prNow
  /\ \A m \in prFlight :
       /\ m.at <= prNow /\ prNow <= m.at + MaxDelay
       /\ m.kind = "leaving" \/ ~prUp => m.at <= prGhost.turn

(* What was heard: a friend that is gone, or whose farewell was the last    *)
(* word, was heard before it could be.                                      *)
EntryInv ==
  /\ Never <= prEntry.seen /\ Never <= prEntry.direct /\ Never <= prEntry.since
  /\ prEntry.seen <= prNow /\ prEntry.direct <= prEntry.seen /\ prEntry.since <= prEntry.seen
  /\ ~prEntry.left => prEntry.seen # Never
  /\ prEntry.left \/ ~prUp => prEntry.seen <= prGhost.turn + MaxDelay
  /\ prEntry.direct # Never => prEntry.direct = prGhost.direct
  /\ prEntry.seen # Never /\ prEntry.direct = Never => prGhost.direct <= prEntry.since
  /\ prGhost.direct <= prNow

(* What is shown was so at the last sweep.                                  *)
ShownInv ==
  /\ prShown => ~prEntry.left /\ prSwept < prEntry.seen + Window
  /\ Online(prEntry) => prShown

(* A watch begins without memories, and remembers what is shown.            *)
WatchInv ==
  /\ prFollowed <=> prNotify.watched # Never
  /\ Never <= prNotify.watched /\ prNotify.watched <= prNow
  /\ ~prFollowed /\ ~prGhost.stray =>
       /\ prEntry = Nothing /\ ~prShown
       /\ ~prNotify.was /\ ~prNotify.baseline /\ prNotify.direct = Never
  /\ prFollowed /\ ~prGhost.stray /\ prEntry.seen # Never => prEntry.seen >= prNotify.watched
  /\ OnList => (prNotify.was <=> prShown) /\ (prNotify.baseline <=> prEntry.seen # Never)

(* The beats: of every stretch as long as their interval, since the watch   *)
(* began and the friend came, one is under way or was heard.                *)
Beating(t) ==
  \/ prEntry.seen >= t
  \/ \E m \in prFlight : m.leg = "relay" /\ m.kind = "beat" /\ t <= m.at /\ m.at < t + Beat
BeatInv ==
  prUp /\ prFollowed /\ (prGhost.whole \/ ~prGhost.excuse) =>
    \A t \in Int : /\ t > prNotify.watched /\ t >= prGhost.turn /\ t + Beat <= prNextBeat
                   => Beating(t)

(* A friend that was there all along.                                       *)
ThereInv ==
  prFollowed /\ ~prGhost.excuse /\ ~prGhost.stray =>
    /\ prUp /\ prGhost.turn <= prNotify.watched /\ \A m \in prFlight : m.kind = "beat"
    /\ prEntry.seen # Never => ~prEntry.left
    /\ prGhost.calls = {}

(* A friend that came after a long absence.                                 *)
CallInv ==
  /\ OnList /\ prUp /\ prGhost.whole
  /\ prGhost.away > MaxDelay + Window + Sweep
  /\ prGhost.turn >= prNotify.watched + Settled
  => ~prNotify.was \/ \E t \in prGhost.calls : t >= prGhost.turn

(* The inductive invariant.                                                 *)
PresInv ==
  /\ PresenceTyped /\ ClockInv /\ EntryInv /\ ShownInv /\ WatchInv /\ BeatInv /\ ThereInv
  /\ CallInv /\ BeatsWake

(* The assumption, constant by constant.                                    *)
LEMMA Timings ==
  /\ Beat \in Nat /\ Window \in Nat /\ Sweep \in Nat /\ Settled \in Nat /\ Unsettled \in Nat
  /\ MaxDelay \in Nat /\ MaxClock \in Nat /\ MaxEvents \in Nat
  /\ 0 < Beat /\ 0 < Sweep /\ Beat + MaxDelay < Window
  /\ Window <= Unsettled /\ Beat + 2 * MaxDelay < Settled
BY PresenceAssumption

(* The types, field by field.                                               *)
LEMMA PrTypes ==
  ASSUME PresenceTyped
  PROVE  /\ prNow \in Nat /\ prNow <= MaxClock /\ prNextBeat \in Nat /\ prSwept \in Nat
         /\ prEntry.seen \in Int /\ prEntry.direct \in Int /\ prEntry.since \in Int
         /\ prEntry.left \in BOOLEAN
         /\ prNotify.was \in BOOLEAN /\ prNotify.baseline \in BOOLEAN
         /\ prNotify.watched \in Int /\ prNotify.direct \in Int
         /\ prGhost.turn \in Nat /\ prGhost.away \in Int /\ prGhost.direct \in Int
         /\ prGhost.whole \in BOOLEAN /\ prGhost.excuse \in BOOLEAN /\ prGhost.stray \in BOOLEAN
         /\ prGhost.calls \in SUBSET Nat
         /\ \A m \in prFlight : m.at \in Nat /\ m.kind \in {"beat", "leaving"}
                                /\ m.leg \in {"relay", "direct"}
<1>1. prNow \in Nat /\ prNow <= MaxClock /\ prNextBeat \in Nat /\ prSwept \in Nat
  BY Timings DEF PresenceTyped
<1>2. /\ prEntry.seen \in Int /\ prEntry.direct \in Int /\ prEntry.since \in Int
      /\ prEntry.left \in BOOLEAN
  BY DEF PresenceTyped, PrEntries
<1>3. /\ prNotify.was \in BOOLEAN /\ prNotify.baseline \in BOOLEAN
      /\ prNotify.watched \in Int /\ prNotify.direct \in Int
  BY DEF PresenceTyped, PrNotifies
<1>4. /\ prGhost.turn \in Nat /\ prGhost.away \in Int /\ prGhost.direct \in Int
      /\ prGhost.whole \in BOOLEAN /\ prGhost.excuse \in BOOLEAN /\ prGhost.stray \in BOOLEAN
      /\ prGhost.calls \in SUBSET Nat
  BY DEF PresenceTyped, PrGhosts
<1>5. \A m \in prFlight : m.at \in Nat /\ m.kind \in {"beat", "leaving"}
                                /\ m.leg \in {"relay", "direct"}
  BY DEF PresenceTyped, PrMessages
<1> QED BY <1>1, <1>2, <1>3, <1>4, <1>5

(* The beats keep the entry young.                                          *)
LEMMA HeardLately ==
  ASSUME PresInv, prUp, prFollowed, prGhost.whole \/ ~prGhost.excuse,
         prNow > prNotify.watched + Beat + MaxDelay, prNow >= prGhost.turn + Beat + MaxDelay
  PROVE  prEntry.seen >= prNow - Beat - MaxDelay
<1> DEFINE t == prNow - Beat - MaxDelay
<1>1. /\ PresenceTyped /\ ClockInv /\ BeatInv
  BY DEF PresInv
<1>2. t \in Int /\ t > prNotify.watched /\ t >= prGhost.turn /\ t + Beat <= prNextBeat
  BY <1>1, PrTypes, Timings DEF ClockInv
<1>3. \A m \in prFlight : m.at >= t + Beat
  BY <1>1, PrTypes, Timings DEF ClockInv
<1>4. \A m \in prFlight : m.at \in Nat
  BY <1>1, PrTypes
<1>5. Beating(t)
  BY <1>1, <1>2 DEF BeatInv
<1> HIDE DEF t
<1>6. prEntry.seen >= t
  BY <1>2, <1>3, <1>4, <1>5, Timings DEF Beating
<1> QED BY <1>6 DEF t

(* So a friend that is up is shown online once its beats can have come.     *)
LEMMA SeenUp ==
  ASSUME PresInv, prUp, prFollowed, prGhost.whole,
         prNow > prNotify.watched + Beat + 2 * MaxDelay,
         prNow > prGhost.turn + Beat + 2 * MaxDelay
  PROVE  Online(prEntry) /\ prShown
<1>1. PresenceTyped /\ EntryInv /\ ShownInv
  BY DEF PresInv
<1>2. prEntry.seen >= prNow - Beat - MaxDelay
  BY <1>1, HeardLately, PrTypes, Timings
<1>3. ~prEntry.left
  BY <1>1, <1>2, PrTypes, Timings DEF EntryInv
<1>4. Online(prEntry)
  BY <1>1, <1>2, <1>3, PrTypes, Timings DEF Online
<1> QED BY <1>1, <1>4 DEF ShownInv

(* It says what is promised.                                                *)
LEMMA PresenceSound == PresInv => PresenceIsSound
<1> SUFFICES ASSUME PresInv PROVE PresenceIsSound
  OBVIOUS
<1>1. /\ PresenceTyped /\ ClockInv /\ EntryInv /\ ShownInv /\ WatchInv /\ ThereInv /\ CallInv
      /\ BeatsWake
  BY DEF PresInv
<1>2. PresenceTypeOK
  BY <1>1, PrTypes, Timings DEF PresenceTypeOK, EntryInv, WatchInv, PresenceTyped, Never
<1>3. GoneIsSeen
  BY <1>1, PrTypes, Timings DEF GoneIsSeen, EntryInv, ShownInv, ClockInv
<1>4. UpIsSeen
  BY SeenUp DEF UpIsSeen, Watching
<1>5. NoFalseArrival
  BY <1>1 DEF NoFalseArrival, ThereInv, OnList, Watching
<1>6. ArrivalIsAnnounced
  <2> SUFFICES ASSUME OnList, prUp, prGhost.whole, prGhost.away > MaxDelay + Window + Sweep,
                      prGhost.turn >= prNotify.watched + Settled,
                      prNow > prGhost.turn + Beat + 2 * MaxDelay
               PROVE  \E t \in prGhost.calls : t >= prGhost.turn
    BY DEF ArrivalIsAnnounced
  <2>1. prNow > prNotify.watched + Beat + 2 * MaxDelay
    BY <1>1, PrTypes, Timings
  <2>2. prShown
    BY <2>1, SeenUp DEF OnList, Watching
  <2> QED BY <1>1, <2>2 DEF WatchInv, CallInv
<1>7. LimitedIsTrue
  <2>1. Limited(prEntry) => prGhost.direct = Never \/ prNow - prGhost.direct >= Window
    BY <1>1, PrTypes, Timings DEF Limited, Online, EntryInv
  <2>2. /\ Online(prEntry) /\ prNow - prEntry.since >= Unsettled
        /\ prGhost.direct = Never \/ prNow - prGhost.direct >= Window
        => Limited(prEntry)
    BY <1>1, PrTypes, Timings DEF Limited, EntryInv
  <2> QED BY <2>1, <2>2 DEF LimitedIsTrue
<1> QED BY <1>1, <1>2, <1>3, <1>4, <1>5, <1>6, <1>7 DEF PresenceIsSound

(* Nothing was heard yet.                                                   *)
LEMMA PresenceStart == PresenceInit => PresInv
<1> SUFFICES ASSUME PresenceInit PROVE PresInv
  OBVIOUS
<1>1. /\ prNow = 0 /\ prNextBeat = 0 /\ prSwept = 0 /\ prFlight = {} /\ prUp \in BOOLEAN
      /\ prListed = TRUE /\ prFollowed = TRUE /\ prShown = FALSE
  BY DEF PresenceInit
<1>2. /\ prEntry \in PrEntries /\ prEntry.seen = Never /\ prEntry.direct = Never
      /\ prEntry.since = Never /\ prEntry.left = TRUE
  BY DEF PresenceInit, Nothing, PrEntries, Never
<1>3. /\ prNotify \in PrNotifies /\ prNotify.was = FALSE /\ prNotify.baseline = FALSE
      /\ prNotify.watched = 0
  <2> DEFINE a == Afresh
  <2>1. a \in PrNotifies /\ a.was = FALSE /\ a.baseline = FALSE
    BY DEF Afresh, PrNotifies, Never
  <2>2. prNotify = [a EXCEPT !.watched = 0]
    BY DEF PresenceInit
  <2> HIDE DEF a
  <2> QED BY <2>1, <2>2 DEF PrNotifies
<1>4. /\ prGhost \in PrGhosts /\ prGhost.turn = 0 /\ prGhost.direct = Never /\ prGhost.away = 0
      /\ prGhost.excuse <=> ~prUp
      /\ prGhost.stray = FALSE /\ prGhost.calls = {}
  <2> DEFINE excuse == ~prUp
  <2>1. excuse \in BOOLEAN
    OBVIOUS
  <2>2. prGhost = [turn |-> 0, away |-> 0, whole |-> TRUE, excuse |-> excuse,
                   direct |-> Never, calls |-> {}, stray |-> FALSE]
    BY DEF PresenceInit
  <2> HIDE DEF excuse
  <2>3. /\ prGhost \in PrGhosts /\ prGhost.turn = 0 /\ prGhost.direct = Never /\ prGhost.away = 0
        /\ prGhost.excuse = excuse /\ prGhost.stray = FALSE /\ prGhost.calls = {}
    BY <2>1, <2>2 DEF PrGhosts, Never
  <2> QED BY <2>3 DEF excuse
<1>5. PresenceTyped
  <2>1. prLegs \in {{"relay"}, {"relay", "direct"}} /\ prRoom \in {"open", "leaving", "none"}
    BY DEF PresenceInit
  <2>2. prNow \in 0..MaxClock
    BY <1>1, Timings
  <2> QED BY <1>1, <1>2, <1>3, <1>4, <2>1, <2>2 DEF PresenceTyped
<1>6. ClockInv
  BY <1>1, <1>4, Timings DEF ClockInv
<1>7. EntryInv
  BY <1>1, <1>2, <1>4, Timings DEF EntryInv, Never
<1>8. ShownInv
  BY <1>1, <1>2 DEF ShownInv, Online
<1>9. WatchInv
  BY <1>1, <1>2, <1>3, <1>4 DEF WatchInv, Never
<1>10. BeatInv
  BY <1>1, <1>3, Timings DEF BeatInv
<1>11. ThereInv
  BY <1>1, <1>2, <1>3, <1>4 DEF ThereInv
<1>12. CallInv /\ BeatsWake
  BY <1>2, <1>3 DEF CallInv, BeatsWake
<1> QED BY <1>5, <1>6, <1>7, <1>8, <1>9, <1>10, <1>11, <1>12 DEF PresInv

----------------------------------------------------------------------------
(* The friend acts: the watch learns nothing of it yet.                     *)
LEMMA FriendActs ==
  ASSUME PresInv, UNCHANGED <<prNow, prLegs, prWatch>>, prUp' \in BOOLEAN, prNextBeat' \in Nat,
         prUp' => prNow <= prNextBeat' /\ prNextBeat' <= prNow + Beat,
         prGhost' \in PrGhosts, prGhost'.turn \in {prGhost.turn, prNow},
         ~prUp' => prGhost'.turn = prNow,
         UNCHANGED <<prGhost.direct, prGhost.calls, prGhost.stray>>,
         prFlight \subseteq prFlight',
         \A m \in prFlight' : \/ m \in prFlight
                              \/ /\ m \in PrMessages /\ m.at = prNow
                                 /\ m.kind = "leaving" => prGhost'.turn = prNow,
         BeatInv', ThereInv', CallInv'
  PROVE  PresInv'
<1> USE DEF prWatch
<1>1. /\ PresenceTyped /\ ClockInv /\ EntryInv /\ ShownInv /\ WatchInv /\ BeatsWake
  BY DEF PresInv
<1>2. PresenceTyped'
  BY <1>1 DEF PresenceTyped
<1>3. ClockInv'
  BY <1>1, PrTypes, Timings DEF ClockInv
<1>4. EntryInv'
  BY <1>1, PrTypes, Timings DEF EntryInv
<1>5. ShownInv'
  BY <1>1 DEF ShownInv, Online
<1>6. WatchInv'
  BY <1>1 DEF WatchInv, OnList, Watching
<1>7. BeatsWake'
  BY <1>1 DEF BeatsWake, OnList, Watching
<1> QED BY <1>2, <1>3, <1>4, <1>5, <1>6, <1>7 DEF PresInv

(* What a friend sends.                                                     *)
LEMMA SentIs ==
  ASSUME PresenceTyped, NEW kind \in {"beat", "leaving"}, Sent(kind)
  PROVE  /\ prFlight \subseteq prFlight'
         /\ \A m \in prFlight' : m \in prFlight
                                 \/ (m \in PrMessages /\ m.at = prNow /\ m.kind = kind)
         /\ \E m \in prFlight' : m.leg = "relay" /\ m.kind = kind /\ m.at = prNow
<1> DEFINE s(l) == [leg |-> l, kind |-> kind, at |-> prNow]
<1>1. \A l \in {"relay", "direct"} : s(l) \in PrMessages /\ s(l).at = prNow /\ s(l).kind = kind
                                     /\ s(l).leg = l
  BY PrTypes DEF PrMessages
<1>2. prFlight' = prFlight \union {s(l) : l \in prLegs}
  BY DEF Sent
<1>3. "relay" \in prLegs /\ prLegs \subseteq {"relay", "direct"}
  BY DEF PresenceTyped
<1> HIDE DEF s
<1> QED BY <1>1, <1>2, <1>3

(* The friend comes: whoever was away so long is shown offline by now.      *)
LEMMA StartsKeeps ==
  ASSUME PresInv, Starts
  PROVE  PresInv'
<1>1. /\ PresenceTyped /\ ClockInv /\ EntryInv /\ ShownInv /\ WatchInv /\ ThereInv
  BY DEF PresInv
<1>2. /\ ~prUp /\ prUp' = TRUE /\ prNextBeat' = prNow + Beat /\ Sent("beat")
      /\ prGhost' = [prGhost EXCEPT !.turn = prNow, !.away = prNow - prGhost.turn, !.whole = TRUE]
      /\ UNCHANGED <<prNow, prLegs, prWatch>>
  BY DEF Starts
<1>3. /\ prGhost' \in PrGhosts /\ prGhost'.turn = prNow /\ prGhost'.away = prNow - prGhost.turn
      /\ prGhost'.excuse = prGhost.excuse /\ prGhost'.direct = prGhost.direct
      /\ prGhost'.calls = prGhost.calls /\ prGhost'.stray = prGhost.stray
  <2> DEFINE gone == prNow - prGhost.turn
             h == [prGhost EXCEPT !.turn = prNow, !.away = gone]
  <2>1. gone \in Int /\ prNow \in Nat /\ prGhost \in PrGhosts
    BY <1>1, PrTypes DEF PresenceTyped
  <2>2. prGhost' = [h EXCEPT !.whole = TRUE]
    BY <1>2
  <2> HIDE DEF gone
  <2>3. /\ h \in PrGhosts /\ h.turn = prNow /\ h.away = gone /\ h.excuse = prGhost.excuse
        /\ h.direct = prGhost.direct /\ h.calls = prGhost.calls /\ h.stray = prGhost.stray
    BY <2>1 DEF PrGhosts
  <2> HIDE DEF h
  <2>4. /\ prGhost' \in PrGhosts /\ prGhost'.turn = prNow /\ prGhost'.away = gone
        /\ prGhost'.excuse = h.excuse /\ prGhost'.direct = h.direct
        /\ prGhost'.calls = h.calls /\ prGhost'.stray = h.stray
    BY <2>2, <2>3 DEF PrGhosts
  <2> QED BY <2>3, <2>4 DEF gone
<1>4. /\ prFlight \subseteq prFlight'
      /\ \A m \in prFlight' : m \in prFlight
                                 \/ (m \in PrMessages /\ m.at = prNow /\ m.kind = "beat")
  BY <1>1, <1>2, SentIs
<1>5. \E m \in prFlight' : m.leg = "relay" /\ m.kind = "beat" /\ m.at = prNow
  BY <1>1, <1>2, SentIs
<1>6. BeatInv'
  <2> SUFFICES ASSUME NEW t \in Int, t >= prNow, t + Beat <= prNow + Beat
               PROVE  Beating(t)'
    BY <1>2, <1>3 DEF BeatInv
  <2>1. t = prNow
    BY <1>1, PrTypes, Timings
  <2>2. t <= prNow /\ prNow < t + Beat
    BY <2>1, <1>1, PrTypes, Timings
  <2> QED BY <1>5, <2>2 DEF Beating
<1>7. ThereInv'
  BY <1>1, <1>2, <1>3 DEF ThereInv, prWatch
<1>8. CallInv'
  <2> SUFFICES ASSUME OnList', prNow - prGhost.turn > MaxDelay + Window + Sweep
               PROVE  ~prNotify'.was
    BY <1>3 DEF CallInv
  <2>1. ~prShown
    BY <1>1, <1>2, PrTypes, Timings DEF EntryInv, ShownInv, ClockInv
  <2>2. OnList
    BY <1>2, <1>3 DEF OnList, Watching, prWatch
  <2> QED BY <1>1, <1>2, <2>1, <2>2 DEF WatchInv, prWatch
<1>9. prNextBeat' \in Nat /\ prNow <= prNextBeat' /\ prNextBeat' <= prNow + Beat
  BY <1>1, <1>2, PrTypes, Timings
<1> QED BY <1>2, <1>3, <1>4, <1>6, <1>7, <1>8, <1>9, FriendActs

(* A stretch with a beat still has one when more is sent.                   *)
LEMMA BeatingGrows ==
  ASSUME prEntry' = prEntry, prFlight \subseteq prFlight'
  PROVE  \A t : Beating(t) => Beating(t)'
BY DEF Beating

(* The timer of the friend fires, and the next stretch has its beat.        *)
LEMMA BeatsKeeps ==
  ASSUME PresInv, Beats
  PROVE  PresInv'
<1>1. /\ PresenceTyped /\ ClockInv /\ BeatInv /\ ThereInv /\ CallInv
  BY DEF PresInv
<1>2. /\ prUp /\ prNextBeat = prNow /\ prUp' = prUp /\ prNextBeat' = prNow + Beat /\ Sent("beat")
      /\ prGhost' = prGhost /\ UNCHANGED <<prNow, prLegs, prWatch>>
  BY DEF Beats
<1>3. prGhost \in PrGhosts
  BY <1>1 DEF PresenceTyped
<1>4. /\ prFlight \subseteq prFlight'
      /\ \A m \in prFlight' : m \in prFlight
                                 \/ (m \in PrMessages /\ m.at = prNow /\ m.kind = "beat")
  BY <1>1, <1>2, SentIs
<1>5. \E m \in prFlight' : m.leg = "relay" /\ m.kind = "beat" /\ m.at = prNow
  BY <1>1, <1>2, SentIs
<1>6. BeatInv'
  <2> SUFFICES ASSUME prFollowed, prGhost.whole \/ ~prGhost.excuse, NEW t \in Int,
                      t > prNotify.watched, t >= prGhost.turn, t + Beat <= prNow + Beat
               PROVE  Beating(t)'
    BY <1>2 DEF BeatInv, prWatch
  <2>1. CASE t + Beat <= prNow
    <3>1. Beating(t)
      BY <1>1, <1>2, <2>1 DEF BeatInv
    <3> QED BY <1>2, <1>4, <3>1, BeatingGrows DEF prWatch
  <2>2. CASE prNow < t + Beat
    <3>1. t <= prNow
      BY <1>1, PrTypes, Timings
    <3> QED BY <1>5, <2>2, <3>1 DEF Beating
  <2> QED BY <1>1, <2>1, <2>2, PrTypes, Timings
<1>7. ThereInv'
  BY <1>1, <1>2, <1>4 DEF ThereInv, prWatch
<1>8. CallInv'
  BY <1>1, <1>2 DEF CallInv, OnList, Watching, prWatch
<1>9. prNextBeat' \in Nat /\ prNow <= prNextBeat' /\ prNextBeat' <= prNow + Beat
  BY <1>1, <1>2, PrTypes, Timings
<1> QED BY <1>1, <1>2, <1>3, <1>4, <1>6, <1>7, <1>8, <1>9, FriendActs DEF PresenceTyped

(* The friend goes, with a farewell or without.                             *)
LEMMA EndsKeeps ==
  ASSUME PresInv, NEW clean \in BOOLEAN, Ends(clean)
  PROVE  PresInv'
<1>1. PresenceTyped /\ ClockInv
  BY DEF PresInv
<1>2. /\ prUp' = FALSE /\ prNextBeat' = prNextBeat
      /\ Sent("leaving") \/ UNCHANGED prFlight
      /\ prGhost' = [prGhost EXCEPT !.turn = prNow, !.excuse = TRUE]
      /\ UNCHANGED <<prNow, prLegs, prWatch>>
  BY DEF Ends
<1>3. /\ prGhost' \in PrGhosts /\ prGhost'.turn = prNow /\ prGhost'.excuse = TRUE
      /\ prGhost'.direct = prGhost.direct /\ prGhost'.calls = prGhost.calls
      /\ prGhost'.stray = prGhost.stray
  BY <1>1, <1>2, PrTypes DEF PresenceTyped, PrGhosts
<1>4. /\ prFlight \subseteq prFlight'
      /\ \A m \in prFlight' : m \in prFlight \/ (m \in PrMessages /\ m.at = prNow)
  BY <1>1, <1>2, SentIs
<1>5. BeatInv' /\ ThereInv' /\ CallInv'
  BY <1>2, <1>3 DEF BeatInv, ThereInv, CallInv
<1> QED BY <1>1, <1>2, <1>3, <1>4, <1>5, PrTypes, FriendActs

(* A beat out of turn is one more.                                          *)
LEMMA GreetsKeeps ==
  ASSUME PresInv, NEW leg \in {"relay", "direct"}, Greets(leg)
  PROVE  PresInv'
<1> DEFINE m0 == [leg |-> leg, kind |-> "beat", at |-> prNow]
<1>1. /\ PresenceTyped /\ ClockInv /\ BeatInv /\ ThereInv /\ CallInv
  BY DEF PresInv
<1>2. /\ prUp /\ UNCHANGED <<prUp, prNextBeat, prNow, prLegs, prWatch, prGhost>>
      /\ prFlight' = prFlight \union {m0}
  BY DEF Greets, prFriend
<1>3. m0 \in PrMessages /\ m0.at = prNow /\ m0.kind = "beat"
  BY <1>1, PrTypes DEF PrMessages
<1> HIDE DEF m0
<1>4. prGhost' \in PrGhosts /\ prUp' \in BOOLEAN /\ prNextBeat' \in Nat
  BY <1>1, <1>2 DEF PresenceTyped
<1>5. BeatInv'
  <2> SUFFICES ASSUME prFollowed, prGhost.whole \/ ~prGhost.excuse, NEW t \in Int,
                      t > prNotify.watched, t >= prGhost.turn, t + Beat <= prNextBeat
               PROVE  Beating(t)'
    BY <1>2 DEF BeatInv, prWatch
  <2>1. Beating(t)
    BY <1>1, <1>2 DEF BeatInv
  <2> QED BY <1>2, <2>1, BeatingGrows DEF prWatch
<1>6. ThereInv'
  BY <1>1, <1>2, <1>3 DEF ThereInv, prWatch
<1>7. CallInv'
  BY <1>1, <1>2 DEF CallInv, OnList, Watching, prWatch
<1> QED BY <1>1, <1>2, <1>3, <1>4, <1>5, <1>6, <1>7, FriendActs DEF ClockInv

----------------------------------------------------------------------------
(* Time, the wire and the list.                                             *)
LEMMA LostKeeps ==
  ASSUME PresInv, NEW m \in prFlight, Lost(m)
  PROVE  PresInv'
<1> USE DEF prWatch, prFriend
<1>1. /\ PresenceTyped /\ ClockInv /\ EntryInv /\ ShownInv /\ WatchInv /\ BeatInv /\ ThereInv
      /\ CallInv /\ BeatsWake
  BY DEF PresInv
<1>2. /\ prFlight' = prFlight \ {m} /\ UNCHANGED <<prNow, prFriend, prWatch>>
      /\ \/ m.kind = "leaving" /\ UNCHANGED prGhost
         \/ prGhost' = [prGhost EXCEPT !.whole = FALSE, !.excuse = TRUE]
  BY DEF Lost
<1>3. /\ prGhost' \in PrGhosts /\ prGhost'.turn = prGhost.turn /\ prGhost'.away = prGhost.away
      /\ prGhost'.direct = prGhost.direct /\ prGhost'.calls = prGhost.calls
      /\ prGhost'.stray = prGhost.stray
      /\ \/ m.kind = "leaving" /\ prGhost'.whole = prGhost.whole /\ prGhost'.excuse = prGhost.excuse
         \/ ~prGhost'.whole /\ prGhost'.excuse
  BY <1>1, <1>2 DEF PresenceTyped, PrGhosts
<1>4. PresenceTyped'
  BY <1>1, <1>2, <1>3 DEF PresenceTyped
<1>5. ClockInv' /\ EntryInv'
  BY <1>1, <1>2, <1>3 DEF ClockInv, EntryInv
<1>6. ShownInv'
  BY <1>1, <1>2 DEF ShownInv, Online
<1>7. WatchInv' /\ CallInv' /\ BeatsWake'
  BY <1>1, <1>2, <1>3 DEF WatchInv, CallInv, BeatsWake, OnList, Watching
<1>8. BeatInv'
  BY <1>1, <1>2, <1>3 DEF BeatInv, Beating
<1>9. ThereInv'
  BY <1>1, <1>2, <1>3 DEF ThereInv
<1> QED BY <1>4, <1>5, <1>6, <1>7, <1>8, <1>9 DEF PresInv

(* What is kept of one that is not watched.                                 *)
LEMMA NothingIs ==
  /\ Nothing \in PrEntries /\ Nothing.seen = Never /\ Nothing.direct = Never
  /\ Nothing.since = Never /\ Nothing.left /\ ~Online(Nothing)
  /\ Afresh \in PrNotifies /\ ~Afresh.was /\ ~Afresh.baseline /\ Afresh.watched = Never
  /\ Afresh.direct = Never /\ Never \in Int /\ Never < 0 /\ Never = -1
BY DEF Nothing, Afresh, PrEntries, PrNotifies, Online, Never

(* The list loses the friend, or has it again before the effect ran.        *)
LEMMA ListEditedKeeps ==
  ASSUME PresInv, ListEdited
  PROVE  PresInv'
<1> USE DEF prFriend
<1> DEFINE stray == prGhost.stray \/ (prFollowed /\ ~prListed)
<1>1. /\ PresenceTyped /\ ClockInv /\ EntryInv /\ ShownInv /\ WatchInv /\ BeatInv /\ ThereInv
  BY DEF PresInv
<1>2. /\ prListed' = ~prListed /\ prShown' = Online(prEntry)
      /\ prGhost' = [prGhost EXCEPT !.stray = stray]
      /\ UNCHANGED <<prNow, prFriend, prFlight, prFollowed, prRoom, prEntry, prSwept, prNotify>>
  BY DEF ListEdited
<1>3. stray \in BOOLEAN /\ (prGhost.stray => stray) /\ (prFollowed /\ ~prListed => stray)
  BY <1>1, PrTypes
<1>4. prListed' \in BOOLEAN /\ prShown' \in BOOLEAN
  BY <1>2 DEF Online
<1> HIDE DEF stray
<1>5. /\ prGhost' \in PrGhosts /\ prGhost'.turn = prGhost.turn /\ prGhost'.excuse = prGhost.excuse
      /\ prGhost'.direct = prGhost.direct /\ prGhost'.calls = prGhost.calls
      /\ prGhost'.stray = stray /\ prGhost'.whole = prGhost.whole
  BY <1>1, <1>2, <1>3 DEF PresenceTyped, PrGhosts
<1>6. PresenceTyped'
  BY <1>1, <1>2, <1>4, <1>5 DEF PresenceTyped
<1>7. ClockInv' /\ EntryInv'
  BY <1>1, <1>2, <1>5 DEF ClockInv, EntryInv
<1>8. ShownInv'
  BY <1>1, <1>2, PrTypes, Timings DEF ShownInv, Online, ClockInv
<1>9. ~OnList'
  BY <1>1, <1>2, <1>3, <1>5 DEF OnList, Watching
<1>10. WatchInv'
  BY <1>1, <1>2, <1>3, <1>5, <1>9, NothingIs DEF WatchInv
<1>11. BeatInv'
  BY <1>1, <1>2, <1>5 DEF BeatInv, Beating
<1>12. ThereInv'
  BY <1>1, <1>2, <1>3, <1>5 DEF ThereInv
<1>13. CallInv' /\ BeatsWake'
  BY <1>9 DEF CallInv, BeatsWake
<1> QED BY <1>6, <1>7, <1>8, <1>10, <1>11, <1>12, <1>13 DEF PresInv

(* The watch ends, and nothing of it is kept.                               *)
LEMMA UnfollowsKeeps ==
  ASSUME PresInv, Unfollows
  PROVE  PresInv'
<1> USE DEF prFriend
<1>1. /\ PresenceTyped /\ ClockInv /\ EntryInv
  BY DEF PresInv
<1>2. /\ prFollowed' = FALSE /\ prEntry' = Nothing /\ prNotify' = Afresh /\ prShown' = FALSE
      /\ prRoom' = IF prRoom = "open" THEN "leaving" ELSE prRoom
      /\ prGhost' = [prGhost EXCEPT !.stray = FALSE]
      /\ UNCHANGED <<prNow, prFriend, prFlight, prListed, prSwept>>
  BY DEF Unfollows
<1>3. /\ prGhost' \in PrGhosts /\ prGhost'.turn = prGhost.turn /\ prGhost'.direct = prGhost.direct
  BY <1>1, <1>2 DEF PresenceTyped, PrGhosts
<1>4. PresenceTyped'
  BY <1>1, <1>2, <1>3, NothingIs DEF PresenceTyped
<1>5. ClockInv'
  BY <1>1, <1>2, <1>3 DEF ClockInv
<1>6. EntryInv'
  BY <1>1, <1>2, <1>3, NothingIs, PrTypes, Timings DEF EntryInv
<1>7. ShownInv'
  BY <1>2, NothingIs DEF ShownInv, Online
<1>8. WatchInv'
  BY <1>1, <1>2, NothingIs, PrTypes DEF WatchInv, OnList, Watching
<1>9. BeatInv' /\ ThereInv' /\ CallInv' /\ BeatsWake'
  BY <1>2 DEF BeatInv, ThereInv, CallInv, BeatsWake, OnList, Watching
<1> QED BY <1>4, <1>5, <1>6, <1>7, <1>8, <1>9 DEF PresInv

(* A watch begins, of a friend that may just have come or gone.             *)
LEMMA FollowsKeeps ==
  ASSUME PresInv, Follows
  PROVE  PresInv'
<1> USE DEF prFriend
<1> DEFINE excuse == ~prUp \/ prNow - prGhost.turn <= MaxDelay
           h == [prGhost EXCEPT !.calls = {}]
<1>1. /\ PresenceTyped /\ ClockInv /\ EntryInv /\ ShownInv /\ WatchInv
  BY DEF PresInv
<1>2. /\ ~prFollowed /\ prFollowed' = TRUE /\ prRoom' = "open"
      /\ prNotify' = [prNotify EXCEPT !.watched = IF @ = Never THEN prNow ELSE @]
      /\ prGhost' = [h EXCEPT !.excuse = excuse]
      /\ UNCHANGED <<prNow, prFriend, prFlight, prListed, prEntry, prSwept, prShown>>
  BY DEF Follows
<1>3. prNotify.watched = Never /\ prNow \in Nat /\ prNotify \in PrNotifies /\ prGhost \in PrGhosts
  BY <1>1, <1>2, PrTypes DEF WatchInv, PresenceTyped
<1>4. prNotify' = [prNotify EXCEPT !.watched = prNow]
  BY <1>2, <1>3
<1>5. /\ prNotify' \in PrNotifies /\ prNotify'.watched = prNow /\ prNotify'.was = prNotify.was
      /\ prNotify'.baseline = prNotify.baseline /\ prNotify'.direct = prNotify.direct
  BY <1>3, <1>4 DEF PrNotifies
<1>6. /\ h \in PrGhosts /\ h.turn = prGhost.turn /\ h.calls = {} /\ h.direct = prGhost.direct
      /\ h.stray = prGhost.stray
  BY <1>3 DEF PrGhosts
<1>7. excuse \in BOOLEAN /\ (~excuse => prUp /\ ~(prNow - prGhost.turn <= MaxDelay))
  OBVIOUS
<1> HIDE DEF h, excuse
<1>8. /\ prGhost' \in PrGhosts /\ prGhost'.turn = prGhost.turn /\ prGhost'.calls = {}
      /\ prGhost'.direct = prGhost.direct /\ prGhost'.stray = prGhost.stray
      /\ prGhost'.excuse = excuse
  BY <1>2, <1>6, <1>7 DEF PrGhosts
<1>9. PresenceTyped'
  BY <1>1, <1>2, <1>5, <1>8 DEF PresenceTyped
<1>10. ClockInv' /\ EntryInv'
  BY <1>1, <1>2, <1>8 DEF ClockInv, EntryInv
<1>11. ShownInv'
  BY <1>1, <1>2 DEF ShownInv, Online
<1>12. ~prGhost'.stray => /\ prEntry' = Nothing /\ ~prShown'
                          /\ ~prNotify'.was /\ ~prNotify'.baseline
  BY <1>1, <1>2, <1>5, <1>8 DEF WatchInv
<1>13. WatchInv'
  BY <1>2, <1>3, <1>5, <1>12, NothingIs DEF WatchInv, OnList, Watching
<1>14. BeatInv'
  BY <1>1, <1>2, <1>5, PrTypes, Timings DEF BeatInv, ClockInv
<1>15. ThereInv'
  <2> SUFFICES ASSUME ~excuse, ~prGhost'.stray
               PROVE  /\ prUp' /\ prGhost'.turn <= prNotify'.watched
                      /\ \A m \in prFlight' : m.kind = "beat"
                      /\ prEntry'.seen # Never => ~prEntry'.left
                      /\ prGhost'.calls = {}
    BY <1>8 DEF ThereInv
  <2>1. prUp /\ prGhost.turn + MaxDelay < prNow
    BY <1>1, <1>7, PrTypes, Timings
  <2>2. \A m \in prFlight : m.kind = "beat"
    BY <1>1, <2>1, PrTypes, Timings DEF ClockInv
  <2>3. prGhost.turn <= prNow
    BY <1>1 DEF ClockInv
  <2> QED BY <1>2, <1>5, <1>8, <1>12, <2>1, <2>2, <2>3, NothingIs
<1>16. CallInv'
  BY <1>1, <1>5, <1>8, PrTypes, Timings DEF CallInv, ClockInv
<1>17. BeatsWake'
  BY <1>12, NothingIs DEF BeatsWake, OnList
<1> QED BY <1>9, <1>10, <1>11, <1>13, <1>14, <1>15, <1>16, <1>17 DEF PresInv

(* A room is left, or nothing happens.                                      *)
LEMMA RoomIsLeftKeeps ==
  ASSUME PresInv, RoomIsLeft \/ UNCHANGED prVars
  PROVE  PresInv'
<1> USE DEF prFriend, prVars, prWatch
<1>1. /\ PresenceTyped /\ ClockInv /\ EntryInv /\ ShownInv /\ WatchInv /\ BeatInv /\ ThereInv
      /\ CallInv /\ BeatsWake
  BY DEF PresInv
<1>2. /\ UNCHANGED <<prNow, prFriend, prFlight, prListed, prFollowed, prEntry, prSwept,
                     prNotify, prShown, prGhost>>
      /\ prRoom' \in {prRoom, "none"}
  BY DEF RoomIsLeft
<1>3. PresenceTyped' /\ ClockInv' /\ EntryInv'
  BY <1>1, <1>2 DEF PresenceTyped, ClockInv, EntryInv
<1>4. ShownInv' /\ WatchInv'
  BY <1>1, <1>2 DEF ShownInv, WatchInv, Online, OnList, Watching
<1>5. BeatInv' /\ ThereInv'
  BY <1>1, <1>2 DEF BeatInv, Beating, ThereInv
<1>6. CallInv' /\ BeatsWake'
  BY <1>1, <1>2 DEF CallInv, BeatsWake, OnList, Watching
<1> QED BY <1>3, <1>4, <1>5, <1>6 DEF PresInv

(* Time passes, and nobody is late.                                         *)
LEMMA PrTickKeeps ==
  ASSUME PresInv, Tick
  PROVE  PresInv'
<1> USE DEF prFriend, prWatch
<1>1. /\ PresenceTyped /\ ClockInv /\ EntryInv /\ ShownInv /\ WatchInv /\ BeatInv /\ ThereInv
      /\ CallInv /\ BeatsWake
  BY DEF PresInv
<1>2. /\ prNow < MaxClock /\ prNow' = prNow + 1 /\ (prUp => prNow < prNextBeat)
      /\ prNow < prSwept + Sweep /\ (\A m \in prFlight : prNow < m.at + MaxDelay)
      /\ UNCHANGED <<prFriend, prFlight, prWatch, prGhost>>
  BY DEF Tick
<1>3. PresenceTyped'
  <2>1. prNow' \in 0..MaxClock
    BY <1>1, <1>2, PrTypes, Timings
  <2> QED BY <1>1, <1>2, <2>1 DEF PresenceTyped
<1>4. ClockInv'
  BY <1>1, <1>2, PrTypes, Timings DEF ClockInv
<1>5. EntryInv'
  BY <1>1, <1>2, PrTypes, Timings DEF EntryInv
<1>6. ShownInv'
  BY <1>1, <1>2, PrTypes, Timings DEF ShownInv, Online
<1>7. WatchInv'
  BY <1>1, <1>2, PrTypes DEF WatchInv, OnList, Watching
<1>8. BeatInv' /\ ThereInv'
  BY <1>1, <1>2 DEF BeatInv, Beating, ThereInv
<1>9. CallInv'
  BY <1>1, <1>2 DEF CallInv, OnList, Watching
<1>10. BeatsWake'
  BY <1>1, <1>2, PrTypes, Timings DEF BeatsWake, OnList, Watching
<1> QED BY <1>3, <1>4, <1>5, <1>6, <1>7, <1>8, <1>9, <1>10 DEF PresInv

----------------------------------------------------------------------------
(* What hearing of a friend, and a sweep, do to the list and to the user.   *)
Tells(e) ==
  /\ prListed /\ Online(e) /\ ~prNotify.was
  /\ prNotify.baseline \/ (prNotify.watched # Never /\ prNow - prNotify.watched >= Settled)

(* The list is drawn, and the user told: part by part.                      *)
LEMMA EmitsIs ==
  ASSUME PresenceTyped, NEW e \in PrEntries, NEW g \in PrGhosts, Emits(e, g)
  PROVE  /\ prShown' \in BOOLEAN /\ (prShown' <=> Online(e))
         /\ prNotify' \in PrNotifies /\ prNotify'.watched = prNotify.watched
         /\ ~prListed => prNotify' = prNotify
         /\ prListed =>
              /\ prNotify'.was <=> Online(e)
              /\ prNotify'.baseline <=> prNotify.baseline \/ Online(e)
              /\ e.direct # Never /\ prNow - e.direct < Window => prNotify'.direct = e.direct
              /\ e.direct = Never => prNotify'.direct = prNotify.direct
         /\ prGhost' \in PrGhosts /\ prGhost'.turn = g.turn /\ prGhost'.away = g.away
         /\ (prGhost'.whole <=> g.whole) /\ (prGhost'.excuse <=> g.excuse)
         /\ prGhost'.direct = g.direct /\ (prGhost'.stray <=> g.stray)
         /\ g.calls \subseteq prGhost'.calls
         /\ Tells(e) => prNow \in prGhost'.calls
         /\ ~Tells(e) => prGhost'.calls = g.calls
<1> DEFINE online == Online(e)
           based == prNotify.baseline \/ online
           heard == IF e.direct # Never /\ prNow - e.direct < Window THEN e.direct
                    ELSE prNotify.direct
           tells == ShouldNotify(online, prNotify)
           n1 == [prNotify EXCEPT !.was = online]
           n2 == [n1 EXCEPT !.baseline = based]
           told == [g EXCEPT !.calls = g.calls \union {prNow}]
<1>1. prNotify \in PrNotifies /\ e.direct \in Int /\ prNotify.direct \in Int /\ prNow \in Nat
  BY PrTypes DEF PresenceTyped, PrEntries
<1>2. online \in BOOLEAN /\ (online <=> Online(e)) /\ prShown' = online
  BY DEF Emits, Online
<1>3. based \in BOOLEAN /\ (based <=> prNotify.baseline \/ online)
  OBVIOUS
<1>4. heard \in Int
  BY <1>1
<1>5. prListed => /\ tells <=> Tells(e)
                  /\ prNotify' = [n2 EXCEPT !.direct = heard]
                  /\ prGhost' = IF tells THEN told ELSE g
  BY <1>1 DEF Emits, ShouldNotify, Tells
<1>6. ~prListed => prNotify' = prNotify /\ prGhost' = g /\ ~Tells(e)
  BY DEF Emits, Tells
<1>7. e.direct # Never /\ prNow - e.direct < Window => heard = e.direct
  OBVIOUS
<1>8. e.direct = Never => heard = prNotify.direct
  OBVIOUS
<1> HIDE DEF online, based, heard
<1>9. /\ n1 \in PrNotifies /\ n1.was = online /\ n1.baseline = prNotify.baseline
      /\ n1.watched = prNotify.watched
  BY <1>1, <1>2 DEF PrNotifies
<1> HIDE DEF n1
<1>10. n2 \in PrNotifies /\ n2.was = online /\ n2.baseline = based /\ n2.watched = prNotify.watched
  BY <1>3, <1>9 DEF PrNotifies
<1> HIDE DEF n2, tells
<1>11. /\ told \in PrGhosts /\ told.turn = g.turn /\ told.away = g.away /\ told.whole = g.whole
       /\ told.excuse = g.excuse /\ told.direct = g.direct /\ told.stray = g.stray
       /\ told.calls = g.calls \union {prNow}
  BY <1>1 DEF PrGhosts
<1> HIDE DEF told
<1>12. prListed => /\ prNotify' \in PrNotifies
                   /\ prNotify'.was = online /\ prNotify'.baseline = based
                   /\ prNotify'.watched = prNotify.watched /\ prNotify'.direct = heard
  BY <1>4, <1>5, <1>10 DEF PrNotifies
<1>13. /\ prShown' \in BOOLEAN /\ (prShown' <=> Online(e))
       /\ prNotify' \in PrNotifies /\ prNotify'.watched = prNotify.watched
       /\ ~prListed => prNotify' = prNotify
  BY <1>1, <1>2, <1>6, <1>12
<1>14. prListed =>
         /\ prNotify'.was <=> Online(e)
         /\ prNotify'.baseline <=> prNotify.baseline \/ Online(e)
         /\ e.direct # Never /\ prNow - e.direct < Window => prNotify'.direct = e.direct
         /\ e.direct = Never => prNotify'.direct = prNotify.direct
  BY <1>2, <1>3, <1>7, <1>8, <1>12
<1>15. prGhost' = IF Tells(e) THEN told ELSE g
  BY <1>5, <1>6
<1> QED BY <1>11, <1>13, <1>14, <1>15

(* A sweep finds a friend offline, never one online that was not so before. *)
LEMMA SweepKeeps ==
  ASSUME PresInv, SweepRuns
  PROVE  PresInv'
<1> USE DEF prFriend
<1>1. /\ PresenceTyped /\ ClockInv /\ EntryInv /\ ShownInv /\ WatchInv /\ BeatInv /\ ThereInv
      /\ CallInv /\ BeatsWake
  BY DEF PresInv
<1>2. /\ prSwept' = prNow /\ Emits(prEntry, prGhost)
      /\ UNCHANGED <<prNow, prFriend, prFlight, prListed, prFollowed, prRoom, prEntry>>
  BY DEF SweepRuns
<1>3. prEntry \in PrEntries /\ prGhost \in PrGhosts
  BY <1>1 DEF PresenceTyped
<1>4. /\ prShown' \in BOOLEAN /\ (prShown' <=> Online(prEntry))
      /\ prNotify' \in PrNotifies /\ prNotify'.watched = prNotify.watched
      /\ prGhost' \in PrGhosts /\ prGhost'.turn = prGhost.turn /\ prGhost'.away = prGhost.away
      /\ (prGhost'.whole <=> prGhost.whole) /\ (prGhost'.excuse <=> prGhost.excuse)
      /\ prGhost'.direct = prGhost.direct /\ (prGhost'.stray <=> prGhost.stray)
      /\ prGhost.calls \subseteq prGhost'.calls
      /\ ~Tells(prEntry) => prGhost'.calls = prGhost.calls
  BY <1>1, <1>2, <1>3, EmitsIs
<1>5. ~prListed => prNotify' = prNotify
  BY <1>1, <1>2, <1>3, EmitsIs
<1>6. prListed =>
         /\ prNotify'.was <=> Online(prEntry)
         /\ prNotify'.baseline <=> prNotify.baseline \/ Online(prEntry)
         /\ prEntry.direct # Never /\ prNow - prEntry.direct < Window
              => prNotify'.direct = prEntry.direct
         /\ prEntry.direct = Never => prNotify'.direct = prNotify.direct
  BY <1>1, <1>2, <1>3, EmitsIs
<1>7. Online(prEntry)' <=> Online(prEntry)
  BY <1>2 DEF Online
<1>8. Online(prEntry) => prShown /\ prEntry.seen # Never /\ ~prEntry.left
  BY <1>1 DEF ShownInv, EntryInv, Online
<1>9. OnList' <=> OnList
  BY <1>2, <1>4 DEF OnList, Watching
<1>10. PresenceTyped'
  BY <1>1, <1>2, <1>4, PrTypes DEF PresenceTyped
<1>11. ClockInv'
  BY <1>1, <1>2, <1>4, PrTypes, Timings DEF ClockInv
<1>12. EntryInv'
  BY <1>1, <1>2, <1>4 DEF EntryInv
<1>13. ShownInv'
  BY <1>1, <1>2, <1>4, <1>7, PrTypes, Timings DEF ShownInv, Online
<1>14. WatchInv'
  <2>1. /\ prFollowed' <=> prNotify'.watched # Never
        /\ Never <= prNotify'.watched /\ prNotify'.watched <= prNow'
        /\ prFollowed' /\ ~prGhost'.stray /\ prEntry'.seen # Never
             => prEntry'.seen >= prNotify'.watched
    BY <1>1, <1>2, <1>4 DEF WatchInv
  <2>2. ASSUME ~prFollowed', ~prGhost'.stray
        PROVE  /\ prEntry' = Nothing /\ ~prShown'
               /\ ~prNotify'.was /\ ~prNotify'.baseline /\ prNotify'.direct = Never
    <3>1. /\ prEntry = Nothing /\ ~prNotify.was /\ ~prNotify.baseline /\ prNotify.direct = Never
      BY <1>1, <1>2, <1>4, <2>2 DEF WatchInv
    <3>2. ~Online(prEntry) /\ prEntry.direct = Never
      BY <3>1, NothingIs
    <3> QED BY <1>2, <1>4, <1>5, <1>6, <3>1, <3>2
  <2>3. OnList' => (prNotify'.was <=> prShown') /\ (prNotify'.baseline <=> prEntry'.seen # Never)
    BY <1>1, <1>2, <1>4, <1>6, <1>8, <1>9 DEF WatchInv, OnList, Watching
  <2> QED BY <2>1, <2>2, <2>3 DEF WatchInv
<1>15. BeatInv'
  BY <1>1, <1>2, <1>4 DEF BeatInv, Beating
<1>16. OnList => ~Tells(prEntry)
  BY <1>1, <1>8 DEF WatchInv, Tells
<1>17. ThereInv'
  <2>1. prFollowed /\ ~prGhost.stray => ~Tells(prEntry)
    BY <1>16 DEF OnList, Watching, Tells
  <2> QED BY <1>1, <1>2, <1>4, <2>1 DEF ThereInv
<1>18. CallInv'
  <2>1. OnList /\ prNotify'.was => prNotify.was
    BY <1>1, <1>6, <1>8 DEF WatchInv, OnList, Watching
  <2> QED BY <1>1, <1>2, <1>4, <1>9, <2>1 DEF CallInv
<1>19. BeatsWake'
  BY <1>2, <1>6, <1>9 DEF BeatsWake, OnList, Watching
<1> QED BY <1>10, <1>11, <1>12, <1>13, <1>14, <1>15, <1>17, <1>18, <1>19 DEF PresInv

(* What is known after a message.                                           *)
LEMMA StampedIs ==
  ASSUME PresenceTyped, NEW direct \in BOOLEAN
  PROVE  /\ Stamped(direct) \in PrEntries
         /\ Stamped(direct).seen = prNow /\ Stamped(direct).left = FALSE
         /\ direct => Stamped(direct).direct = prNow
         /\ ~direct /\ Online(prEntry) => Stamped(direct).direct = prEntry.direct
         /\ ~direct /\ ~Online(prEntry) => Stamped(direct).direct = Never
         /\ Online(prEntry) => Stamped(direct).since = prEntry.since
         /\ ~Online(prEntry) => Stamped(direct).since = prNow
<1> DEFINE d == IF direct THEN prNow ELSE IF Online(prEntry) THEN prEntry.direct ELSE Never
           s == IF Online(prEntry) THEN prEntry.since ELSE prNow
<1>1. Stamped(direct) = [seen |-> prNow, left |-> FALSE, direct |-> d, since |-> s]
  BY DEF Stamped
<1>2. d \in Int /\ s \in Int /\ prNow \in Int
  BY PrTypes, NothingIs
<1>3. /\ direct => d = prNow
      /\ ~direct /\ Online(prEntry) => d = prEntry.direct
      /\ ~direct /\ ~Online(prEntry) => d = Never
      /\ Online(prEntry) => s = prEntry.since
      /\ ~Online(prEntry) => s = prNow
  OBVIOUS
<1> HIDE DEF d, s
<1> QED BY <1>1, <1>2, <1>3 DEF PrEntries

(* What the ghost knows of it.                                              *)
LEMMA KnownIs ==
  ASSUME PresenceTyped, NEW m \in prFlight
  PROVE  LET g == [prGhost EXCEPT
                     !.direct = IF m.leg = "direct" /\ m.kind = "beat" THEN prNow ELSE @,
                     !.stray = @ \/ ~prFollowed]
         IN  /\ g \in PrGhosts /\ g.turn = prGhost.turn /\ g.away = prGhost.away
             /\ g.whole = prGhost.whole /\ g.excuse = prGhost.excuse /\ g.calls = prGhost.calls
             /\ (g.stray <=> prGhost.stray \/ ~prFollowed)
             /\ m.leg = "direct" /\ m.kind = "beat" => g.direct = prNow
             /\ ~(m.leg = "direct" /\ m.kind = "beat") => g.direct = prGhost.direct
<1> DEFINE d == IF m.leg = "direct" /\ m.kind = "beat" THEN prNow ELSE prGhost.direct
           stray == prGhost.stray \/ ~prFollowed
           h == [prGhost EXCEPT !.direct = d]
           g == [h EXCEPT !.stray = stray]
<1>1. prGhost \in PrGhosts /\ d \in Int /\ stray \in BOOLEAN
  BY PrTypes DEF PresenceTyped
<1>2. /\ m.leg = "direct" /\ m.kind = "beat" => d = prNow
      /\ ~(m.leg = "direct" /\ m.kind = "beat") => d = prGhost.direct
      /\ stray <=> prGhost.stray \/ ~prFollowed
  OBVIOUS
<1>3. g = [prGhost EXCEPT !.direct = IF m.leg = "direct" /\ m.kind = "beat" THEN prNow ELSE @,
                          !.stray = @ \/ ~prFollowed]
  BY <1>1 DEF PrGhosts
<1> HIDE DEF d, stray
<1>4. /\ h \in PrGhosts /\ h.turn = prGhost.turn /\ h.away = prGhost.away
      /\ h.whole = prGhost.whole /\ h.excuse = prGhost.excuse /\ h.calls = prGhost.calls
      /\ h.direct = d
  BY <1>1 DEF PrGhosts
<1> HIDE DEF h
<1>5. /\ g \in PrGhosts /\ g.turn = h.turn /\ g.away = h.away
      /\ g.whole = h.whole /\ g.excuse = h.excuse /\ g.calls = h.calls
      /\ g.direct = h.direct /\ g.stray = stray
  BY <1>1, <1>4 DEF PrGhosts
<1> HIDE DEF g
<1>6. /\ g \in PrGhosts /\ g.turn = prGhost.turn /\ g.away = prGhost.away
      /\ g.whole = prGhost.whole /\ g.excuse = prGhost.excuse /\ g.calls = prGhost.calls
      /\ (g.stray <=> prGhost.stray \/ ~prFollowed)
      /\ m.leg = "direct" /\ m.kind = "beat" => g.direct = prNow
      /\ ~(m.leg = "direct" /\ m.kind = "beat") => g.direct = prGhost.direct
  BY <1>2, <1>4, <1>5
<1> QED BY <1>3, <1>6

(* Nobody hears it: it was not a beat over the relays to one who follows.   *)
Unheard(m) ==
  /\ m \in prFlight /\ prFlight' = prFlight \ {m}
  /\ ~(m.leg = "relay" /\ m.kind = "beat" /\ prFollowed)
  /\ UNCHANGED <<prNow, prFriend, prListed, prFollowed, prRoom, prSwept, prEntry, prNotify,
                 prShown, prGhost>>

(* It is heard, and then this is so.                                        *)
Heard(m, e) ==
  /\ m \in prFlight /\ prFlight' = prFlight \ {m}
  /\ UNCHANGED <<prNow, prFriend, prListed, prFollowed, prRoom, prSwept>>
  /\ prEntry' = e /\ e \in PrEntries
  /\ prShown' \in BOOLEAN /\ (prShown' <=> Online(e))
  /\ prNotify' \in PrNotifies /\ prNotify'.watched = prNotify.watched
  /\ prListed =>
       /\ prNotify'.was <=> Online(e)
       /\ prNotify'.baseline <=> prNotify.baseline \/ Online(e)
       /\ e.direct # Never /\ prNow - e.direct < Window => prNotify'.direct = e.direct
  /\ prGhost' \in PrGhosts /\ prGhost'.turn = prGhost.turn /\ prGhost'.away = prGhost.away
  /\ (prGhost'.whole <=> prGhost.whole) /\ (prGhost'.excuse <=> prGhost.excuse)
  /\ (prGhost'.stray <=> prGhost.stray \/ ~prFollowed)
  /\ m.leg = "direct" /\ m.kind = "beat" => prGhost'.direct = prNow
  /\ ~(m.leg = "direct" /\ m.kind = "beat") => prGhost'.direct = prGhost.direct
  /\ prGhost.calls \subseteq prGhost'.calls
  /\ Tells(e) => prNow \in prGhost'.calls
  /\ ~Tells(e) => prGhost'.calls = prGhost.calls

(* A message is heard, or not.                                              *)
LEMMA ArrivesIs ==
  ASSUME PresenceTyped, NEW m \in prFlight, Arrives(m)
  PROVE  \/ Unheard(m)
         \/ m.kind = "beat" /\ Heard(m, Stamped(m.leg = "direct"))
         \/ m.kind = "leaving" /\ Heard(m, [prEntry EXCEPT !.left = TRUE])
<1> DEFINE known == [prGhost EXCEPT
                       !.direct = IF m.leg = "direct" /\ m.kind = "beat" THEN prNow ELSE @,
                       !.stray = @ \/ ~prFollowed]
           heard == IF m.kind = "beat" THEN Stamped(m.leg = "direct")
                    ELSE [prEntry EXCEPT !.left = TRUE]
<1>1. /\ prFlight' = prFlight \ {m}
      /\ UNCHANGED <<prNow, prFriend, prListed, prFollowed, prRoom, prSwept>>
  BY DEF Arrives
<1>2. \/ /\ ~Hears(m.leg) \/ m.kind = "leaving"
         /\ UNCHANGED <<prEntry, prNotify, prShown, prGhost>>
      \/ prEntry' = heard /\ Emits(heard, known)
  BY DEF Arrives
<1>3. m.kind \in {"beat", "leaving"}
  BY PrTypes
<1>4. CASE /\ ~Hears(m.leg) \/ m.kind = "leaving"
           /\ UNCHANGED <<prEntry, prNotify, prShown, prGhost>>
  BY <1>1, <1>4 DEF Unheard, Hears
<1>5. CASE prEntry' = heard /\ Emits(heard, known)
  <2>1. /\ known \in PrGhosts /\ known.turn = prGhost.turn /\ known.away = prGhost.away
        /\ known.whole = prGhost.whole /\ known.excuse = prGhost.excuse
        /\ known.calls = prGhost.calls
        /\ (known.stray <=> prGhost.stray \/ ~prFollowed)
        /\ m.leg = "direct" /\ m.kind = "beat" => known.direct = prNow
        /\ ~(m.leg = "direct" /\ m.kind = "beat") => known.direct = prGhost.direct
    BY KnownIs
  <2>2. heard \in PrEntries
    <3>1. CASE m.kind = "beat"
      <4> DEFINE direct == m.leg = "direct"
      <4>1. direct \in BOOLEAN
        OBVIOUS
      <4> HIDE DEF direct
      <4>2. Stamped(direct) \in PrEntries
        BY <4>1, StampedIs
      <4> QED BY <3>1, <4>2 DEF direct
    <3>2. CASE m.kind # "beat"
      BY <3>2 DEF PresenceTyped, PrEntries
    <3> QED BY <3>1, <3>2
  <2> HIDE DEF known, heard
  <2>3. Heard(m, heard)
    <3>1. Emits(heard, known)
      BY <1>5
    <3>2. /\ prShown' \in BOOLEAN /\ (prShown' <=> Online(heard))
          /\ prNotify' \in PrNotifies /\ prNotify'.watched = prNotify.watched
      BY <2>1, <2>2, <3>1, EmitsIs
    <3>3. prListed =>
            /\ prNotify'.was <=> Online(heard)
            /\ prNotify'.baseline <=> prNotify.baseline \/ Online(heard)
            /\ heard.direct # Never /\ prNow - heard.direct < Window
                 => prNotify'.direct = heard.direct
      BY <2>1, <2>2, <3>1, EmitsIs
    <3>4. /\ prGhost' \in PrGhosts /\ prGhost'.turn = known.turn /\ prGhost'.away = known.away
          /\ (prGhost'.whole <=> known.whole) /\ (prGhost'.excuse <=> known.excuse)
          /\ prGhost'.direct = known.direct /\ (prGhost'.stray <=> known.stray)
          /\ known.calls \subseteq prGhost'.calls
          /\ Tells(heard) => prNow \in prGhost'.calls
          /\ ~Tells(heard) => prGhost'.calls = known.calls
      BY <2>1, <2>2, <3>1, EmitsIs
    <3> QED BY <1>1, <1>5, <2>1, <2>2, <3>2, <3>3, <3>4 DEF Heard
  <2> QED BY <1>3, <2>3 DEF heard
<1> QED BY <1>2, <1>4, <1>5

(* One that is not heard changes nothing.                                   *)
LEMMA UnheardKeeps ==
  ASSUME PresInv, NEW m, Unheard(m)
  PROVE  PresInv'
<1> USE DEF prFriend
<1>1. /\ PresenceTyped /\ ClockInv /\ EntryInv /\ ShownInv /\ WatchInv /\ BeatInv /\ ThereInv
      /\ CallInv /\ BeatsWake
  BY DEF PresInv
<1>2. /\ prFlight' = prFlight \ {m} /\ ~(m.leg = "relay" /\ m.kind = "beat" /\ prFollowed)
      /\ UNCHANGED <<prNow, prFriend, prListed, prFollowed, prRoom, prSwept, prEntry, prNotify,
                 prShown, prGhost>>
  BY DEF Unheard
<1>3. PresenceTyped' /\ ClockInv' /\ EntryInv'
  BY <1>1, <1>2 DEF PresenceTyped, ClockInv, EntryInv
<1>4. ShownInv' /\ WatchInv'
  BY <1>1, <1>2 DEF ShownInv, WatchInv, Online, OnList, Watching
<1>5. BeatInv' /\ ThereInv'
  BY <1>1, <1>2 DEF BeatInv, Beating, ThereInv
<1>6. CallInv' /\ BeatsWake'
  BY <1>1, <1>2 DEF CallInv, BeatsWake, OnList, Watching
<1> QED BY <1>3, <1>4, <1>5, <1>6 DEF PresInv

(* A farewell came from a friend that had gone by then, if perhaps not for  *)
(* good.                                                                    *)
LEMMA FarewellKeeps ==
  ASSUME PresInv, NEW m, m.kind = "leaving", Heard(m, [prEntry EXCEPT !.left = TRUE])
  PROVE  PresInv'
<1> USE DEF prFriend
<1> DEFINE e == [prEntry EXCEPT !.left = TRUE]
<1>1. /\ PresenceTyped /\ ClockInv /\ EntryInv /\ ShownInv /\ WatchInv /\ BeatInv /\ ThereInv
  BY DEF PresInv
<1>2. /\ e.seen = prEntry.seen /\ e.direct = prEntry.direct /\ e.since = prEntry.since /\ e.left
  BY <1>1 DEF PresenceTyped, PrEntries
<1>3. Heard(m, e)
  OBVIOUS
<1> HIDE DEF e
<1>4. /\ m \in prFlight /\ prFlight' = prFlight \ {m}
      /\ UNCHANGED <<prNow, prFriend, prListed, prFollowed, prRoom, prSwept>>
      /\ prEntry' = e /\ e \in PrEntries
  BY <1>3 DEF Heard
<1>5. ~Online(e)
  BY <1>2 DEF Online
<1>6. /\ prShown' \in BOOLEAN /\ ~prShown' /\ prNotify' \in PrNotifies
      /\ prNotify'.watched = prNotify.watched
      /\ prListed =>
           /\ ~prNotify'.was
           /\ prNotify'.baseline <=> prNotify.baseline
           /\ e.direct # Never /\ prNow - e.direct < Window => prNotify'.direct = e.direct
  BY <1>3, <1>5 DEF Heard
<1>7. /\ prGhost' \in PrGhosts /\ prGhost'.turn = prGhost.turn
      /\ (prGhost'.whole <=> prGhost.whole) /\ (prGhost'.excuse <=> prGhost.excuse)
      /\ (prGhost'.stray <=> prGhost.stray \/ ~prFollowed)
      /\ prGhost'.direct = prGhost.direct
  BY <1>3 DEF Heard
<1>8. PresenceTyped'
  BY <1>1, <1>4, <1>6, <1>7 DEF PresenceTyped
<1>9. ClockInv'
  BY <1>1, <1>4, <1>7 DEF ClockInv
<1>10. EntryInv'
  <2>1. prEntry.seen <= prGhost.turn + MaxDelay
    BY <1>1, <1>4, PrTypes, Timings DEF ClockInv, EntryInv
  <2> QED BY <1>1, <1>2, <1>4, <1>7, <2>1 DEF EntryInv
<1>11. ShownInv'
  BY <1>2, <1>4, <1>6 DEF ShownInv, Online
<1>12. OnList' => OnList
  BY <1>4, <1>7 DEF OnList, Watching
<1>13. WatchInv'
  <2>1. /\ prFollowed' <=> prNotify'.watched # Never
        /\ Never <= prNotify'.watched /\ prNotify'.watched <= prNow'
        /\ prFollowed' /\ ~prGhost'.stray /\ prEntry'.seen # Never
             => prEntry'.seen >= prNotify'.watched
    BY <1>1, <1>2, <1>4, <1>6, <1>7 DEF WatchInv
  <2>2. prFollowed' \/ prGhost'.stray
    BY <1>4, <1>7
  <2>3. OnList' => (prNotify'.was <=> prShown') /\ (prNotify'.baseline <=> prEntry'.seen # Never)
    BY <1>1, <1>2, <1>4, <1>6, <1>12 DEF WatchInv, OnList, Watching
  <2> QED BY <2>1, <2>2, <2>3 DEF WatchInv
<1>14. BeatInv'
  BY <1>1, <1>2, <1>4, <1>6, <1>7 DEF BeatInv, Beating
<1>15. ThereInv'
  BY <1>1, <1>4, <1>7 DEF ThereInv
<1>16. CallInv'
  BY <1>4, <1>6 DEF CallInv, OnList, Watching
<1>17. BeatsWake'
  BY <1>4, <1>6 DEF BeatsWake, OnList, Watching
<1> QED BY <1>8, <1>9, <1>10, <1>11, <1>13, <1>14, <1>15, <1>16, <1>17 DEF PresInv

(* A friend that was there all along was shown, or the watch has just begun.*)
LEMMA NoTale ==
  ASSUME PresInv, prFollowed, ~prGhost.excuse, ~prGhost.stray, NEW e
  PROVE  ~Tells(e)
<1>1. /\ PresenceTyped /\ ClockInv /\ EntryInv /\ ShownInv /\ WatchInv /\ ThereInv
  BY DEF PresInv
<1>2. prUp /\ prGhost.turn <= prNotify.watched /\ (prEntry.seen # Never => ~prEntry.left)
  BY <1>1 DEF ThereInv
<1> SUFFICES ASSUME prListed, ~prNotify.was
             PROVE  /\ ~prNotify.baseline
                    /\ prNow - prNotify.watched < Settled
  BY <1>1, PrTypes, Timings DEF Tells
<1>3. /\ ~prShown /\ (prNotify.baseline <=> prEntry.seen # Never)
      /\ prEntry.seen # Never => prEntry.seen >= prNotify.watched
      /\ 0 <= prNotify.watched
  BY <1>1, PrTypes, NothingIs DEF WatchInv, OnList, Watching
<1>4. prEntry.seen # Never => prNow - prEntry.seen >= Window
  BY <1>1, <1>2, <1>3, PrTypes, Timings DEF ShownInv, Online
<1>5. prNow <= prNotify.watched + Beat + MaxDelay
  <2> SUFFICES ASSUME prNow > prNotify.watched + Beat + MaxDelay
               PROVE  FALSE
    BY <1>1, PrTypes, Timings
  <2>1. prNow >= prGhost.turn + Beat + MaxDelay
    BY <1>1, <1>2, PrTypes, Timings
  <2>2. prEntry.seen >= prNow - Beat - MaxDelay
    BY <1>2, <2>1, HeardLately
  <2> QED BY <1>1, <1>3, <1>4, <2>2, PrTypes, Timings, NothingIs
<1>6. prEntry.seen = Never
  BY <1>1, <1>3, <1>4, <1>5, PrTypes, Timings
<1> QED BY <1>1, <1>3, <1>5, <1>6, PrTypes, Timings

(* A beat: the friend is online, and news only if it came.                  *)
LEMMA BeatKeeps ==
  ASSUME PresInv, NEW m, m.kind = "beat", Heard(m, Stamped(m.leg = "direct"))
  PROVE  PresInv'
<1> USE DEF prFriend
<1> DEFINE direct == m.leg = "direct"
           e == Stamped(direct)
<1>1. /\ PresenceTyped /\ ClockInv /\ EntryInv /\ ShownInv /\ WatchInv /\ BeatInv /\ ThereInv
      /\ CallInv
  BY DEF PresInv
<1>2. direct \in BOOLEAN /\ (direct <=> m.leg = "direct")
  OBVIOUS
<1>3. Heard(m, e)
  OBVIOUS
<1> HIDE DEF direct
<1>4. /\ e.seen = prNow /\ e.left = FALSE
      /\ direct => e.direct = prNow
      /\ ~direct /\ Online(prEntry) => e.direct = prEntry.direct
      /\ ~direct /\ ~Online(prEntry) => e.direct = Never
      /\ Online(prEntry) => e.since = prEntry.since
      /\ ~Online(prEntry) => e.since = prNow
  BY <1>1, <1>2, StampedIs
<1> HIDE DEF e
<1>5. /\ m \in prFlight /\ prFlight' = prFlight \ {m}
      /\ UNCHANGED <<prNow, prFriend, prListed, prFollowed, prRoom, prSwept>>
      /\ prEntry' = e /\ e \in PrEntries
  BY <1>3 DEF Heard
<1>6. Online(e)
  BY <1>1, <1>4, PrTypes, Timings DEF Online
<1>7. /\ prShown' \in BOOLEAN /\ prShown' /\ prNotify' \in PrNotifies
      /\ prNotify'.watched = prNotify.watched
      /\ prListed =>
           /\ prNotify'.was /\ prNotify'.baseline
           /\ e.direct # Never /\ prNow - e.direct < Window => prNotify'.direct = e.direct
  BY <1>3, <1>6 DEF Heard
<1>8. /\ prGhost' \in PrGhosts /\ prGhost'.turn = prGhost.turn /\ prGhost'.away = prGhost.away
      /\ (prGhost'.whole <=> prGhost.whole) /\ (prGhost'.excuse <=> prGhost.excuse)
      /\ (prGhost'.stray <=> prGhost.stray \/ ~prFollowed)
      /\ direct => prGhost'.direct = prNow
      /\ ~direct => prGhost'.direct = prGhost.direct
      /\ prGhost.calls \subseteq prGhost'.calls
      /\ Tells(e) => prNow \in prGhost'.calls
      /\ ~Tells(e) => prGhost'.calls = prGhost.calls
  BY <1>2, <1>3 DEF Heard
<1>9. PresenceTyped'
  BY <1>1, <1>5, <1>7, <1>8 DEF PresenceTyped
<1>10. ClockInv'
  BY <1>1, <1>5, <1>8 DEF ClockInv
<1>11. EntryInv'
  <2>1. ~prUp => prNow <= prGhost.turn + MaxDelay
    BY <1>1, <1>5, PrTypes, Timings DEF ClockInv
  <2>2. CASE direct
    <3>1. /\ Never <= prEntry'.seen /\ Never <= prEntry'.direct /\ Never <= prEntry'.since
          /\ prEntry'.seen <= prNow' /\ prEntry'.direct <= prEntry'.seen
          /\ prEntry'.since <= prEntry'.seen /\ prGhost'.direct <= prNow'
      BY <1>1, <1>4, <1>5, <1>8, <2>2, PrTypes, Timings, NothingIs DEF EntryInv
    <3>2. /\ ~prEntry'.left => prEntry'.seen # Never
          /\ prEntry'.left \/ ~prUp' => prEntry'.seen <= prGhost'.turn + MaxDelay
          /\ prEntry'.direct = prGhost'.direct /\ prEntry'.direct # Never
      BY <1>1, <1>4, <1>5, <1>8, <2>1, <2>2, PrTypes, NothingIs
    <3> QED BY <3>1, <3>2 DEF EntryInv
  <2>3. CASE ~direct
    <3>1. /\ Never <= prEntry'.seen /\ Never <= prEntry'.direct /\ Never <= prEntry'.since
          /\ prEntry'.seen <= prNow' /\ prEntry'.direct <= prEntry'.seen
          /\ prEntry'.since <= prEntry'.seen /\ prGhost'.direct <= prNow'
      BY <1>1, <1>4, <1>5, <1>8, <2>3, PrTypes, Timings, NothingIs DEF EntryInv
    <3>2. /\ ~prEntry'.left => prEntry'.seen # Never
          /\ prEntry'.left \/ ~prUp' => prEntry'.seen <= prGhost'.turn + MaxDelay
      BY <1>1, <1>4, <1>5, <1>8, <2>1, <2>3, PrTypes, NothingIs
    <3>3. /\ prEntry'.direct # Never => prEntry'.direct = prGhost'.direct
          /\ prEntry'.seen # Never /\ prEntry'.direct = Never => prGhost'.direct <= prEntry'.since
      <4>1. CASE Online(prEntry)
        <5>1. prEntry.seen # Never
          BY <1>1, <4>1 DEF EntryInv, Online
        <5> QED BY <1>1, <1>4, <1>5, <1>8, <2>3, <4>1, <5>1 DEF EntryInv
      <4>2. CASE ~Online(prEntry)
        BY <1>1, <1>4, <1>5, <1>8, <2>3, <4>2 DEF EntryInv
      <4> QED BY <4>1, <4>2
    <3> QED BY <3>1, <3>2, <3>3 DEF EntryInv
  <2> QED BY <2>2, <2>3
<1>12. ShownInv'
  BY <1>1, <1>4, <1>5, <1>7, PrTypes, Timings DEF ShownInv, Online, ClockInv
<1>13. OnList' => OnList /\ prListed
  BY <1>5, <1>8 DEF OnList, Watching
<1>14. WatchInv'
  <2>1. /\ prFollowed' <=> prNotify'.watched # Never
        /\ Never <= prNotify'.watched /\ prNotify'.watched <= prNow'
        /\ prFollowed' /\ ~prGhost'.stray /\ prEntry'.seen # Never
             => prEntry'.seen >= prNotify'.watched
    BY <1>1, <1>4, <1>5, <1>7, <1>8 DEF WatchInv
  <2>2. prFollowed' \/ prGhost'.stray
    BY <1>5, <1>8
  <2>3. OnList' => (prNotify'.was <=> prShown') /\ (prNotify'.baseline <=> prEntry'.seen # Never)
    BY <1>1, <1>4, <1>5, <1>7, <1>13, PrTypes, NothingIs
  <2> QED BY <2>1, <2>2, <2>3 DEF WatchInv
<1>15. BeatInv'
  <2> SUFFICES ASSUME prUp, prFollowed, prGhost.whole \/ ~prGhost.excuse, NEW t \in Int,
                      t > prNotify.watched, t >= prGhost.turn, t + Beat <= prNextBeat
               PROVE  prNow >= t
    BY <1>4, <1>5, <1>7, <1>8 DEF BeatInv, Beating
  <2>1. Beating(t)
    BY <1>1 DEF BeatInv
  <2>2. \A m1 \in prFlight : m1.at <= prNow /\ m1.at \in Nat
    BY <1>1, PrTypes DEF ClockInv
  <2> QED BY <1>1, <2>1, <2>2, PrTypes DEF Beating, EntryInv
<1>16. ThereInv'
  <2> SUFFICES ASSUME prFollowed, ~prGhost.excuse, ~prGhost.stray
               PROVE  /\ prUp' /\ prGhost'.turn <= prNotify'.watched
                      /\ \A m1 \in prFlight' : m1.kind = "beat"
                      /\ ~prEntry'.left
                      /\ prGhost'.calls = {}
    BY <1>5, <1>8 DEF ThereInv
  <2>1. ~Tells(e)
    BY NoTale
  <2> QED BY <1>1, <1>4, <1>5, <1>7, <1>8, <2>1 DEF ThereInv
<1>17. CallInv'
  <2> SUFFICES ASSUME OnList', prUp, prGhost.whole,
                      prGhost.away > MaxDelay + Window + Sweep,
                      prGhost.turn >= prNotify.watched + Settled
               PROVE  \E t \in prGhost'.calls : t >= prGhost'.turn
    BY <1>5, <1>7, <1>8 DEF CallInv
  <2>1. CASE prNotify.was
    <3>1. \E t \in prGhost.calls : t >= prGhost.turn
      BY <1>1, <1>13, <2>1 DEF CallInv
    <3> QED BY <1>8, <3>1
  <2>2. CASE ~prNotify.was
    <3>1. prNotify.watched # Never /\ prGhost.turn <= prNow
      BY <1>1, <1>13 DEF WatchInv, ClockInv, OnList, Watching
    <3>2. prNow - prNotify.watched >= Settled
      BY <1>1, <3>1, PrTypes, Timings
    <3>3. Tells(e)
      BY <1>6, <1>13, <2>2, <3>1, <3>2 DEF Tells
    <3> QED BY <1>8, <3>1, <3>3
  <2> QED BY <2>1, <2>2
<1>18. BeatsWake'
  BY <1>5, <1>7, <1>13 DEF BeatsWake
<1> QED BY <1>9, <1>10, <1>11, <1>12, <1>14, <1>15, <1>16, <1>17, <1>18 DEF PresInv

(* Every step keeps it.                                                     *)
LEMMA PresenceKeeps ==
  ASSUME PresInv, [PresenceNext]_prVars
  PROVE  PresInv'
<1>1. ASSUME NEW m \in prFlight, Arrives(m) PROVE PresInv'
  <2>1. PresenceTyped
    BY DEF PresInv
  <2> QED BY <1>1, <2>1, ArrivesIs, UnheardKeeps, BeatKeeps, FarewellKeeps
<1> QED BY <1>1, StartsKeeps, BeatsKeeps, EndsKeeps, GreetsKeeps, LostKeeps, SweepKeeps,
           ListEditedKeeps, UnfollowsKeeps, FollowsKeeps, RoomIsLeftKeeps, PrTickKeeps
        DEF PresenceNext

(* For any intervals and delays that the assumption allows, whatever is     *)
(* lost, reordered or edited: a friend that is gone is shown offline in     *)
(* time and one whose beats arrive online, nobody is announced who was      *)
(* there all along, who comes after an absence is, and "limited" is said of *)
(* those it is true of (presence.ts, InboxBoot.tsx).                        *)
THEOREM PresenceAlwaysSound == PresenceSpec => []PresenceIsSound
<1>1. PresenceInit => PresInv
  BY PresenceStart
<1>2. PresInv /\ [PresenceNext]_prVars => PresInv'
  BY PresenceKeeps
<1>3. PresInv => PresenceIsSound
  BY PresenceSound
<1> QED BY <1>1, <1>2, <1>3, PTL DEF PresenceSpec
=============================================================================
