----------------------------- MODULE InviteRetry -----------------------------
(***************************************************************************)
(* Invitations of one friend (features/friends/inviteRetry.ts and           *)
(* inviteFriend of invite.ts).  An invitation that nobody acknowledged is   *)
(* kept, and sent again when the friend's heartbeat arrives directly, until *)
(* it is acknowledged, three minutes are over or the session ends.  Every   *)
(* send takes seconds; whatever else happens meanwhile is an action here.   *)
(*                                                                          *)
(* Friends do not share entries, so one is enough.  The entry that a failed *)
(* send leaves behind has the number of that send: the object identity the  *)
(* code compares after each await.  An entry that is invalidated is out of  *)
(* the map as well, so `cancelled` needs no field.                          *)
(***************************************************************************)
EXTENDS Integers, FiniteSets

CONSTANTS
  Sessions,     \* session topics; one may be entered again
  None,         \* no session, no entry
  MaxInvites    \* bound: times the user presses Invite

ASSUME MaxInvitesAssumption == MaxInvites \in Nat

VARIABLES
  live,         \* the session the user is in, or None
  pendingInvite, \* pendingInvite[s]: the entry kept for session s, or None
  delivered,    \* sessions whose invitation was acknowledged
  sends,        \* sends that have not settled yet
  invites,      \* number of invitations so far
  waiting       \* sessions whose invitation failed since the user entered
                \* them, and was neither acknowledged nor given up as too old

inviteVars == <<live, pendingInvite, delivered, sends, invites, waiting>>

Numbers == 1..MaxInvites
Entries == [number : Numbers, old : BOOLEAN, inFlight : BOOLEAN]
Sends ==
  [kind : {"direct", "retry"}, session : Sessions, number : Numbers,
   aborted : BOOLEAN]

ASSUME NoneAssumption == None \notin Sessions \union Entries

InviteTypeOK ==
  /\ live \in Sessions \union {None}
  /\ pendingInvite \in [Sessions -> Entries \union {None}]
  /\ delivered \subseteq Sessions
  /\ sends \subseteq Sends
  /\ invites \in 0..MaxInvites
  /\ waiting \subseteq Sessions

InviteInit ==
  /\ live = None
  /\ pendingInvite = [s \in Sessions |-> None]
  /\ delivered = {} /\ sends = {} /\ invites = 0 /\ waiting = {}

----------------------------------------------------------------------------
Resending(s, n) == [kind |-> "retry", session |-> s, number |-> n, aborted |-> FALSE]
Direct(s, n) == [kind |-> "direct", session |-> s, number |-> n, aborted |-> FALSE]

(* invalidate: the retries of the given sessions are aborted; they settle   *)
(* later.  A direct send has no signal and goes on.                         *)
AbortRetries(of, ss) ==
  {IF r.kind = "retry" /\ r.session \in ss THEN [r EXCEPT !.aborted = TRUE] ELSE r
     : r \in of}

IsCurrent(r) ==
  /\ pendingInvite[r.session] # None
  /\ pendingInvite[r.session].number = r.number

(* register: an entry that is being sent is never replaced, and its window  *)
(* not extended.                                                            *)
InTheAir(s) == pendingInvite[s] # None /\ pendingInvite[s].inFlight
Fresh(n) == [number |-> n, old |-> FALSE, inFlight |-> FALSE]

Register(s, n) ==
  LET kept == s \in delivered \/ InTheAir(s) IN
  /\ pendingInvite' = IF kept THEN pendingInvite ELSE [pendingInvite EXCEPT ![s] = Fresh(n)]
  /\ waiting' = IF s # live \/ kept THEN waiting ELSE waiting \union {s}

----------------------------------------------------------------------------
EnterSession(s) ==
  /\ live = None
  /\ live' = s
  /\ UNCHANGED <<pendingInvite, delivered, sends, invites, waiting>>

(* The session ends; the subscription of InboxBoot runs cancelAll at once.  *)
LeaveSession ==
  /\ live # None
  /\ live' = None
  /\ pendingInvite' = [s \in Sessions |-> None]
  /\ delivered' = {} /\ waiting' = {}
  /\ sends' = AbortRetries(sends, {s \in Sessions : pendingInvite[s] # None})
  /\ UNCHANGED invites

(* inviteFriend *)
Invite ==
  /\ live # None /\ invites < MaxInvites
  /\ invites' = invites + 1
  /\ sends' = sends \union {Direct(live, invites + 1)}
  /\ UNCHANGED <<live, pendingInvite, delivered, waiting>>

MarkDeliveredOnly(d) ==              \* slip: the retry under way goes on
  /\ d \in sends /\ d.kind = "direct"
  /\ sends' = sends \ {d}
  /\ pendingInvite' = [pendingInvite EXCEPT ![d.session] = None]
  /\ delivered' = delivered \union {d.session}
  /\ waiting' = waiting \ {d.session}
  /\ UNCHANGED <<live, invites>>

(* A signed acknowledgement of a direct send: markDelivered.                *)
DirectAcked(d) ==
  /\ d \in sends /\ d.kind = "direct"
  /\ sends' = LET left == sends \ {d} IN
              IF pendingInvite[d.session] = None THEN left
                                           ELSE AbortRetries(left, {d.session})
  /\ pendingInvite' = [pendingInvite EXCEPT ![d.session] = None]
  /\ delivered' = delivered \union {d.session}
  /\ waiting' = waiting \ {d.session}
  /\ UNCHANGED <<live, invites>>

(* Sent without an acknowledgement, or nobody came: kept for a retry.       *)
DirectUnconfirmed(d) ==
  /\ d \in sends /\ d.kind = "direct"
  /\ sends' = sends \ {d}
  /\ Register(d.session, d.number)
  /\ UNCHANGED <<live, delivered, invites>>

(* The relays are out of reach, or the send failed: nothing is kept.        *)
DirectFailed(d) ==
  /\ d \in sends /\ d.kind = "direct"
  /\ sends' = sends \ {d}
  /\ UNCHANGED <<live, pendingInvite, delivered, invites, waiting>>

(* RETRY_WINDOW_MS is over for an entry.                                    *)
Ages(s) ==
  /\ pendingInvite[s] # None /\ ~pendingInvite[s].old
  /\ pendingInvite' = [pendingInvite EXCEPT ![s].old = TRUE]
  /\ waiting' = waiting \ {s}
  /\ UNCHANGED <<live, delivered, sends, invites>>

(* onPresenceOnline up to its first await: entries that are too old or of a *)
(* session that is over are discarded, the one of the live session is sent  *)
(* unless it is being sent.                                                 *)
Resend(s) == s = live /\ pendingInvite[s] # None /\ ~InTheAir(s) /\ ~pendingInvite[s].old

PresenceOnline ==
  /\ \E s \in Sessions : pendingInvite[s] # None /\ ~InTheAir(s)
  /\ pendingInvite' = [s \in Sessions |->
       IF InTheAir(s) THEN pendingInvite[s]
       ELSE IF Resend(s) THEN [pendingInvite[s] EXCEPT !.inFlight = TRUE] ELSE None]
  /\ sends' = sends \union
       {Resending(s, pendingInvite[s].number) : s \in {t \in Sessions : Resend(t)}}
  /\ UNCHANGED <<live, delivered, invites, waiting>>

(* A retry settles.  One that is not current any more is forgotten.         *)
RetryStale(r) ==
  /\ r \in sends /\ r.kind = "retry"
  /\ r.aborted \/ ~IsCurrent(r)
  /\ sends' = sends \ {r}
  /\ UNCHANGED <<live, pendingInvite, delivered, invites, waiting>>

RetryAcked(r) ==
  /\ r \in sends /\ r.kind = "retry" /\ ~r.aborted /\ IsCurrent(r)
  /\ sends' = sends \ {r}
  /\ pendingInvite' = [pendingInvite EXCEPT ![r.session] = None]
  /\ delivered' = IF r.session = live THEN delivered \union {r.session}
                                      ELSE delivered
  /\ waiting' = waiting \ {r.session}
  /\ UNCHANGED <<live, invites>>

(* Not acknowledged, or thrown: kept for the next heartbeat.  (A settled    *)
(* send of a session that is over discards its entry; Leave came first.)    *)
RetryFailed(r) ==
  /\ r \in sends /\ r.kind = "retry" /\ ~r.aborted /\ IsCurrent(r)
  /\ sends' = sends \ {r}
  /\ pendingInvite' = [pendingInvite EXCEPT ![r.session] =
       IF r.session = live THEN [@ EXCEPT !.inFlight = FALSE] ELSE None]
  /\ UNCHANGED <<live, delivered, invites, waiting>>

InviteNext ==
  \/ LeaveSession \/ Invite \/ PresenceOnline
  \/ \E s \in Sessions : EnterSession(s) \/ Ages(s)
  \/ \E r \in sends :
       \/ DirectAcked(r) \/ DirectUnconfirmed(r) \/ DirectFailed(r)
       \/ RetryStale(r) \/ RetryAcked(r) \/ RetryFailed(r)

InviteSpec == InviteInit /\ [][InviteNext]_inviteVars

----------------------------------------------------------------------------
Active(of, s) == {r \in of : r.kind = "retry" /\ r.session = s /\ ~r.aborted}
Retrying(s) == Active(sends, s)

(* Property: an entry is marked in flight exactly while one retry of it, and *)
(* no other retry for that session, is under way.  Marked without a retry   *)
(* it would never be sent again; two retries would ring the friend twice.   *)
InFlightIsSending ==
  \A s \in Sessions :
    IF InTheAir(s)
      THEN Retrying(s) = {Resending(s, pendingInvite[s].number)}
      ELSE Retrying(s) = {}

(* Property: no retry that has not been aborted calls the friend into a     *)
(* session the user is not in, and none is under way or kept once the       *)
(* friend has acknowledged.                                                 *)
RetriesAreWanted ==
  /\ \A s \in Sessions : Retrying(s) # {} => s = live
  /\ \A s \in delivered : pendingInvite[s] = None /\ Retrying(s) = {}

(* Property: an invitation that failed is not forgotten.  While the user    *)
(* stays in the session and the window is open, it is kept for the next     *)
(* heartbeat, whatever other sends of it do.                                *)
FailedInvitesAreKept ==
  \A s \in waiting : s = live /\ pendingInvite[s] # None

(* Property: what is sent again is exactly what is still wanted and has not *)
(* arrived (inviteRetry.ts:120-209).                                        *)
RetriesAreSound == InFlightIsSending /\ RetriesAreWanted /\ FailedInvitesAreKept
=============================================================================
