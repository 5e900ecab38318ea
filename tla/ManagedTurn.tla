---------------------------- MODULE ManagedTurn -----------------------------
(***************************************************************************)
(* The client of the relay broker (src/lib/managedTurn.ts): it logs in,     *)
(* links and unlinks accounts, and holds a lease of relay credentials that  *)
(* it renews.  Everything can change while a request is out, so the code    *)
(* counts generations: of the identity, of the account, of the lease and of *)
(* the login.  A generation is only ever compared with the current one, so  *)
(* a request carries, in place of the numbers, which of them are current    *)
(* still: [kind, mine, acc, lease, log], where `mine` says that the request *)
(* is the one statusRequest or credentialRequest points to.  reset() aborts *)
(* every request, and what returns later has no effect.                     *)
(*                                                                          *)
(* The broker is reduced to whether an approved account is linked and to    *)
(* whether a credential was issued after the latest unlink: TurnBroker has  *)
(* the rest.                                                                *)
(***************************************************************************)
EXTENDS Naturals, FiniteSets

CONSTANTS
  MaxFails,     \* bound: requests that fail or time out
  MaxActs,      \* bound: things the user does to the account
  MaxOut        \* bound: requests out when the user or a timer does something

ASSUME ManagedTurnAssumption ==
  MaxFails \in Nat /\ MaxActs \in Nat /\ MaxOut \in Nat

VARIABLES
  mtActive,     \* an identity is set and has opted in
  mtWanted,     \* preference # "never"
  mtUsable,     \* the last status: approved, open and free of charge
  mtLogin,      \* "none", "open" (in the browser) or "ready" (to confirm)
  mtPoll,       \* is the poll timer armed?
  mtLease,      \* "none", "live" or "over" (the clock is past its end)
  mtRenew,      \* is the renewal timer armed?
  mtPointers,   \* which of statusRequest, credentialRequest are set
  mtRequests,   \* requests under way
  mtAnswers,    \* answers under way: [request, ok, good]
  mtLinked,     \* the broker: an approved account is linked
  mtGood,       \* history: the lease was issued after the latest unlink
  mtFails, mtActs

mtVars == <<mtActive, mtWanted, mtUsable, mtLogin, mtPoll, mtLease, mtRenew,
            mtPointers, mtRequests, mtAnswers, mtLinked, mtGood, mtFails,
            mtActs>>
boundVars == <<mtFails, mtActs>>

TurnInit ==
  /\ mtActive = FALSE /\ mtWanted = TRUE /\ mtUsable = FALSE
  /\ mtLogin = "none" /\ mtPoll = FALSE
  /\ mtLease = "none" /\ mtRenew = FALSE /\ mtGood = TRUE
  /\ mtPointers = {} /\ mtRequests = {} /\ mtAnswers = {}
  /\ mtLinked \in BOOLEAN
  /\ mtFails = 0 /\ mtActs = 0

Asked(kind) == [kind |-> kind, mine |-> kind \in {"status", "credentials"},
                acc |-> TRUE, lease |-> TRUE, log |-> TRUE]

UsableWith(usable) == mtActive /\ mtWanted /\ usable

----------------------------------------------------------------------------
(* What a step does to the generations, the pointers and the requests.  A   *)
(* change is a record of what is bumped; `asks` are the requests it sends.  *)

NoChange == [acc |-> FALSE, lease |-> FALSE, log |-> FALSE]

Everything == [acc |-> TRUE, lease |-> TRUE, log |-> TRUE]

(* A login that is over is compared by identity: as good as a bump.         *)
LoginGone == [NoChange EXCEPT !.log = TRUE]

(* accountGeneration += 1 comes with statusRequest = null, clearLease()     *)
(* with credentialRequest = null.                                           *)
Aged(r, bump) ==
  [r EXCEPT !.acc = @ /\ ~(bump.acc /\ r.kind \notin {"login", "poll"}),
            !.lease = @ /\ ~(bump.lease /\ r.kind = "credentials"),
            !.log = @ /\ ~(bump.log /\ r.kind \in {"login", "poll", "confirm"}),
            !.mine = @ /\ ~(bump.acc /\ r.kind = "status")
                       /\ ~(bump.lease /\ r.kind = "credentials")]

PointersAfter(bump) ==
  mtPointers \ ((IF bump.acc THEN {"status"} ELSE {})
                  \union (IF bump.lease THEN {"credentials"} ELSE {}))

NeverSettled(done) == {}                 \* slip: no `finally`
Settled(done) == {r.kind : r \in {q \in done : q.mine}}

(* The requests and answers of a step in which `done` returns.              *)
Requests(bump, done, asks) ==
  LET free == PointersAfter(bump) \ Settled(done)
      new == {k \in asks : k \notin free} IN
  /\ mtPointers' = free \union (new \intersect {"status", "credentials"})
  /\ mtRequests' = {Aged(r, bump) : r \in mtRequests \ done}
                     \union {Asked(k) : k \in new}
  /\ mtAnswers' = {[a EXCEPT !.request = Aged(@, bump)] :
                      a \in {b \in mtAnswers : b.request \notin done}}

Lose(bump) ==                            \* clearLease()
  IF bump.lease THEN mtLease' = "none" /\ mtRenew' = FALSE /\ mtGood' = TRUE
                ELSE UNCHANGED <<mtLease, mtRenew, mtGood>>

----------------------------------------------------------------------------
(* What the user and the application do.                                    *)

Calm == Cardinality(mtRequests) + Cardinality(mtAnswers) < MaxOut
Acts == Calm /\ mtActs < MaxActs /\ mtActs' = mtActs + 1

(* setIdentity and setEnabled: reset(), and a status request if they leave  *)
(* the relay enabled.                                                       *)
Switch(active) ==
  /\ Acts
  /\ active \/ mtActive
  /\ mtActive' = active
  /\ mtUsable' = FALSE /\ mtLogin' = "none" /\ mtPoll' = FALSE
  /\ mtLease' = "none" /\ mtRenew' = FALSE /\ mtGood' = TRUE
  /\ mtPointers' = IF active THEN {"status"} ELSE {}
  /\ mtRequests' = IF active THEN {Asked("status")} ELSE {}
  /\ mtAnswers' = {}
  /\ mtLinked' \in (IF active THEN BOOLEAN ELSE {mtLinked})
  /\ UNCHANGED <<mtWanted, mtFails>>

SetPreference ==
  /\ Acts
  /\ mtWanted' = ~mtWanted
  /\ LET bump == [NoChange EXCEPT !.lease = mtWanted] IN
     /\ Lose(bump)
     /\ Requests(bump, {}, IF ~mtWanted /\ mtActive /\ mtUsable
                             THEN {"credentials"} ELSE {})
  /\ UNCHANGED <<mtActive, mtUsable, mtLogin, mtPoll, mtLinked, mtFails>>

Unlinking == \/ \E r \in mtRequests : r.kind = "unlink"
             \/ \E a \in mtAnswers : a.request.kind = "unlink"

LoginStarts ==
  /\ mtActive /\ Acts
  /\ ~Unlinking
  /\ mtLogin' = "none" /\ mtPoll' = FALSE
  /\ Requests(LoginGone, {}, {"login"})
  /\ UNCHANGED <<mtActive, mtWanted, mtUsable, mtLease, mtRenew, mtLinked,
                 mtGood, mtFails>>

CancelLogin ==
  /\ mtLogin # "none"
  /\ mtLogin' = "none" /\ mtPoll' = FALSE
  /\ Requests(LoginGone, {}, {})
  /\ UNCHANGED <<mtActive, mtWanted, mtUsable, mtLease, mtRenew, mtLinked,
                 mtGood, boundVars>>

ConfirmLogin ==
  /\ mtActive /\ mtLogin = "ready" /\ Acts
  /\ Requests([NoChange EXCEPT !.acc = TRUE], {}, {"confirm"})
  /\ UNCHANGED <<mtActive, mtWanted, mtUsable, mtLogin, mtPoll, mtLease,
                 mtRenew, mtLinked, mtGood, mtFails>>

(* Bound: the settings have one unlink under way at a time.                 *)
UnlinkStarts ==
  /\ mtActive /\ ~Unlinking /\ Acts
  /\ mtUsable' = FALSE /\ mtLogin' = "none" /\ mtPoll' = FALSE
  /\ Lose(Everything) /\ Requests(Everything, {}, {"unlink"})
  /\ UNCHANGED <<mtActive, mtWanted, mtLinked, mtFails>>

(* The window is shown, focused or online again.  A lease that ran out      *)
(* while timers slept is dropped.                                           *)
Resume ==
  /\ mtActive /\ Calm
  /\ LET bump == [NoChange EXCEPT !.lease = (mtLease = "over")] IN
     /\ Lose(bump)
     /\ mtPoll' = (mtPoll /\ mtLogin # "open")
     /\ Requests(bump, {}, {"status"} \union
                           (IF mtLogin = "open" THEN {"poll"} ELSE {}))
  /\ UNCHANGED <<mtActive, mtWanted, mtUsable, mtLogin, mtLinked, boundVars>>

----------------------------------------------------------------------------
(* Timers.                                                                  *)

PollTimer ==
  /\ mtPoll /\ Calm
  /\ mtPoll' = FALSE
  /\ \/ /\ Requests(NoChange, {}, IF mtLogin = "open" THEN {"poll"} ELSE {})
        /\ UNCHANGED mtLogin
     \/ /\ mtLogin' = "none"                              \* it has expired
        /\ Requests(LoginGone, {}, {})
  /\ UNCHANGED <<mtActive, mtWanted, mtUsable, mtLease, mtRenew, mtLinked,
                 mtGood, boundVars>>

RenewTimer ==
  /\ mtRenew
  /\ mtRenew' = FALSE
  /\ Requests(NoChange, {}, IF UsableWith(mtUsable)
                              THEN {"credentials"} ELSE {})
  /\ UNCHANGED <<mtActive, mtWanted, mtUsable, mtLogin, mtPoll, mtLease,
                 mtLinked, mtGood, boundVars>>

LeaseRunsOut ==
  /\ mtLease = "live"
  /\ mtLease' = "over"
  /\ UNCHANGED <<mtActive, mtWanted, mtUsable, mtLogin, mtPoll, mtRenew,
                 mtPointers, mtRequests, mtAnswers, mtLinked, mtGood,
                 boundVars>>

ExpiryTimer ==
  /\ mtLease = "over"
  /\ mtLease' = "none" /\ mtGood' = TRUE
  /\ UNCHANGED <<mtActive, mtWanted, mtUsable, mtLogin, mtPoll, mtRenew,
                 mtPointers, mtRequests, mtAnswers, mtLinked, boundVars>>

----------------------------------------------------------------------------
(* The broker handles a request; bound: never one that was aborted.  What   *)
(* it says of a login depends on nothing here: LoginAnswered, PollAnswered. *)

BrokerHandles(r) ==
  /\ r.kind \notin {"login", "poll"}
  /\ mtRequests' = mtRequests \ {r}
  /\ mtLinked' \in CASE r.kind = "confirm" -> {TRUE, mtLinked}
                     [] r.kind = "unlink"  -> {FALSE, mtLinked}
                     [] OTHER -> {mtLinked}
  /\ mtAnswers' =
       {[a EXCEPT !.good = @ /\ r.kind # "unlink"] : a \in mtAnswers}
         \union {[request |-> r, good |-> TRUE, ok |-> mtLinked']}
  /\ mtGood' = (mtGood /\ (r.kind # "unlink" \/ mtLease = "none"))
  /\ UNCHANGED <<mtActive, mtWanted, mtUsable, mtLogin, mtPoll, mtLease,
                 mtRenew, mtPointers, boundVars>>

----------------------------------------------------------------------------
(* Answers.                                                                 *)

(* acceptStatus: what cannot be used is dropped, what can is leased.        *)
Accepts(r, usable, bump) ==
  LET change == [bump EXCEPT !.lease = @ \/ ~UsableWith(usable)] IN
  /\ mtUsable' = usable
  /\ Lose(change)
  /\ Requests(change, {r}, IF UsableWith(usable) THEN {"credentials"}
                                                 ELSE {})

Ignores(r) ==
  /\ Requests(NoChange, {r}, {})
  /\ UNCHANGED <<mtUsable, mtLease, mtRenew, mtGood>>

StatusAnswered(a) ==
  /\ a.request.kind = "status"
  /\ IF a.request.acc
       THEN Accepts(a.request, a.ok, NoChange) ELSE Ignores(a.request)
  /\ UNCHANGED <<mtActive, mtWanted, mtLogin, mtPoll, mtLinked, boundVars>>

LeaseCounts(r) == r.acc /\ r.lease /\ UsableWith(mtUsable)

CredentialsAnswered(a) ==
  /\ a.request.kind = "credentials" /\ a.ok
  /\ IF LeaseCounts(a.request)
       THEN /\ mtLease' = "live" /\ mtRenew' = TRUE /\ mtGood' = a.good
            /\ Requests(NoChange, {a.request}, {})
            /\ UNCHANGED mtUsable
       ELSE Ignores(a.request)
  /\ UNCHANGED <<mtActive, mtWanted, mtLogin, mtPoll, mtLinked, boundVars>>

ConfirmAnswered(a) ==
  LET r == a.request IN
  /\ r.kind = "confirm" /\ a.ok
  /\ IF r.log /\ r.acc
       THEN /\ mtLogin' = "none" /\ mtPoll' = FALSE
            /\ Accepts(r, a.ok, Everything)
       ELSE Ignores(r) /\ UNCHANGED <<mtLogin, mtPoll>>
  /\ UNCHANGED <<mtActive, mtWanted, mtLinked, boundVars>>

Unlinked(a) ==
  Accepts(a.request, a.ok, [NoChange EXCEPT !.acc = TRUE, !.lease = TRUE])

UnlinkAnswered(a) ==
  /\ a.request.kind = "unlink"
  /\ IF a.request.acc THEN Unlinked(a) ELSE Ignores(a.request)
  /\ UNCHANGED <<mtActive, mtWanted, mtLogin, mtPoll, mtLinked, boundVars>>

LoginAnswered(r) ==
  /\ r.kind = "login"
  /\ mtLogin' = IF r.log THEN "open" ELSE mtLogin
  /\ mtPoll' = (r.log \/ mtPoll)
  /\ Ignores(r)
  /\ UNCHANGED <<mtActive, mtWanted, mtLinked, boundVars>>

PollAnswered(r) ==
  /\ r.kind = "poll"
  /\ \/ /\ ~r.log
        /\ Ignores(r) /\ UNCHANGED <<mtLogin, mtPoll>>
     \/ /\ r.log                                         \* ready
        /\ mtLogin' = "ready" /\ Ignores(r) /\ UNCHANGED mtPoll
     \/ /\ r.log                                       \* pending
        /\ mtPoll' = TRUE /\ Ignores(r) /\ UNCHANGED mtLogin
     \/ /\ r.log                             \* failed or expired
        /\ mtLogin' = "none"
        /\ Requests(LoginGone, {r}, {})
        /\ UNCHANGED <<mtPoll, mtUsable, mtLease, mtRenew, mtGood>>
  /\ UNCHANGED <<mtActive, mtWanted, mtLinked, boundVars>>

(* Errors and timeouts.  "unauthorized" and "disabled" also drop the lease. *)
StatusFails(r, refused) ==
  /\ r.kind = "status"
  /\ LET bump == [NoChange EXCEPT !.lease = r.acc /\ refused] IN
     Lose(bump) /\ Requests(bump, {r}, {})
  /\ UNCHANGED <<mtUsable, mtPoll>>

CredentialsFail(r, refused) ==
  LET counts == r.acc /\ r.lease
      bump == [NoChange EXCEPT !.lease = counts /\ refused] IN
  /\ r.kind = "credentials"
  /\ Requests(bump, {r}, {})
  /\ mtLease' = IF bump.lease THEN "none" ELSE mtLease
  /\ mtGood' = (bump.lease \/ mtGood)
  /\ mtRenew' = ((counts /\ UsableWith(mtUsable)) \/ (mtRenew /\ ~bump.lease))
  /\ UNCHANGED <<mtUsable, mtPoll>>

(* A failed confirmation or unlink leaves it open what the broker did: the  *)
(* relay is not used until a status says that it may be.                    *)
AccountFails(r) ==
  LET counts == r.acc /\ (r.kind = "confirm" => r.log)
      bump == [NoChange EXCEPT !.acc = counts, !.lease = counts] IN
  /\ r.kind \in {"confirm", "unlink"}
  /\ mtUsable' = (mtUsable /\ ~counts)
  /\ Lose(bump) /\ Requests(bump, {r}, {})
  /\ UNCHANGED mtPoll

LoginFails(r, refused) ==
  /\ r.kind \in {"login", "poll"}
  /\ mtPoll' = (mtPoll \/ (r.kind = "poll" /\ r.log))
  /\ LET bump == [NoChange EXCEPT !.lease = r.log /\ refused] IN
     Lose(bump) /\ Requests(bump, {r}, {})
  /\ UNCHANGED mtUsable

Failed(r, refused) ==
  /\ \/ StatusFails(r, refused) \/ CredentialsFail(r, refused)
     \/ AccountFails(r) \/ LoginFails(r, refused)
  /\ UNCHANGED <<mtActive, mtWanted, mtLogin, mtLinked, mtActs>>

(* The broker refuses credentials of an account that is not approved.       *)
CredentialsRefused(a) ==
  /\ a.request.kind = "credentials" /\ ~a.ok
  /\ Failed(a.request, TRUE) /\ UNCHANGED mtFails

ConfirmRefused(a) ==
  /\ a.request.kind = "confirm" /\ ~a.ok
  /\ Failed(a.request, TRUE) /\ UNCHANGED mtFails

(* A request fails on its way, or its answer is lost or comes too late.     *)
Fails(r, refused) ==
  /\ r \in mtRequests \union {a.request : a \in mtAnswers}
  /\ mtFails < MaxFails /\ mtFails' = mtFails + 1
  /\ Failed(r, refused)

----------------------------------------------------------------------------
Answered(a) ==
  \/ StatusAnswered(a) \/ CredentialsAnswered(a) \/ ConfirmAnswered(a)
  \/ UnlinkAnswered(a)
  \/ CredentialsRefused(a) \/ ConfirmRefused(a)

TurnNext ==
  \/ \E active \in BOOLEAN : Switch(active)
  \/ SetPreference \/ LoginStarts \/ CancelLogin \/ ConfirmLogin \/ UnlinkStarts
  \/ Resume \/ PollTimer \/ RenewTimer \/ LeaseRunsOut \/ ExpiryTimer
  \/ \E r \in mtRequests :
       BrokerHandles(r) \/ LoginAnswered(r) \/ PollAnswered(r)
  \/ \E a \in mtAnswers : Answered(a)
  \/ \E r \in mtRequests \union {a.request : a \in mtAnswers},
        refused \in BOOLEAN : Fails(r, refused)

(* Requests are handled and answered, and the window is shown again.        *)
TurnFairness ==
  /\ \A kind \in {"status", "credentials", "login", "poll", "confirm",
                  "unlink"} :
       /\ WF_mtVars(\E r \in mtRequests :
                     /\ r.kind = kind
                     /\ BrokerHandles(r) \/ LoginAnswered(r) \/ PollAnswered(r))
       /\ WF_mtVars(\E a \in mtAnswers : a.request.kind = kind /\ Answered(a))
  /\ WF_mtVars(Resume) /\ WF_mtVars(RenewTimer)

TurnSpec == TurnInit /\ [][TurnNext]_mtVars /\ TurnFairness

----------------------------------------------------------------------------
TurnTypeOK ==
  /\ mtLogin \in {"none", "open", "ready"}
  /\ mtLease \in {"none", "live", "over"}
  /\ mtPointers \subseteq {"status", "credentials"}
  /\ \A r \in mtRequests \union {a.request : a \in mtAnswers} :
       r.mine => r.kind \in mtPointers

(* getIceServers: once no unlink is under way, the lease a new connection   *)
(* would use was issued after the latest unlink, whatever status, renewal   *)
(* or login was out while it happened.                                      *)
LeaseIsHonoured ==
  mtLease # "none" /\ ~Unlinking => mtGood

(* While the relay is enabled and the account stays approved, a client      *)
(* without a lease gets one again and again, whatever failed before: no     *)
(* request that was dropped or superseded blocks the next one.  And no      *)
(* lease is ever used that is not honoured.                                 *)
LeaseComesBack ==
  /\ []LeaseIsHonoured
  /\ <>[](mtActive /\ mtWanted /\ mtLinked) => []<>(mtLease = "live")
=============================================================================
