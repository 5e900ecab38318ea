----------------------------- MODULE TurnBroker -----------------------------
(***************************************************************************)
(* The relay broker (services/turn-broker/worker.ts) as one identity sees   *)
(* it: accounts are linked through a login in the browser, a linked and     *)
(* approved account entitles to relay credentials that a provider mints,    *)
(* and unlinking condemns every credential of the identity.                 *)
(*                                                                          *)
(* The tables of the durable object survive a restart; activeIssuances and  *)
(* the requests under way do not.  JavaScript runs one handler at a time    *)
(* between two awaits, so a step ends where the code waits for the          *)
(* provider.  The alarm set with a write commits with that write.           *)
(***************************************************************************)
EXTENDS Naturals, FiniteSets

CONSTANTS
  Accounts,     \* accounts, each at a login provider of its own
  Elsewhere,    \* those linked to another identity
  Handlers,     \* requests for credentials under way together
  MaxCreds,     \* bound: credentials minted
  MaxLogins,    \* bound: logins started
  MaxRestarts   \* bound: restarts of the durable object

ASSUME BrokerAssumption ==
  /\ Elsewhere \subseteq Accounts /\ "none" \notin Handlers
  /\ MaxCreds \in Nat /\ MaxLogins \in Nat /\ MaxRestarts \in Nat

VARIABLES
  brLinks,      \* links: accounts of this identity
  brLogin,      \* logins: its latest one, [id, state, account]; id 0: none
  brLogins,     \* number of logins so far
  brExchanges,  \* logins whose OAuth callback is talking to the provider
  brApproved,   \* APPROVED_ACCOUNTS
  brOpen,       \* TURN_ENABLED and what goes with it
  brNumber,     \* number of credentials asked for so far
  brIssued,     \* issued: credentials the broker has seen minted
  brCached,     \* credentials: the one that is handed out again, or 0
  brDoomed,     \* revocations: credentials still to be revoked
  brAlive,      \* credentials the relays accept
  brReserved,   \* rates[issuance]: an issuance is under way
  brToken,      \* activeIssuances: the handler it belongs to, or "none"
  brHandler,    \* [Handlers -> [pc, cred]]
  brCalls,      \* calls that revoke a credential: [by, cred]
  brAlarm,      \* the alarm: "off", "set" or "ringing"
  brUnlinking,  \* an unlink waits for its revocations
  brRestarts,
  brGiven,      \* history: credentials handed to the client
  brCondemned,  \* history: credentials asked for before the latest unlink
  brRefused     \* history: logins started before the latest unlink

loginVars == <<brLogin, brLogins, brExchanges>>
credVars == <<brNumber, brIssued, brCached, brDoomed, brAlive, brGiven>>
workVars == <<brReserved, brToken, brHandler>>
revokeVars == <<brCalls, brAlarm, brUnlinking>>
operatorVars == <<brApproved, brOpen, brRestarts>>
brVars == <<brLinks, loginVars, credVars, workVars, revokeVars, operatorVars,
            brCondemned, brRefused>>

NoLogin == [id |-> 0, state |-> "none", account |-> "none"]
Resting == [pc |-> "idle", cred |-> 0]

BrokerInit ==
  /\ brLinks = {} /\ brLogin = NoLogin /\ brLogins = 0 /\ brExchanges = {}
  /\ brApproved \in SUBSET (Accounts \ Elsewhere) /\ brOpen = TRUE
  /\ brNumber = 0 /\ brIssued = {} /\ brCached = 0 /\ brDoomed = {}
  /\ brAlive = {} /\ brGiven = {}
  /\ brReserved = FALSE /\ brToken = "none"
  /\ brHandler = [h \in Handlers |-> Resting]
  /\ brCalls = {} /\ brAlarm = "off" /\ brUnlinking = FALSE
  /\ brRestarts = 0 /\ brCondemned = {} /\ brRefused = {}

(* status: a linked account is approved, and nothing is left to revoke.     *)
Entitled == /\ brOpen
            /\ brLinks \intersect brApproved # {}
            /\ brDoomed = {}

(* Rows of credentials that expired are cleaned at every request and alarm. *)
Current(rows) == rows \intersect brAlive

----------------------------------------------------------------------------
(* Logging in and linking an account.                                       *)

StartLogin ==
  /\ brLogins < MaxLogins
  /\ brLogins' = brLogins + 1
  /\ brLogin' = [id |-> brLogins + 1, state |-> "pending", account |-> "none"]
  /\ UNCHANGED <<brLinks, brExchanges, credVars, workVars, revokeVars,
                 operatorVars, brCondemned, brRefused>>

(* oauthStart and the first half of oauthCallback, in the user's browser.   *)
CallbackBegins ==
  /\ brLogin.state = "pending"
  /\ brLogin' = [brLogin EXCEPT !.state = "exchanging"]
  /\ brExchanges' = brExchanges \union {brLogin.id}
  /\ UNCHANGED <<brLinks, brLogins, credVars, workVars, revokeVars,
                 operatorVars, brCondemned, brRefused>>

(* The provider names the account, or not; the login may be gone by then.   *)
CallbackEnds(id) ==
  /\ id \in brExchanges
  /\ brExchanges' = brExchanges \ {id}
  /\ \/ \E a \in Accounts :
          brLogin' = IF brLogin.id = id /\ brLogin.state = "exchanging"
                       THEN [id |-> id, state |-> "ready", account |-> a]
                       ELSE brLogin
     \/ brLogin' = IF brLogin.id = id
                     THEN [brLogin EXCEPT !.state = "failed"] ELSE brLogin
  /\ UNCHANGED <<brLinks, brLogins, credVars, workVars, revokeVars,
                 operatorVars, brCondemned, brRefused>>

LoginExpires ==
  /\ brLogin # NoLogin
  /\ brLogin' = NoLogin
  /\ UNCHANGED <<brLinks, brLogins, brExchanges, credVars, workVars,
                 revokeVars, operatorVars, brCondemned, brRefused>>

Confirm ==
  /\ brLogin.state = "ready"
  /\ brLogin.account \notin Elsewhere
  /\ brLinks' = brLinks \union {brLogin.account}
  /\ brLogin' = NoLogin
  /\ brToken' = "none"
  /\ UNCHANGED <<brLogins, brExchanges, credVars, brReserved, brHandler,
                 revokeVars, operatorVars, brCondemned, brRefused>>

----------------------------------------------------------------------------
(* Revoking.                                                                *)

Doom(rows) ==
  /\ brDoomed' = Current(brDoomed) \union rows
  /\ brCached' = 0
  /\ brIssued' = {}

(* queueRevocations(): whatever was issued is to be revoked.                *)
QueueRevocations == Doom(Current(brIssued))

(* drainRevocations(): one call for every row, on behalf of `by`.           *)
CallsFor(by, rows) == {[by |-> by, cred |-> c] : c \in rows}

UnlinkKeepsLogin == /\ brLogin' = brLogin       \* slip: logins survive
                    /\ brToken' = "none"

(* unlink(): no login and no issuance of before may count afterwards.       *)
Forget == /\ brLogin' = NoLogin
          /\ brToken' = "none"

Unlink(a) ==
  /\ a \in brLinks /\ ~brUnlinking
  /\ brLinks' = brLinks \ {a}
  /\ Forget
  /\ QueueRevocations
  /\ brAlarm' = IF brAlarm = "off" THEN "set" ELSE brAlarm
  /\ brCalls' = brCalls \union CallsFor("unlink", brDoomed')
  /\ brUnlinking' = TRUE
  /\ brCondemned' = 1..brNumber
  /\ brRefused' = 1..brLogins
  /\ UNCHANGED <<brLogins, brExchanges, brNumber, brAlive, brGiven,
                 brReserved, brHandler, operatorVars>>

UnlinkEnds ==
  /\ brUnlinking
  /\ ~\E call \in brCalls : call.by = "unlink"
  /\ brUnlinking' = FALSE
  /\ UNCHANGED <<brLinks, loginVars, credVars, workVars, brCalls, brAlarm,
                 operatorVars, brCondemned, brRefused>>

(* The provider answers a call, refuses it or times out.                    *)
Revoked(call) ==
  /\ brCalls' = brCalls \ {call}
  /\ \/ brDoomed' = brDoomed \ {call.cred} /\ brAlive' = brAlive \ {call.cred}
     \/ UNCHANGED <<brDoomed, brAlive>>
  /\ UNCHANGED <<brLinks, loginVars, brNumber, brIssued, brCached, brGiven,
                 workVars, brAlarm, brUnlinking, operatorVars, brCondemned,
                 brRefused>>

AlarmRings ==
  /\ brAlarm = "set"
  /\ brAlarm' = "ringing"
  /\ brDoomed' = Current(brDoomed)
  /\ brIssued' = Current(brIssued)
  /\ brCached' = IF brCached \in brAlive THEN brCached ELSE 0
  /\ brCalls' = brCalls \union CallsFor("alarm", brDoomed')
  /\ UNCHANGED <<brLinks, loginVars, brNumber, brAlive, brGiven, workVars,
                 brUnlinking, operatorVars, brCondemned, brRefused>>

AgainIfLeft == IF brDoomed # {} THEN "set" ELSE "off"

AlarmEnds ==
  /\ brAlarm = "ringing"
  /\ ~\E call \in brCalls : call.by = "alarm"
  /\ brAlarm' = AgainIfLeft
  /\ UNCHANGED <<brLinks, loginVars, credVars, workVars, brCalls,
                 brUnlinking, operatorVars, brCondemned, brRefused>>

----------------------------------------------------------------------------
(* Asking for credentials.                                                  *)

(* credentials() up to its first await: the reservation is durable before   *)
(* the provider is asked.  A cached credential that is good for another ten *)
(* minutes is handed out again, which changes nothing.                      *)
Credentials(h) ==
  /\ brHandler[h] = Resting
  /\ Entitled
  /\ ~brReserved
  /\ brNumber < MaxCreds
  /\ brNumber' = brNumber + 1
  /\ brReserved' = TRUE
  /\ brToken' = h
  /\ brHandler' = [brHandler EXCEPT
                     ![h] = [pc |-> "minting", cred |-> brNumber + 1]]
  /\ UNCHANGED <<brLinks, loginVars, brIssued, brCached, brDoomed, brAlive,
                 brGiven, revokeVars, operatorVars, brCondemned, brRefused>>

(* The `finally` of credentials().                                          *)
Finish(h) ==
  /\ brHandler' = [brHandler EXCEPT ![h] = Resting]
  /\ brToken' = IF brToken = h THEN "none" ELSE brToken
  /\ brReserved' = FALSE

MintFails(h) ==
  /\ brHandler[h].pc = "minting"
  /\ Finish(h)
  /\ UNCHANGED <<brLinks, loginVars, credVars, revokeVars, operatorVars,
                 brCondemned, brRefused>>

EntitledIsEnough(h) == Entitled         \* slip: token not compared
StillValid(h) == brToken = h /\ Entitled

(* The provider has minted: the credential is recorded, and handed out only *)
(* if nothing was unlinked, linked or closed since it was asked for.        *)
Minted(h) ==
  LET c == brHandler[h].cred IN
  /\ brHandler[h].pc = "minting"
  /\ brAlive' = brAlive \union {c}
  /\ StillValid(h)
  /\ brIssued' = brIssued \union {c}
  /\ brCached' = c
  /\ brGiven' = brGiven \union {c}
  /\ Finish(h)
  /\ UNCHANGED <<brLinks, loginVars, brNumber, brDoomed, revokeVars,
                 operatorVars, brCondemned, brRefused>>

MintedInVain(h) ==
  LET c == brHandler[h].cred IN
  /\ brHandler[h].pc = "minting"
  /\ ~StillValid(h)
  /\ brAlive' = brAlive \union {c}
  /\ Doom(Current(brIssued) \union {c})
  /\ brAlarm' = IF brAlarm = "off" THEN "set" ELSE brAlarm
  /\ brCalls' = brCalls \union CallsFor(h, brDoomed')
  /\ brHandler' = [brHandler EXCEPT ![h].pc = "revoking"]
  /\ UNCHANGED <<brLinks, loginVars, brNumber, brGiven, brReserved, brToken,
                 brUnlinking, operatorVars, brCondemned, brRefused>>

GivesUpRevoking(h) ==
  /\ brHandler[h].pc = "revoking"
  /\ ~\E call \in brCalls : call.by = h
  /\ Finish(h)
  /\ UNCHANGED <<brLinks, loginVars, credVars, revokeVars, operatorVars,
                 brCondemned, brRefused>>

(* The reservation outlasts every request: 30 s against twice 10 s.  It     *)
(* runs out on its own only after a restart.                                *)
ReservationExpires ==
  /\ brReserved
  /\ \A h \in Handlers : brHandler[h] = Resting
  /\ brReserved' = FALSE
  /\ UNCHANGED <<brLinks, loginVars, credVars, brToken, brHandler,
                 revokeVars, operatorVars, brCondemned, brRefused>>

CredentialExpires(c) ==
  /\ brAlive' = brAlive \ {c}
  /\ UNCHANGED <<brLinks, loginVars, brNumber, brIssued, brCached, brDoomed,
                 brGiven, workVars, revokeVars, operatorVars, brCondemned,
                 brRefused>>

(* A deployment or an eviction: what was in memory is gone, an interrupted  *)
(* alarm is delivered again, and the operator may have changed the          *)
(* approvals or closed the relay.                                           *)
Restart ==
  /\ brRestarts < MaxRestarts
  /\ brRestarts' = brRestarts + 1
  /\ brToken' = "none"
  /\ brHandler' = [h \in Handlers |-> Resting]
  /\ brExchanges' = {}
  /\ brCalls' = {}
  /\ brUnlinking' = FALSE
  /\ brAlarm' = IF brAlarm = "ringing" THEN "set" ELSE brAlarm
  /\ brApproved' \in SUBSET (Accounts \ Elsewhere)
  /\ brOpen' \in BOOLEAN
  /\ UNCHANGED <<brLinks, brLogin, brLogins, credVars, brReserved,
                 brCondemned, brRefused>>

----------------------------------------------------------------------------
BrokerNext ==
  \/ StartLogin \/ CallbackBegins \/ LoginExpires \/ Confirm
  \/ \E id \in brExchanges : CallbackEnds(id)
  \/ \E a \in Accounts : Unlink(a)
  \/ UnlinkEnds \/ AlarmRings \/ AlarmEnds
  \/ \E call \in brCalls : Revoked(call)
  \/ \E h \in Handlers : \/ Credentials(h) \/ MintFails(h) \/ Minted(h)
                         \/ MintedInVain(h) \/ GivesUpRevoking(h)
  \/ ReservationExpires \/ Restart
  \/ \E c \in brAlive : CredentialExpires(c)

(* Alarms ring and end, calls return, and credentials live for an hour.     *)
BrokerFairness ==
  /\ WF_brVars(AlarmRings) /\ WF_brVars(AlarmEnds)
  /\ WF_brVars(\E call \in brCalls : Revoked(call))
  /\ WF_brVars(\E c \in brAlive : CredentialExpires(c))

BrokerSpec == BrokerInit /\ [][BrokerNext]_brVars /\ BrokerFairness

----------------------------------------------------------------------------
(* A credential asked for before the latest unlink is never the one that is *)
(* handed out, even if an account was linked again before the provider      *)
(* answered; and one the client already holds is queued until it is dead.   *)
UnlinkCondemns ==
  /\ brCached \notin brCondemned
  /\ brGiven \intersect brCondemned \intersect brAlive \subseteq brDoomed

(* Nothing new is handed out while a credential of before an unlink still   *)
(* works, and only a login started after the unlink links an account again. *)
UnlinkIsSettledFirst ==
  [][/\ brGiven' # brGiven =>
          brGiven \intersect brCondemned \intersect brAlive = {}
     /\ \A a \in brLinks' \ brLinks : brLogin.id \notin brRefused]_brVars

(* A revocation that fails is tried again until it succeeds or the          *)
(* credential has expired: the queue does not stay filled for ever.         *)
RevocationsDrain == brDoomed # {} ~> brDoomed = {}

(* An unlink is carried out: nothing is handed out before, and what it      *)
(* condemned is revoked in the end.                                         *)
RevocationsAreDone == UnlinkIsSettledFirst /\ RevocationsDrain
=============================================================================
