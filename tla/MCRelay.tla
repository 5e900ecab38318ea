------------------------------ MODULE MCRelay -------------------------------
(* The managed relay from both ends, side by side: the broker with two      *)
(* requests for credentials and two accounts, one of them somebody          *)
(* else's, and its client.  One part runs, the other stands still.          *)
EXTENDS TurnBroker, ManagedTurn

VARIABLE part

allVars == <<part, brVars, mtVars>>

Alone(p, A) ==
  /\ part = p /\ A
  /\ UNCHANGED part
  /\ p # "broker" => UNCHANGED brVars
  /\ p # "relay" => UNCHANGED mtVars

(* A part that stands still has one initial state.                          *)
MCInit ==
  /\ part \in {"broker", "relay"}
  /\ BrokerInit /\ TurnInit
  /\ part = "broker" \/ brApproved = {}
  /\ part = "relay" \/ ~mtLinked

MCNext == Alone("broker", BrokerNext) \/ Alone("relay", TurnNext)

(* The fairness of each part, when it is the one that runs.                 *)
RevocationFairness ==
  /\ WF_brVars(part = "broker" /\ AlarmRings) /\ WF_brVars(part = "broker" /\ AlarmEnds)
  /\ WF_brVars(part = "broker" /\ \E call \in brCalls : Revoked(call))
  /\ WF_brVars(part = "broker" /\ \E c \in brAlive : CredentialExpires(c))

RelayFairness ==
  /\ \A kind \in {"status", "credentials", "login", "poll", "confirm", "unlink"} :
       /\ WF_mtVars(part = "relay" /\ \E r \in mtRequests :
                      /\ r.kind = kind
                      /\ BrokerHandles(r) \/ LoginAnswered(r) \/ PollAnswered(r))
       /\ WF_mtVars(part = "relay" /\
                      \E a \in mtAnswers : a.request.kind = kind /\ Answered(a))
  /\ WF_mtVars(part = "relay" /\ Resume) /\ WF_mtVars(part = "relay" /\ RenewTimer)

MCSpec ==
  MCInit /\ [][MCNext]_allVars /\ RevocationFairness /\ RelayFairness
=============================================================================
