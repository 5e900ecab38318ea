-------------------------- MODULE MCGuestAdmission -------------------------
(* Three parts of a guest's device side by side: its admission, the log of  *)
(* its session and the friend it watches.  One part runs, the others stand  *)
(* still.  The guest may meet two others; rosters list any of the three,    *)
(* and the host may leave and come back.                                    *)
EXTENDS GuestAdmission, AuditTrail, Presence, TLC

CONSTANTS me, x, y

VARIABLE part

allVars == <<part, vars, adVars, prVars>>

MCGuests == {me, x, y}
MCSymmetry == Permutations({x, y})

Alone(p, A) ==
  /\ part = p /\ A
  /\ UNCHANGED part
  /\ p # "admission" => UNCHANGED vars
  /\ p # "log" => UNCHANGED adVars
  /\ p # "friends" => UNCHANGED prVars

(* A part that stands still has one initial state.                          *)
MCInit ==
  /\ part \in {"admission", "log", "friends"}
  /\ Init /\ AuditInit /\ PresenceInit
  /\ part = "friends" \/ (prUp /\ prLegs = {"relay"})

MCNext ==
  \/ Alone("admission", Next) \/ Alone("log", AuditNext)
  \/ Alone("friends", PresenceNext)

MCSpec == MCInit /\ [][MCNext]_allVars
=============================================================================
