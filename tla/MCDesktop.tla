----------------------------- MODULE MCDesktop ------------------------------
(* Two parts of a host's desktop side by side: its session with three       *)
(* transports (see MCHostStore), and the companion it starts for a browser. *)
(* One part runs, the other stands still.                                   *)
EXTENDS MCHostStore, Mirror

VARIABLE part

allVars == <<part, vars, mirrorVars>>

Alone(p, A) ==
  /\ part = p /\ A
  /\ UNCHANGED part
  /\ p # "session" => UNCHANGED vars
  /\ p # "companion" => UNCHANGED mirrorVars

MCInit == part \in {"session", "companion"} /\ StoreInit /\ MirrorInit

MCNext == Alone("session", Next) \/ Alone("companion", MirrorNext)

(* The page runs its callbacks, the server sees its sockets end, and the    *)
(* document its timers and frames.                                          *)
CompanionFairness ==
  /\ WF_mirrorVars(part = "companion" /\ PageHears)
  /\ WF_mirrorVars(part = "companion" /\ Renders)
  /\ WF_mirrorVars(part = "companion" /\ ConnectionEnds)
  /\ WF_mirrorVars(part = "companion" /\ Reconnects)

MCSpec == MCInit /\ [][MCNext]_allVars /\ CompanionFairness
=============================================================================
