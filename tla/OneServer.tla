----------------------------- MODULE OneServer -----------------------------
(***************************************************************************)
(* What the inference sidecar promises: at most one engine process serves  *)
(* at a time, and it serves by permission.  A start gives a permission,    *)
(* every stop (also a removal, a download, an installation or the exit of  *)
(* the application) takes all of them back, and a process that crashed is  *)
(* replaced by one that serves the same models unless it was stopped.      *)
(***************************************************************************)
CONSTANTS Starts, Models, None

VARIABLES
  up,        \* the models served by the process that runs, or None
  standing,  \* what may be respawned without being asked for, or None
  permits,   \* starts that may still bring up a process
  closed     \* the application is exiting

oneVars == <<up, standing, permits, closed>>

Init == up = None /\ standing = None /\ permits = {} /\ closed = FALSE

Ask(c) ==
  /\ ~closed
  /\ permits' = permits \union {c}
  /\ UNCHANGED <<up, standing, closed>>

Serve(c, ids) ==
  /\ c \in permits /\ up = None
  /\ up' = ids /\ standing' = ids
  /\ permits' = permits \ {c}
  /\ UNCHANGED closed

(* A start that fails, or that reuses the process that runs; a failed      *)
(* spawn also ends the watch over the process before it.                   *)
Forgo(c) ==
  /\ permits' = permits \ {c}
  /\ standing' \in IF up = None THEN {standing, None} ELSE {standing}
  /\ UNCHANGED <<up, closed>>

(* A start that finds a crashed process supersedes it, and the starts      *)
(* before it.                                                              *)
Supersede(c) ==
  /\ c \in permits /\ up = None
  /\ standing' = None /\ permits' = {c}
  /\ UNCHANGED <<up, closed>>

Crash == up # None /\ up' = None /\ UNCHANGED <<standing, permits, closed>>

Respawn == up = None /\ standing # None /\ up' = standing /\ UNCHANGED <<standing, permits, closed>>

GiveUp == up = None /\ standing' = None /\ UNCHANGED <<up, permits, closed>>

Stop ==
  /\ up' = None /\ standing' = None /\ permits' = {}
  /\ closed' \in {closed, TRUE}

Next ==
  \/ \E c \in Starts : Ask(c) \/ Forgo(c) \/ Supersede(c)
  \/ \E c \in Starts, ids \in SUBSET Models : Serve(c, ids)
  \/ Crash \/ Respawn \/ GiveUp \/ Stop

Spec == Init /\ [][Next]_oneVars
=============================================================================
