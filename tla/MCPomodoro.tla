---------------------------- MODULE MCPomodoro -----------------------------
(* Three members: a driver that leaves, the one whose turn it is, and one   *)
(* that waits for it.                                                       *)
EXTENDS Pomodoro
=============================================================================
