--------------------------- MODULE MCApplication ----------------------------
(* Nine parts of the application that have no clock in common, checked     *)
(* side by side: one runs, the others stand still.  None of their           *)
(* properties needs fairness.                                               *)
EXTENDS InviteRetry, PendingInvites, SessionSave, Updater, SampleLoop, FocusScore,
        Breaks, ScreenShare, Shortcuts

CONSTANTS s1, s2, me, other, i1, i2, i3, p1, p2, kf, ka, km, k4, k5

VARIABLE part

allVars == <<part, inviteVars, piVars, sessionVars, upVars, sampleVars, focusVars,
             breakVars, screenVars, scVars>>

Parts == {"retries", "inbox", "save", "updates", "loop", "score", "breaks", "screens",
          "shortcuts"}

(* Two invitations to the one identity, for one session, and one to the     *)
(* other identity of the device.                                            *)
Addressee == i1 :> me @@ i2 :> me @@ i3 :> other
Friends == {{i1, i2, i3}, {i3}}
Session == i1 :> 1 @@ i2 :> 1 @@ i3 :> 2

(* The two presets that gate differently, and the kinds of answer the       *)
(* machine tells apart.                                                     *)
Presets == {[warning |-> 2, alert |-> 3, gate |-> TRUE],
            [warning |-> 4, alert |-> 2, gate |-> FALSE]}
Answers == {[severity |-> "on_task", onTopic |-> TRUE],
            [severity |-> "mild", onTopic |-> FALSE],
            [severity |-> "blatant", onTopic |-> FALSE],
            [severity |-> "blatant", onTopic |-> TRUE]}

(* The keys as they are shipped, as an older release left them, where the   *)
(* microphone's default collides, and one key for two actions.              *)
Accelerators == {kf, ka, km, k4, k5}
ShippedKeys == "friends" :> kf @@ "ai" :> ka @@ "mic" :> km
SpareKeys == 1 :> km @@ 2 :> k4 @@ 3 :> k5
StoredKeys == {ShippedKeys, [ShippedKeys EXCEPT !["friends"] = km],
               [ShippedKeys EXCEPT !["friends"] = ka]}

Alone(p, A) ==
  /\ part = p /\ A
  /\ UNCHANGED part
  /\ p # "retries" => UNCHANGED inviteVars
  /\ p # "inbox" => UNCHANGED piVars
  /\ p # "save" => UNCHANGED sessionVars
  /\ p # "updates" => UNCHANGED upVars
  /\ p # "loop" => UNCHANGED sampleVars
  /\ p # "score" => UNCHANGED focusVars
  /\ p # "breaks" => UNCHANGED breakVars
  /\ p # "screens" => UNCHANGED screenVars
  /\ p # "shortcuts" => UNCHANGED scVars

(* A part that stands still has one initial state.                          *)
MCInit ==
  /\ part \in Parts
  /\ InviteInit /\ PendingInit /\ SaveInit /\ UpdaterInit
  /\ SampleInit /\ FocusInit /\ BreaksInit /\ ScreenInit /\ ShortcutsInit
  /\ part = "inbox" \/ piDisk = NoRecord
  /\ part = "updates" \/ upAuto
  /\ part = "score" \/ fsSliders.gate
  /\ part = "shortcuts" \/ scShown = ShippedKeys

MCNext ==
  \/ Alone("retries", InviteNext) \/ Alone("inbox", PendingNext)
  \/ Alone("save", SaveNext) \/ Alone("updates", UpdaterNext)
  \/ Alone("loop", SampleNext) \/ Alone("score", FocusNext)
  \/ Alone("breaks", BreaksNext) \/ Alone("screens", ScreenNext)
  \/ Alone("shortcuts", ShortcutsNext)
=============================================================================
