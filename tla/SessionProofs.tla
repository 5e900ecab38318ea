--------------------------- MODULE SessionProofs ----------------------------
(***************************************************************************)
(* Proofs about what happens in a session and what is kept of it, for any  *)
(* number of members, sessions, requests and failures: the shared pomodoro *)
(* timer (Pomodoro), the breaks (Breaks), the stint that is saved          *)
(* (SessionSave), the trail of audit events (AuditTrail), what is shared   *)
(* of a screen (ScreenShare) and the global shortcuts (Shortcuts).         *)
(***************************************************************************)
EXTENDS Pomodoro, Breaks, SessionSave, AuditTrail, ScreenShare, Shortcuts, Folding,
        SequenceTheorems, TLAPS

(* What NobodyStranded needs besides: those outside the room have no timer  *)
(* of any kind, and only two different members in the room hear each other. *)
Outside ==
  \A p \in Members \ room :
    timer[p] = Idle /\ p \notin driving \union silence

WiresInRoom ==
  \A p, q \in Members :
    wire[<<p, q>>] # <<>> => p # q /\ p \in room /\ q \in room

PomodoroInv == PomodoroTypeOK /\ NobodyStranded /\ Outside /\ WiresInRoom

(* What is said is a message, and said to the others in the room.           *)
LEMMA BroadcastIsSound ==
  ASSUME PomodoroTypeOK, WiresInRoom, NEW p \in room, NEW m \in Messages,
         Broadcast(p, m), room' = room
  PROVE  wire' \in [Pairs -> Seq(Messages)] /\ WiresInRoom'
<1>1. ASSUME NEW w \in Pairs PROVE Append(wire[w], m) \in Seq(Messages)
  BY DEF PomodoroTypeOK
<1>2. wire' \in [Pairs -> Seq(Messages)]
  BY <1>1 DEF Broadcast, PomodoroTypeOK
<1>3. WiresInRoom'
  BY DEF Broadcast, WiresInRoom, Pairs, PomodoroTypeOK
<1> QED BY <1>2, <1>3

(* The message of a timer that is shown is a message.                       *)
LEMMA ShownIsMessage ==
  ASSUME NEW t \in Snapshots, t # Idle
  PROVE  /\ Message(t, TRUE) \in Messages /\ Message(t, FALSE) \in Messages
         /\ t.phase \in Phases /\ t.ends \in 1..MaxPhases /\ t.by \in Members
         /\ t \in [phase : Phases, ends : 1..MaxPhases, by : Members]
BY DEF Snapshots, Message, Messages

LEMMA PomodoroInvInit == Init => PomodoroInv
<1> SUFFICES ASSUME Init PROVE PomodoroInv
  OBVIOUS
<1> USE DEF Init
<1>1. PomodoroTypeOK
  BY PomodoroBounds DEF PomodoroTypeOK, Snapshots
<1>2. NobodyStranded /\ Outside /\ WiresInRoom
  BY DEF NobodyStranded, Outside, WiresInRoom, Pairs
<1> QED BY <1>1, <1>2 DEF PomodoroInv

LEMMA PomodoroInvNext == PomodoroInv /\ [Next]_vars => PomodoroInv'
<1> SUFFICES ASSUME PomodoroInv, [Next]_vars PROVE PomodoroInv'
  OBVIOUS
<1> USE DEF PomodoroInv
<1> USE PomodoroBounds, MembersAssumption
<1>1. ASSUME NEW p \in Members, Enters(p) PROVE PomodoroInv'
  BY <1>1 DEF Enters, PomodoroTypeOK, NobodyStranded, Outside, WiresInRoom, Pairs
<1>2. ASSUME NEW p \in Members, Leaves(p) PROVE PomodoroInv'
  <2>1. PomodoroTypeOK'
    <3>1. wire' \in [Pairs -> Seq(Messages)]
      BY <1>2 DEF Leaves, PomodoroTypeOK
    <3>2. timer' \in [Members -> Snapshots] /\ knows' \in [Members -> SUBSET Members]
      BY <1>2 DEF Leaves, PomodoroTypeOK, Snapshots
    <3> QED BY <1>2, <3>1, <3>2 DEF Leaves, Rest, Quit, PomodoroTypeOK
  <2>2. NobodyStranded' /\ Outside'
    BY <1>2 DEF Leaves, Rest, Quit, PomodoroTypeOK, NobodyStranded, Outside
  <2>3. WiresInRoom'
    BY <1>2 DEF Leaves, WiresInRoom, Pairs
  <2> QED BY <2>1, <2>2, <2>3
<1>3. ASSUME NEW p \in Members, Start(p) PROVE PomodoroInv'
  <2> DEFINE t == [phase |-> "work", ends |-> phases + 1, by |-> p]
  <2>1. t \in Snapshots /\ t # Idle /\ t.by = p /\ phases + 1 \in 0..MaxPhases
    BY <1>3 DEF Start, PomodoroTypeOK, Snapshots, Phases, Idle
  <2>2. /\ Broadcast(p, Message(t, FALSE)) /\ timer' = [timer EXCEPT ![p] = t]
        /\ Drive(p) /\ phases' = phases + 1 /\ p \in room
        /\ UNCHANGED <<room, gone, knows, stopped>>
    BY <1>3 DEF Start
  <2> HIDE DEF t
  <2>3. wire' \in [Pairs -> Seq(Messages)] /\ WiresInRoom'
    BY <2>1, <2>2, ShownIsMessage, BroadcastIsSound
  <2>4. PomodoroTypeOK'
    BY <2>1, <2>2, <2>3 DEF Drive, PomodoroTypeOK
  <2>5. NobodyStranded' /\ Outside'
    BY <2>1, <2>2 DEF Drive, PomodoroTypeOK, NobodyStranded, Outside
  <2> QED BY <2>3, <2>4, <2>5
<1>4. ASSUME NEW p \in Members, Stop(p) PROVE PomodoroInv'
  <2>1. /\ timer' = [timer EXCEPT ![p] = Idle] /\ Rest(p) /\ p \in room
        /\ UNCHANGED <<room, gone, knows, phases>>
    BY <1>4 DEF Stop
  <2>2. timer[p] \in Snapshots /\ timer[p] # Idle
    BY <1>4 DEF Stop, PomodoroTypeOK
  <2>3. wire' \in [Pairs -> Seq(Messages)] /\ WiresInRoom'
    <3>1. CASE Broadcast(p, Message(timer[p], TRUE))
      BY <2>1, <2>2, <3>1, ShownIsMessage, BroadcastIsSound
    <3>2. CASE UNCHANGED wire
      BY <2>1, <3>2 DEF PomodoroTypeOK, WiresInRoom
    <3> QED BY <1>4, <3>1, <3>2 DEF Stop
  <2>4. stopped' \subseteq 1..MaxPhases
    <3>1. timer[p].ends \in 1..MaxPhases
      BY <2>2, ShownIsMessage
    <3>2. stopped' = stopped \union {timer[p].ends} \/ stopped' = stopped
      BY <1>4 DEF Stop
    <3> QED BY <3>1, <3>2 DEF PomodoroTypeOK
  <2>5. PomodoroTypeOK'
    BY <2>1, <2>3, <2>4 DEF Rest, Quit, PomodoroTypeOK, Snapshots
  <2>6. NobodyStranded' /\ Outside'
    BY <2>1 DEF Rest, Quit, PomodoroTypeOK, NobodyStranded, Outside
  <2> QED BY <2>3, <2>5, <2>6
<1>5. ASSUME NEW p \in Members, Tick(p) PROVE PomodoroInv'
  <2>1. /\ Broadcast(p, Message(timer[p], FALSE)) /\ p \in room
        /\ fresh' = fresh \ {p}
        /\ UNCHANGED <<room, gone, knows, timer, driving, silence, phases, stopped>>
    BY <1>5 DEF Tick, PomodoroTypeOK
  <2>2. timer[p] \in Snapshots /\ timer[p] # Idle
    BY <1>5, <2>1 DEF Tick, PomodoroTypeOK, NobodyStranded
  <2>3. wire' \in [Pairs -> Seq(Messages)] /\ WiresInRoom'
    BY <2>1, <2>2, ShownIsMessage, BroadcastIsSound
  <2> QED BY <2>1, <2>3 DEF PomodoroTypeOK, NobodyStranded, Outside
<1>6. ASSUME NEW p \in Members, Advance(p) PROVE PomodoroInv'
  <2> DEFINE t == [timer[p] EXCEPT !.phase = Other(@), !.ends = phases + 1]
  <2>1. timer[p] \in Snapshots /\ timer[p] # Idle /\ p \in room
    BY <1>6 DEF Advance, PomodoroTypeOK, NobodyStranded
  <2>2. t \in Snapshots /\ t # Idle /\ t.by = timer[p].by
    <3>1. /\ timer[p] \in [phase : Phases, ends : 1..MaxPhases, by : Members]
          /\ Other(timer[p].phase) \in Phases /\ phases + 1 \in 1..MaxPhases
      <4>1. /\ timer[p] \in [phase : Phases, ends : 1..MaxPhases, by : Members]
            /\ timer[p].phase \in Phases
        BY <2>1, ShownIsMessage
      <4>2. Other(timer[p].phase) \in Phases
        BY DEF Phases, Other
      <4>3. phases + 1 \in 1..MaxPhases
        BY <1>6 DEF Advance, PomodoroTypeOK
      <4> QED BY <4>1, <4>2, <4>3
    <3> QED BY <3>1 DEF Snapshots, Phases, Idle
  <2>3. /\ Broadcast(p, Message(t, FALSE)) /\ timer' = [timer EXCEPT ![p] = t]
        /\ phases' = phases + 1 /\ fresh' = fresh \ {p} /\ phases < MaxPhases
        /\ p \in room
        /\ UNCHANGED <<room, gone, knows, driving, silence, stopped>>
    BY <1>6, <2>1 DEF Advance
  <2> HIDE DEF t
  <2>4. wire' \in [Pairs -> Seq(Messages)] /\ WiresInRoom'
    BY <2>2, <2>3, ShownIsMessage, BroadcastIsSound
  <2>5. PomodoroTypeOK'
    BY <2>2, <2>3, <2>4 DEF PomodoroTypeOK
  <2>6. NobodyStranded' /\ Outside'
    BY <2>1, <2>2, <2>3 DEF PomodoroTypeOK, NobodyStranded, Outside
  <2> QED BY <2>4, <2>5, <2>6
<1>7. ASSUME NEW p \in Members, SilenceExpires(p) PROVE PomodoroInv'
  <2>1. timer[p] \in Snapshots /\ timer[p] # Idle /\ p \in room
    BY <1>7 DEF SilenceExpires, PomodoroTypeOK, NobodyStranded
  <2>2. CASE NextDriver(p) = p
    <3> DEFINE t == [timer[p] EXCEPT !.by = p]
    <3>1. t \in Snapshots /\ t # Idle /\ t.by = p
      BY <2>1, ShownIsMessage DEF Snapshots, Phases, Idle
    <3>2. /\ Broadcast(p, Message(timer[p], FALSE)) /\ timer' = [timer EXCEPT ![p] = t]
          /\ Drive(p) /\ UNCHANGED <<room, gone, knows, phases, stopped>>
      BY <1>7, <2>2 DEF SilenceExpires
    <3> HIDE DEF t
    <3>3. wire' \in [Pairs -> Seq(Messages)] /\ WiresInRoom'
      BY <2>1, <3>2, ShownIsMessage, BroadcastIsSound
    <3>4. PomodoroTypeOK'
      BY <2>1, <3>1, <3>2, <3>3 DEF Drive, PomodoroTypeOK
    <3>5. NobodyStranded' /\ Outside'
      BY <2>1, <3>1, <3>2 DEF Drive, PomodoroTypeOK, NobodyStranded, Outside
    <3> QED BY <3>3, <3>4, <3>5
  <2>3. CASE NextDriver(p) # p
    BY <1>7, <2>3
       DEF SilenceExpires, PomodoroTypeOK, NobodyStranded, Outside, WiresInRoom
  <2> QED BY <2>2, <2>3
<1>8. ASSUME NEW p \in Members, NEW q \in Members, Hello(p, q) PROVE PomodoroInv'
  BY <1>8 DEF Hello, PomodoroTypeOK, NobodyStranded, Outside, WiresInRoom
<1>9. ASSUME NEW p \in Members, NEW q \in Members, Receive(p, q) PROVE PomodoroInv'
  <2> DEFINE m == Head(wire[<<q, p>>])
             t == [phase |-> m.phase, ends |-> m.ends, by |-> q]
  <2>1. /\ wire[<<q, p>>] \in Seq(Messages) /\ wire[<<q, p>>] # <<>>
        /\ p # q /\ p \in room
    BY <1>9 DEF Receive, PomodoroTypeOK, Pairs, WiresInRoom
  <2>2. m \in Messages /\ Tail(wire[<<q, p>>]) \in Seq(Messages)
    BY <2>1
  <2>3. t \in Snapshots /\ t # Idle /\ t.by = q
    BY <2>2 DEF Messages, Snapshots, Phases, Idle
  <2>4. wire' \in [Pairs -> Seq(Messages)] /\ WiresInRoom'
    BY <1>9, <2>1, <2>2 DEF Receive, PomodoroTypeOK, Pairs, WiresInRoom
  <2>5. /\ UNCHANGED <<room, gone, knows, phases, stopped>>
        /\ \/ UNCHANGED <<timer, driving, fresh, silence>>
           \/ timer' = [timer EXCEPT ![p] = Idle] /\ Rest(p)
           \/ timer' = [timer EXCEPT ![p] = t] /\ Watch(p) /\ q \in knows[p]
    BY <1>9 DEF Receive
  <2> HIDE DEF m, t
  <2>6. PomodoroTypeOK'
    <3>1. timer' \in [Members -> Snapshots]
      BY <2>3, <2>5 DEF PomodoroTypeOK, Snapshots
    <3>2. fresh' \subseteq driving' /\ driving' \subseteq room /\ silence' \subseteq room
      BY <2>1, <2>5 DEF Rest, Watch, Quit, PomodoroTypeOK
    <3> QED BY <2>4, <2>5, <3>1, <3>2 DEF PomodoroTypeOK
  <2>7. NobodyStranded' /\ Outside'
    <3>1. CASE UNCHANGED <<timer, driving, fresh, silence>>
      BY <2>5, <3>1 DEF NobodyStranded, Outside
    <3>2. CASE timer' = [timer EXCEPT ![p] = Idle] /\ Rest(p)
      BY <2>1, <2>5, <3>2 DEF Rest, Quit, PomodoroTypeOK, NobodyStranded, Outside
    <3>3. CASE timer' = [timer EXCEPT ![p] = t] /\ Watch(p)
      BY <2>1, <2>3, <2>5, <3>3
         DEF Watch, Quit, PomodoroTypeOK, NobodyStranded, Outside
    <3> QED BY <2>5, <3>1, <3>2, <3>3
  <2> QED BY <2>4, <2>6, <2>7
<1>10. CASE UNCHANGED vars
  BY <1>10 DEF vars, PomodoroTypeOK, NobodyStranded, Outside, WiresInRoom
<1> QED BY <1>1, <1>2, <1>3, <1>4, <1>5, <1>6, <1>7, <1>8, <1>9, <1>10 DEF Next

(* Property: nobody shows a timer that it neither drives nor watches, and   *)
(* nobody watches for its own silence, whatever is pressed, lost or late.   *)
THEOREM NobodyEverStranded == Spec => [](PomodoroTypeOK /\ NobodyStranded)
<1>1. Init => PomodoroInv
  BY PomodoroInvInit
<1>2. PomodoroInv /\ [Next]_vars => PomodoroInv'
  BY PomodoroInvNext
<1>3. PomodoroInv => PomodoroTypeOK /\ NobodyStranded
  BY DEF PomodoroInv
<1> QED BY <1>1, <1>2, <1>3, PTL DEF Spec

----------------------------------------------------------------------------
(* A stop is final: nobody but the one that said it has a word under way,   *)
(* and all who still show a timer will hear it.                             *)

(* Who drives, or has words under way.                                      *)
Speaks(s) == s \in driving \/ \E q \in Members : wire[<<s, q>>] # <<>>

(* It is one at a time.                                                     *)
OneSpeaks == \A s, t \in Members : Speaks(s) /\ Speaks(t) => s = t

(* A stop is the last word of one who drives no more, and every such has it.*)
LastWordIsStop ==
  \A s, q \in Members : \A i \in 1..Len(wire[<<s, q>>]) :
    wire[<<s, q>>][i].stop <=> s \notin driving /\ i = Len(wire[<<s, q>>])

(* Nobody drives a phase, or repeats it, that was stopped.                  *)
PhasesGoOn ==
  /\ stopped \subseteq 1..phases
  /\ \A p \in Members : timer[p].ends <= phases
  /\ \A p \in driving : timer[p].ends \notin stopped
  /\ \A s, q \in Members : \A i \in 1..Len(wire[<<s, q>>]) :
       /\ wire[<<s, q>>][i].ends <= phases
       /\ s \in driving => wire[<<s, q>>][i].ends \notin stopped

(* One who has spoken once is not followed before that is heard.            *)
FreshSpokeOnce ==
  \A s \in fresh : \A q \in Members :
    /\ Len(wire[<<s, q>>]) <= 1
    /\ q # s /\ timer[q].by = s => wire[<<s, q>>] = <<>>

(* Who follows somebody in the room will hear of it; who follows somebody   *)
(* that left will hear of the one that took over, and stands behind it.     *)
FollowersWillHear ==
  \A p \in room \ driving : timer[p] # Idle =>
    /\ timer[p].by \in room \union gone
    /\ timer[p].by \in room =>
         /\ timer[p].by \in knows[p]
         /\ timer[p].by \in driving \/ wire[<<timer[p].by, p>>] # <<>>
    /\ timer[p].by \notin room =>
         \A s \in Members : Speaks(s) => s < p /\ s \in knows[p] /\ wire[<<s, p>>] # <<>>
    /\ timer[p].ends \in stopped => \E s \in Members \ driving : wire[<<s, p>>] # <<>>

(* The inductive invariant.                                                 *)
FinalInv ==
  /\ PomodoroInv /\ OneSpeaks /\ LastWordIsStop /\ PhasesGoOn /\ FreshSpokeOnce
  /\ FollowersWillHear

(* What is under way: the types.                                            *)
LEMMA WordsAre ==
  ASSUME PomodoroTypeOK, NEW s \in Members, NEW q \in Members
  PROVE  /\ wire[<<s, q>>] \in Seq(Messages) /\ Len(wire[<<s, q>>]) \in Nat
         /\ wire[<<s, q>>] # <<>> <=> Len(wire[<<s, q>>]) > 0
         /\ \A i \in 1..Len(wire[<<s, q>>]) :
              /\ wire[<<s, q>>][i].stop \in BOOLEAN
              /\ wire[<<s, q>>][i].ends \in 1..MaxPhases
<1>1. wire[<<s, q>>] \in Seq(Messages)
  BY DEF PomodoroTypeOK, Pairs
<1>2. \A i \in 1..Len(wire[<<s, q>>]) : wire[<<s, q>>][i] \in Messages
  BY <1>1
<1>3. \A i \in 1..Len(wire[<<s, q>>]) :
              /\ wire[<<s, q>>][i].stop \in BOOLEAN
              /\ wire[<<s, q>>][i].ends \in 1..MaxPhases
  BY <1>2 DEF Messages
<1>4. Len(wire[<<s, q>>]) \in Nat /\ (wire[<<s, q>>] # <<>> <=> Len(wire[<<s, q>>]) > 0)
  BY <1>1
<1> QED BY <1>1, <1>3, <1>4

(* And what a member is, and shows.                                         *)
LEMMA MembersAre ==
  ASSUME PomodoroInv, NEW p \in Members
  PROVE  /\ p \in Nat /\ p # 0 /\ phases \in Nat /\ timer[p].ends \in Nat
         /\ timer[p] # Idle => timer[p].by \in Members /\ timer[p].ends \in 1..MaxPhases
         /\ wire[<<p, p>>] = <<>>
<1>1. p \in Nat /\ p # 0 /\ phases \in Nat
  BY MembersAssumption, PomodoroBounds DEF PomodoroInv, PomodoroTypeOK
<1>2. timer[p] \in Snapshots
  BY DEF PomodoroInv, PomodoroTypeOK
<1>3. timer[p] # Idle => timer[p].by \in Members /\ timer[p].ends \in 1..MaxPhases
  BY <1>2, ShownIsMessage
<1>4. timer[p].ends \in Nat
  <2>1. Idle.ends \in Nat
    BY DEF Idle
  <2> QED BY <1>3, <2>1, PomodoroBounds
<1>5. wire[<<p, p>>] = <<>>
  BY DEF PomodoroInv, WiresInRoom
<1> QED BY <1>1, <1>3, <1>4, <1>5

(* What is said reaches the others in the room, after all that was said.    *)
LEMMA SaidIs ==
  ASSUME PomodoroTypeOK, NEW p \in room, NEW m \in Messages, Broadcast(p, m)
  PROVE  /\ \A s, q \in Members : s # p \/ q \notin room \ {p} =>
              wire'[<<s, q>>] = wire[<<s, q>>]
         /\ \A q \in room \ {p} :
              /\ wire'[<<p, q>>] # <<>> /\ Len(wire'[<<p, q>>]) = Len(wire[<<p, q>>]) + 1
              /\ \A i \in 1..Len(wire[<<p, q>>]) : wire'[<<p, q>>][i] = wire[<<p, q>>][i]
              /\ wire'[<<p, q>>][Len(wire[<<p, q>>]) + 1] = m
<1>1. \A s, q \in Members :
        wire'[<<s, q>>] = IF s = p /\ q \in room \ {p}
                            THEN Append(wire[<<s, q>>], m) ELSE wire[<<s, q>>]
  BY DEF Broadcast, Pairs
<1>2. room \subseteq Members
  BY DEF PomodoroTypeOK
<1>3. ASSUME NEW q \in room \ {p}
      PROVE  /\ wire'[<<p, q>>] # <<>> /\ Len(wire'[<<p, q>>]) = Len(wire[<<p, q>>]) + 1
             /\ \A i \in 1..Len(wire[<<p, q>>]) : wire'[<<p, q>>][i] = wire[<<p, q>>][i]
             /\ wire'[<<p, q>>][Len(wire[<<p, q>>]) + 1] = m
  <2> DEFINE w == wire[<<p, q>>]
             w1 == wire'[<<p, q>>]
  <2>1. w1 = Append(w, m)
    BY <1>1, <1>2, <1>3
  <2>2. w \in Seq(Messages)
    BY <1>2, <1>3, WordsAre
  <2> HIDE DEF w, w1
  <2>3. /\ w1 # <<>> /\ Len(w1) = Len(w) + 1 /\ w1[Len(w) + 1] = m
        /\ \A i \in 1..Len(w) : w1[i] = w[i]
    BY <2>1, <2>2
  <2> QED BY <2>3 DEF w, w1
<1> QED BY <1>1, <1>3

(* It says what is promised: when all has arrived no stop is under way.     *)
LEMMA FinalSound == FinalInv => StopIsFinal
<1> SUFFICES ASSUME FinalInv, Calm, NEW p \in room
             PROVE  timer[p].ends \notin stopped
  BY DEF StopIsFinal
<1>1. p \in Members /\ room \subseteq Members
  BY DEF FinalInv, PomodoroInv, PomodoroTypeOK
<1>2. \A s \in Members : wire[<<s, p>>] = <<>>
  BY <1>1 DEF Calm, Pairs
<1>3. CASE timer[p] = Idle
  BY <1>1, <1>3, MembersAre DEF FinalInv, PhasesGoOn, Idle
<1>4. CASE timer[p] # Idle /\ p \in driving
  BY <1>4 DEF FinalInv, PhasesGoOn
<1>5. CASE timer[p] # Idle /\ p \notin driving
  BY <1>2, <1>5 DEF FinalInv, FollowersWillHear
<1> QED BY <1>3, <1>4, <1>5

(* Nobody is there yet.                                                     *)
LEMMA FinalStart == Init => FinalInv
<1> SUFFICES ASSUME Init PROVE FinalInv
  OBVIOUS
<1>1. PomodoroInv
  BY PomodoroInvInit
<1>2. /\ room = {} /\ driving = {} /\ fresh = {} /\ stopped = {} /\ phases = 0
      /\ \A s, q \in Members : wire[<<s, q>>] = <<>>
      /\ \A p \in Members : timer[p].ends = 0
  BY DEF Init, Pairs, Idle
<1>3. \A s, q \in Members : Len(wire[<<s, q>>]) = 0
  <2>1. Len(<<>>) = 0
    OBVIOUS
  <2> QED BY <1>2, <2>1, Zenon
<1>4. OneSpeaks /\ FreshSpokeOnce /\ FollowersWillHear
  BY <1>2 DEF OneSpeaks, Speaks, FreshSpokeOnce, FollowersWillHear
<1>5. LastWordIsStop /\ PhasesGoOn
  BY <1>2, <1>3 DEF LastWordIsStop, PhasesGoOn
<1> QED BY <1>1, <1>4, <1>5 DEF FinalInv

(* Nothing is said, pressed or heard; a member enters, or a hello arrives.  *)
LEMMA QuietKeeps ==
  ASSUME FinalInv, PomodoroInv', UNCHANGED <<gone, timer, driving, fresh, wire, phases, stopped>>,
         room \subseteq room', \A p \in room' \ room : timer[p] = Idle /\ p \notin gone,
         \A p \in room' \ room : \A q \in room : timer[q].by # p,
         \A p \in Members : knows[p] \subseteq knows'[p]
  PROVE  FinalInv'
<1>1. OneSpeaks' /\ LastWordIsStop' /\ PhasesGoOn' /\ FreshSpokeOnce'
  <2>1. OneSpeaks'
    BY DEF FinalInv, OneSpeaks, Speaks
  <2>2. LastWordIsStop'
    BY DEF FinalInv, LastWordIsStop
  <2>3. PhasesGoOn'
    BY DEF FinalInv, PhasesGoOn
  <2>4. FreshSpokeOnce'
    BY DEF FinalInv, FreshSpokeOnce
  <2> QED BY <2>1, <2>2, <2>3, <2>4
<1>2. room \subseteq Members /\ room' \subseteq Members
  BY DEF FinalInv, PomodoroInv, PomodoroTypeOK
<1>3. FollowersWillHear'
  BY <1>2 DEF FinalInv, FollowersWillHear, Speaks
<1> QED BY <1>1, <1>3 DEF FinalInv

(* A member enters that nobody can be following.                            *)
LEMMA EntersKeeps ==
  ASSUME FinalInv, PomodoroInv', NEW p \in Members, Enters(p)
  PROVE  FinalInv'
<1>1. /\ p \notin room \union gone /\ room' = room \union {p}
      /\ UNCHANGED <<gone, knows, timer, driving, fresh, wire, phases, stopped>>
  BY DEF Enters
<1>2. timer[p] = Idle
  BY <1>1 DEF FinalInv, PomodoroInv, Outside
<1>3. ASSUME NEW q \in room PROVE timer[q].by # p
  <2>1. q \in Members
    BY DEF FinalInv, PomodoroInv, PomodoroTypeOK
  <2>2. CASE timer[q] = Idle
    <3>1. p # 0
      BY MembersAre DEF FinalInv
    <3>2. Idle.by = 0
      BY DEF Idle, Nobody
    <3> QED BY <2>2, <3>1, <3>2
  <2>3. CASE q \in driving
    BY <1>1, <2>3 DEF FinalInv, PomodoroInv, NobodyStranded
  <2>4. CASE timer[q] # Idle /\ q \notin driving
    BY <1>1, <2>4 DEF FinalInv, FollowersWillHear
  <2> QED BY <2>2, <2>3, <2>4
<1> QED BY <1>1, <1>2, <1>3, QuietKeeps

(* A hello arrives.                                                         *)
LEMMA HelloKeeps ==
  ASSUME FinalInv, PomodoroInv', NEW p \in Members, NEW q \in Members, Hello(p, q)
  PROVE  FinalInv'
<1>1. /\ knows' = [knows EXCEPT ![p] = @ \union {q}]
      /\ UNCHANGED <<room, gone, timer, driving, fresh, wire, phases, stopped>>
  BY DEF Hello
<1>2. knows \in [Members -> SUBSET Members]
  BY DEF FinalInv, PomodoroInv, PomodoroTypeOK
<1> QED BY <1>1, <1>2, QuietKeeps

(* Who leaves had been heard by all.                                        *)
LEMMA LeavesKeeps ==
  ASSUME FinalInv, PomodoroInv', Orderly, NEW p \in Members, Leaves(p)
  PROVE  FinalInv'
<1>1. /\ p \in room /\ room' = room \ {p} /\ gone' = gone \union {p}
      /\ p \in driving => \A q \in room : timer[q].by = p
      /\ StopsOnTheWire(p) = {}
      /\ timer' = [timer EXCEPT ![p] = Idle]
      /\ driving' = driving \ {p} /\ fresh' = fresh \ {p}
      /\ stopped' = stopped /\ phases' = phases
  BY DEF Leaves, Rest, Quit
<1>2. /\ \A q \in Members \ {p} : knows'[q] = knows[q] \ {p}
      /\ \A s, q \in Members : wire'[<<s, q>>] = IF s = p \/ q = p THEN <<>> ELSE wire[<<s, q>>]
      /\ \A q \in Members : timer'[q] = IF q = p THEN Idle ELSE timer[q]
  BY <1>1 DEF Leaves, FinalInv, PomodoroInv, PomodoroTypeOK, Pairs
<1>3. room \subseteq Members /\ fresh \subseteq driving /\ driving \subseteq room
  BY DEF FinalInv, PomodoroInv, PomodoroTypeOK
<1>4. p \notin driving => \A q \in Members : wire[<<p, q>>] = <<>>
  <2> SUFFICES ASSUME p \notin driving, NEW q \in Members, wire[<<p, q>>] # <<>>
               PROVE  FALSE
    OBVIOUS
  <2> DEFINE n == Len(wire[<<p, q>>])
             m == wire[<<p, q>>][n]
  <2>1. n \in 1..Len(wire[<<p, q>>]) /\ wire[<<p, q>>] \in Seq(Messages)
    BY WordsAre DEF FinalInv, PomodoroInv
  <2>2. m.stop
    BY <2>1 DEF FinalInv, LastWordIsStop
  <2>3. m \in Range(wire[<<p, q>>])
    BY <2>1 DEF Range
  <2> HIDE DEF m
  <2>4. m.ends \in StopsOnTheWire(p)
    BY <2>2, <2>3 DEF StopsOnTheWire
  <2> QED BY <1>1, <2>4
<1>5. \A s \in Members : Speaks(s)' => Speaks(s) /\ s # p
  BY <1>1, <1>2 DEF Speaks
<1>6. OneSpeaks'
  BY <1>5 DEF FinalInv, OneSpeaks
<1>7. \A s, q \in Members : \A i \in 1..Len(wire'[<<s, q>>]) :
        s # p /\ q # p /\ wire'[<<s, q>>] = wire[<<s, q>>]
  BY <1>2
<1>8. LastWordIsStop'
  <2> SUFFICES ASSUME NEW s \in Members, NEW q \in Members, NEW i \in 1..Len(wire'[<<s, q>>])
               PROVE  wire'[<<s, q>>][i].stop <=> s \notin driving' /\ i = Len(wire'[<<s, q>>])
    BY DEF LastWordIsStop
  <2>1. s # p /\ q # p /\ wire'[<<s, q>>] = wire[<<s, q>>]
    BY <1>7
  <2>2. wire[<<s, q>>][i].stop <=> s \notin driving /\ i = Len(wire[<<s, q>>])
    BY <2>1 DEF FinalInv, LastWordIsStop
  <2> QED BY <1>1, <2>1, <2>2
<1>9. PhasesGoOn'
  <2>1. 0 <= phases
    BY PomodoroBounds DEF FinalInv, PomodoroInv, PomodoroTypeOK
  <2> QED BY <1>1, <1>2, <1>3, <1>7, <2>1 DEF FinalInv, PhasesGoOn, Idle
<1>10. FreshSpokeOnce'
  <2>1. Len(<<>>) = 0
    OBVIOUS
  <2> SUFFICES ASSUME NEW s \in fresh, NEW q \in Members
               PROVE  /\ Len(wire'[<<s, q>>]) <= 1
                      /\ q # s /\ timer'[q].by = s => wire'[<<s, q>>] = <<>>
    BY <1>1 DEF FreshSpokeOnce
  <2>2. /\ s \in Members /\ Len(wire[<<s, q>>]) <= 1
        /\ q # s /\ timer[q].by = s => wire[<<s, q>>] = <<>>
    BY <1>3 DEF FinalInv, FreshSpokeOnce
  <2>3. wire'[<<s, q>>] = <<>> \/ (q # p /\ wire'[<<s, q>>] = wire[<<s, q>>])
    BY <1>2, <2>2
  <2> QED BY <1>2, <2>1, <2>2, <2>3
<1>11. FollowersWillHear'
  <2> SUFFICES ASSUME NEW q \in room, q # p, q \notin driving, timer[q] # Idle
               PROVE  /\ timer[q].by \in room \union gone
                      /\ timer[q].by \in room \ {p} =>
                           /\ timer[q].by \in knows[q] \ {p}
                           /\ timer[q].by \in driving \ {p} \/ wire'[<<timer[q].by, q>>] # <<>>
                      /\ timer[q].by \notin room \ {p} =>
                           \A s \in Members : Speaks(s)' =>
                             s < q /\ s \in knows[q] \ {p} /\ wire'[<<s, q>>] # <<>>
                      /\ timer[q].ends \in stopped =>
                           \E s \in Members \ (driving \ {p}) : wire'[<<s, q>>] # <<>>
    BY <1>1, <1>2, <1>3 DEF FollowersWillHear
  <2>1. /\ timer[q].by \in room \union gone
        /\ timer[q].by \in room =>
             /\ timer[q].by \in knows[q]
             /\ timer[q].by \in driving \/ wire[<<timer[q].by, q>>] # <<>>
        /\ timer[q].by \notin room =>
             \A s \in Members : Speaks(s) => s < q /\ s \in knows[q] /\ wire[<<s, q>>] # <<>>
        /\ timer[q].ends \in stopped => \E s \in Members \ driving : wire[<<s, q>>] # <<>>
    BY DEF FinalInv, FollowersWillHear
  <2>2. q \in Members /\ timer[q].by \in Members
    BY <1>3, MembersAre DEF FinalInv
  <2>3. CASE p \in driving
    <3>1. timer[q].by = p
      BY <1>1, <2>3
    <3>2. \A s \in Members : ~Speaks(s)'
      BY <1>5, <2>3 DEF FinalInv, OneSpeaks, Speaks
    <3>3. timer[q].ends \notin stopped
      BY <2>1, <2>2, <2>3 DEF FinalInv, OneSpeaks, Speaks
    <3> QED BY <2>1, <3>1, <3>2, <3>3
  <2>4. CASE p \notin driving
    <3>1. timer[q].by # p
      BY <1>1, <1>4, <2>1, <2>2, <2>4
    <3> QED BY <1>2, <1>4, <1>5, <2>1, <2>2, <2>4, <3>1
  <2> QED BY <2>3, <2>4
<1> QED BY <1>6, <1>8, <1>9, <1>10, <1>11 DEF FinalInv

(* One who drives, or begins to when nobody speaks and stands before all    *)
(* that follow one who left, says what it shows.                            *)
LEMMA SaysKeeps ==
  ASSUME FinalInv, PomodoroInv', NEW p \in room, NEW m \in Messages, ~m.stop, Broadcast(p, m),
         UNCHANGED <<room, gone, knows, stopped>>, phases <= phases',
         m.ends \notin stopped, m.ends <= phases', timer'[p].ends = m.ends,
         \A q \in Members \ {p} : timer'[q] = timer[q],
         driving' = driving \union {p}, fresh' \subseteq fresh \union {p},
         p \in fresh' => p \notin driving,
         p \notin driving =>
           /\ \A s \in Members : ~Speaks(s)
           /\ \A q \in room \ {p} : timer[q] # Idle =>
                timer[q].by \notin room /\ p < q /\ p \in knows[q]
  PROVE  FinalInv'
<1>1. PomodoroInv /\ PomodoroTypeOK /\ room \subseteq Members /\ fresh \subseteq driving
      /\ driving \subseteq room
  BY DEF FinalInv, PomodoroInv, PomodoroTypeOK
<1>2. /\ \A s, q \in Members : s # p \/ q \notin room \ {p} =>
           wire'[<<s, q>>] = wire[<<s, q>>]
      /\ \A q \in room \ {p} :
           /\ wire'[<<p, q>>] # <<>> /\ Len(wire'[<<p, q>>]) = Len(wire[<<p, q>>]) + 1
           /\ \A i \in 1..Len(wire[<<p, q>>]) : wire'[<<p, q>>][i] = wire[<<p, q>>][i]
           /\ wire'[<<p, q>>][Len(wire[<<p, q>>]) + 1] = m
  BY <1>1, SaidIs
<1>3. ASSUME NEW s \in Members PROVE Speaks(s)' => s = p /\ (p \in driving => Speaks(s))
  BY <1>1, <1>2 DEF Speaks, FinalInv, OneSpeaks
<1>4. OneSpeaks'
  BY <1>3 DEF OneSpeaks
<1>5. ASSUME NEW s \in Members, NEW q \in Members, NEW i \in 1..Len(wire'[<<s, q>>])
      PROVE  /\ s = p
             /\ \/ /\ wire'[<<s, q>>][i] = m /\ q \in room \ {p}
                \/ /\ p \in driving /\ i \in 1..Len(wire[<<p, q>>])
                   /\ wire'[<<s, q>>][i] = wire[<<p, q>>][i]
  <2>0. /\ Len(wire[<<p, q>>]) \in Nat /\ (wire[<<p, q>>] # <<>> <=> Len(wire[<<p, q>>]) > 0)
        /\ p \in Members
    BY <1>1, WordsAre
  <2>1. s = p
    <3>1. PomodoroTypeOK'
      BY DEF PomodoroInv
    <3>2. wire'[<<s, q>>] \in Seq(Messages)
      BY <3>1 DEF PomodoroTypeOK, Pairs
    <3>3. wire'[<<s, q>>] # <<>>
      BY <3>2
    <3> QED BY <1>3, <3>3 DEF Speaks
  <2>2. p \notin driving => wire[<<p, q>>] = <<>>
    BY <2>0 DEF Speaks
  <2>3. CASE q \in room \ {p}
    BY <1>2, <2>0, <2>1, <2>2, <2>3
  <2>4. CASE q \notin room \ {p}
    BY <1>2, <2>0, <2>1, <2>2, <2>4
  <2> QED BY <2>1, <2>3, <2>4
<1>6. LastWordIsStop'
  <2> SUFFICES ASSUME NEW s \in Members, NEW q \in Members, NEW i \in 1..Len(wire'[<<s, q>>])
               PROVE  s = p /\ ~wire'[<<s, q>>][i].stop
    BY DEF LastWordIsStop
  <2>1. s = p
    BY <1>5
  <2>2. CASE wire'[<<s, q>>][i] = m
    BY <2>1, <2>2
  <2>3. CASE /\ p \in driving /\ i \in 1..Len(wire[<<p, q>>])
             /\ wire'[<<s, q>>][i] = wire[<<p, q>>][i]
    <3>1. p \in Members
      BY <1>1
    <3>2. ~wire[<<p, q>>][i].stop
      BY <2>3, <3>1 DEF FinalInv, LastWordIsStop
    <3> QED BY <2>1, <2>3, <3>2
  <2> QED BY <1>5, <2>2, <2>3
<1>7. PhasesGoOn'
  <2>1. phases \in Nat /\ phases' \in Nat
    BY PomodoroBounds DEF FinalInv, PomodoroInv, PomodoroTypeOK
  <2>2. stopped' \subseteq 1..phases'
    BY <2>1 DEF FinalInv, PhasesGoOn
  <2>3. ASSUME NEW q \in Members PROVE timer'[q].ends <= phases'
    <3>1. timer[q].ends <= phases /\ timer[q].ends \in Nat
      BY <1>1, MembersAre DEF FinalInv, PhasesGoOn
    <3> QED BY <2>1, <3>1
  <2>4. \A q \in driving' : timer'[q].ends \notin stopped'
    BY <1>1 DEF FinalInv, PhasesGoOn
  <2>5. ASSUME NEW s \in Members, NEW q \in Members, NEW i \in 1..Len(wire'[<<s, q>>])
        PROVE  wire'[<<s, q>>][i].ends <= phases' /\ wire'[<<s, q>>][i].ends \notin stopped'
    <3>1. CASE wire'[<<s, q>>][i] = m
      BY <3>1
    <3>2. CASE /\ p \in driving /\ i \in 1..Len(wire[<<p, q>>])
               /\ wire'[<<s, q>>][i] = wire[<<p, q>>][i]
      <4>1. wire[<<p, q>>][i].ends <= phases /\ wire[<<p, q>>][i].ends \notin stopped
        BY <1>1, <3>2 DEF FinalInv, PhasesGoOn
      <4>2. wire[<<p, q>>][i].ends \in 1..MaxPhases
        BY <1>1, <3>2, WordsAre
      <4> QED BY <2>1, <3>2, <4>1, <4>2, PomodoroBounds
    <3> QED BY <1>5, <3>1, <3>2
  <2> QED BY <2>2, <2>3, <2>4, <2>5 DEF PhasesGoOn
<1>8. FreshSpokeOnce'
  <2> SUFFICES ASSUME NEW s \in fresh', NEW q \in Members
               PROVE  /\ Len(wire'[<<s, q>>]) <= 1
                      /\ q # s /\ timer'[q].by = s => wire'[<<s, q>>] = <<>>
    BY DEF FreshSpokeOnce
  <2>1. s = p /\ p \notin driving
    BY <1>1, <1>3 DEF Speaks
  <2>2. wire[<<p, q>>] = <<>>
    BY <1>1, <2>1 DEF Speaks
  <2>3. Len(wire[<<p, q>>]) = 0
    <3>1. Len(<<>>) = 0
      OBVIOUS
    <3> QED BY <2>2, <3>1, Zenon
  <2>4. q \in room \ {p} \/ wire'[<<p, q>>] = wire[<<p, q>>]
    BY <1>1, <1>2
  <2>5. q \in room \ {p} => timer'[q].by # p
    <3>1. p \in Members /\ p # 0 /\ Idle.by = 0
      BY <1>1, MembersAre DEF Idle, Nobody
    <3> QED BY <2>1, <3>1
  <2>6. Len(wire'[<<p, q>>]) <= 1
    BY <1>2, <2>3, <2>4
  <2> QED BY <2>1, <2>2, <2>4, <2>5, <2>6
<1>9. FollowersWillHear'
  <2> SUFFICES ASSUME NEW q \in room, q # p, q \notin driving, timer[q] # Idle
               PROVE  /\ timer[q].by \in room \union gone
                      /\ timer[q].by \in room =>
                           /\ timer[q].by \in knows[q]
                           /\ timer[q].by \in driving \/ wire'[<<timer[q].by, q>>] # <<>>
                      /\ timer[q].by \notin room =>
                           \A s \in Members : Speaks(s)' =>
                             s < q /\ s \in knows[q] /\ wire'[<<s, q>>] # <<>>
                      /\ timer[q].ends \notin stopped
    BY <1>1 DEF FollowersWillHear
  <2>1. /\ timer[q].by \in room \union gone
        /\ timer[q].by \in room =>
             /\ timer[q].by \in knows[q]
             /\ timer[q].by \in driving \/ wire[<<timer[q].by, q>>] # <<>>
        /\ timer[q].by \notin room =>
             \A s \in Members : Speaks(s) => s < q /\ s \in knows[q] /\ wire[<<s, q>>] # <<>>
        /\ timer[q].ends \in stopped => \E s \in Members \ driving : wire[<<s, q>>] # <<>>
    BY DEF FinalInv, FollowersWillHear
  <2>2. q \in Members /\ p \in Members /\ timer[q].by \in Members
    BY <1>1, MembersAre
  <2>3. \A s \in Members : wire[<<s, q>>] # <<>> => Speaks(s)
    BY <2>2 DEF Speaks
  <2>4. wire'[<<p, q>>] # <<>>
    BY <1>2
  <2>5. CASE p \in driving
    <3>1. Speaks(p) /\ \A s \in Members : Speaks(s) => s = p
      BY <2>2, <2>5 DEF FinalInv, OneSpeaks, Speaks
    <3> QED BY <1>3, <2>1, <2>2, <2>3, <2>4, <2>5, <3>1
  <2>6. CASE p \notin driving
    BY <1>3, <2>1, <2>2, <2>3, <2>4, <2>6
  <2> QED BY <2>5, <2>6
<1> QED BY <1>4, <1>6, <1>7, <1>8, <1>9 DEF FinalInv

(* A timer is started where none is shown.                                  *)
LEMMA BeginsKeeps ==
  ASSUME FinalInv, PomodoroInv', Orderly, NEW p \in Members, Start(p)
  PROVE  FinalInv'
<1> DEFINE t == [phase |-> "work", ends |-> phases + 1, by |-> p]
           m == Message(t, FALSE)
<1>1. /\ p \in room /\ phases < MaxPhases /\ Calm /\ ShownByNone
      /\ timer' = [timer EXCEPT ![p] = t] /\ Broadcast(p, m)
      /\ driving' = driving \union {p} /\ fresh' = fresh \union {p} /\ phases' = phases + 1
      /\ UNCHANGED <<room, gone, knows, stopped>>
  BY DEF Start, Drive
<1>2. PomodoroInv /\ PomodoroTypeOK /\ phases \in Nat /\ MaxPhases \in Nat
  BY PomodoroBounds DEF FinalInv, PomodoroInv, PomodoroTypeOK
<1>3. t.ends = phases + 1 /\ m.ends = phases + 1 /\ ~m.stop /\ m \in Messages
  BY <1>1, <1>2 DEF Message, Messages, Phases
<1>4. driving = {} /\ \A q \in room : timer[q] = Idle
  BY <1>1, <1>2 DEF ShownByNone, PomodoroInv, NobodyStranded, PomodoroTypeOK
<1>5. \A s \in Members : ~Speaks(s)
  BY <1>1, <1>4 DEF Speaks, Calm, Pairs
<1> HIDE DEF m, t
<1>6. timer'[p].ends = m.ends /\ \A q \in Members \ {p} : timer'[q] = timer[q]
  BY <1>1, <1>2, <1>3 DEF PomodoroTypeOK
<1>7. m.ends \notin stopped /\ phases <= phases' /\ m.ends <= phases'
  BY <1>1, <1>2, <1>3 DEF FinalInv, PhasesGoOn
<1> QED BY <1>1, <1>3, <1>4, <1>5, <1>6, <1>7, SaysKeeps

(* The driver repeats its phase, or moves on to the next.                   *)
LEMMA GoesOnKeeps ==
  ASSUME FinalInv, PomodoroInv', NEW p \in Members, Tick(p) \/ Advance(p)
  PROVE  FinalInv'
<1>1. PomodoroInv /\ PomodoroTypeOK /\ phases \in Nat /\ MaxPhases \in Nat /\ driving \subseteq room
  BY PomodoroBounds DEF FinalInv, PomodoroInv, PomodoroTypeOK
<1>2. /\ p \in driving /\ p \in room /\ fresh' = fresh \ {p}
      /\ UNCHANGED <<room, gone, knows, driving, stopped>>
  BY <1>1 DEF Tick, Advance
<1>3. timer[p] # Idle /\ timer[p] \in Snapshots
  BY <1>1, <1>2 DEF PomodoroInv, PomodoroTypeOK, NobodyStranded
<1>4. /\ timer[p] \in [phase : Phases, ends : 1..MaxPhases, by : Members]
      /\ timer[p].phase \in Phases
  BY <1>3, ShownIsMessage
<1>5. CASE Tick(p)
  <2> DEFINE m == Message(timer[p], FALSE)
  <2>1. Broadcast(p, m) /\ timer' = timer /\ phases' = phases
    BY <1>5 DEF Tick
  <2>2. m \in Messages /\ ~m.stop /\ m.ends = timer[p].ends
    BY <1>3, ShownIsMessage DEF Message
  <2> HIDE DEF m
  <2>3. m.ends \notin stopped /\ m.ends <= phases /\ phases <= phases
    BY <1>1, <1>2, <2>2 DEF FinalInv, PhasesGoOn
  <2> QED BY <1>2, <2>1, <2>2, <2>3, SaysKeeps
<1>6. CASE Advance(p)
  <2> DEFINE t == [timer[p] EXCEPT !.phase = Other(@), !.ends = phases + 1]
             m == Message(t, FALSE)
  <2>1. /\ Broadcast(p, m) /\ timer' = [timer EXCEPT ![p] = t] /\ phases' = phases + 1
        /\ phases < MaxPhases
    BY <1>6 DEF Advance
  <2>2. Other(timer[p].phase) \in Phases /\ phases + 1 \in 1..MaxPhases
    BY <1>1, <2>1 DEF Phases, Other
  <2>3. t.ends = phases + 1 /\ t.phase \in Phases
    BY <1>4, <2>2
  <2> HIDE DEF t
  <2>4. m \in Messages /\ ~m.stop /\ m.ends = phases + 1
    BY <2>2, <2>3 DEF Message, Messages
  <2> HIDE DEF m
  <2>5. timer'[p].ends = m.ends /\ \A q \in Members \ {p} : timer'[q] = timer[q]
    BY <1>1, <2>1, <2>3, <2>4 DEF PomodoroTypeOK
  <2>6. m.ends \notin stopped /\ m.ends <= phases' /\ phases <= phases'
    BY <1>1, <2>1, <2>4 DEF FinalInv, PhasesGoOn
  <2> QED BY <1>2, <2>1, <2>4, <2>5, <2>6, SaysKeeps
<1> QED BY <1>5, <1>6

(* A stop of the driver is the last word to everybody; anybody else only    *)
(* stops to look.                                                           *)
LEMMA StopsKeeps ==
  ASSUME FinalInv, PomodoroInv', Orderly, NEW p \in Members, Stop(p)
  PROVE  FinalInv'
<1>1. PomodoroInv /\ PomodoroTypeOK /\ room \subseteq Members /\ driving \subseteq room
      /\ fresh \subseteq driving /\ phases \in Nat
  BY PomodoroBounds DEF FinalInv, PomodoroInv, PomodoroTypeOK
<1>2. /\ p \in room /\ timer[p] # Idle /\ timer[p].by \in driving
      /\ timer' = [timer EXCEPT ![p] = Idle]
      /\ driving' = driving \ {p} /\ fresh' = fresh \ {p}
      /\ UNCHANGED <<room, gone, knows, phases>>
      /\ \/ timer[p].by # p /\ UNCHANGED <<wire, stopped>>
         \/ /\ timer[p].by = p /\ Broadcast(p, Message(timer[p], TRUE))
            /\ stopped' = stopped \union {timer[p].ends}
  BY DEF Stop, Rest, Quit
<1>3. \A q \in Members : timer'[q] = IF q = p THEN Idle ELSE timer[q]
  BY <1>1, <1>2 DEF PomodoroTypeOK
<1>4. CASE timer[p].by # p /\ UNCHANGED <<wire, stopped>>
  <2>1. p \notin driving
    BY <1>1, <1>4 DEF PomodoroInv, NobodyStranded
  <2>2. driving' = driving /\ fresh' = fresh
    BY <1>1, <1>2, <2>1
  <2>3. OneSpeaks' /\ LastWordIsStop'
    <3>1. OneSpeaks'
      BY <1>4, <2>2 DEF FinalInv, OneSpeaks, Speaks
    <3>2. LastWordIsStop'
      BY <1>4, <2>2 DEF FinalInv, LastWordIsStop
    <3> QED BY <3>1, <3>2
  <2>6. FreshSpokeOnce'
    <3>1. Idle.by = 0 /\ \A s \in fresh : s # 0
      BY <1>1, MembersAre DEF Idle, Nobody
    <3> SUFFICES ASSUME NEW s \in fresh, NEW q \in Members
                 PROVE  /\ Len(wire[<<s, q>>]) <= 1
                        /\ q # s /\ timer'[q].by = s => wire[<<s, q>>] = <<>>
      BY <1>4, <2>2 DEF FreshSpokeOnce
    <3>2. /\ Len(wire[<<s, q>>]) <= 1
          /\ q # s /\ timer[q].by = s => wire[<<s, q>>] = <<>>
      BY DEF FinalInv, FreshSpokeOnce
    <3> QED BY <1>3, <3>1, <3>2
  <2>4. PhasesGoOn'
    BY <1>1, <1>2, <1>3, <1>4, <2>1, <2>2 DEF FinalInv, PhasesGoOn, Idle
  <2>5. FollowersWillHear'
    BY <1>1, <1>2, <1>3, <1>4, <2>2 DEF FinalInv, FollowersWillHear, Speaks
  <2> QED BY <2>3, <2>4, <2>5, <2>6 DEF FinalInv
<1>5. CASE /\ timer[p].by = p /\ Broadcast(p, Message(timer[p], TRUE))
           /\ stopped' = stopped \union {timer[p].ends}
  <2> DEFINE m == Message(timer[p], TRUE)
  <2>1. p \in driving /\ \A s \in Members : Speaks(s) => s = p
    BY <1>2, <1>5 DEF FinalInv, OneSpeaks, Speaks
  <2>2. driving' = {} /\ fresh' = {}
    BY <1>1, <1>2, <2>1 DEF Speaks
  <2>3. m \in Messages /\ m.stop /\ m.ends = timer[p].ends
    <3>1. timer[p] \in Snapshots
      BY <1>1 DEF PomodoroTypeOK
    <3> QED BY <1>2, <3>1, ShownIsMessage DEF Message
  <2>4. Broadcast(p, m)
    BY <1>5
  <2> HIDE DEF m
  <2>5. /\ \A s, q \in Members : s # p \/ q \notin room \ {p} =>
             wire'[<<s, q>>] = wire[<<s, q>>]
        /\ \A q \in room \ {p} :
             /\ wire'[<<p, q>>] # <<>> /\ Len(wire'[<<p, q>>]) = Len(wire[<<p, q>>]) + 1
             /\ \A i \in 1..Len(wire[<<p, q>>]) : wire'[<<p, q>>][i] = wire[<<p, q>>][i]
             /\ wire'[<<p, q>>][Len(wire[<<p, q>>]) + 1] = m
    BY <1>1, <1>2, <2>3, <2>4, SaidIs
  <2>6. ASSUME NEW s \in Members PROVE Speaks(s)' => s = p
    BY <2>1, <2>2, <2>5 DEF Speaks
  <2>7. OneSpeaks' /\ FreshSpokeOnce'
    BY <2>2, <2>6 DEF OneSpeaks, FreshSpokeOnce
  <2>8. \A q \in Members \ (room \ {p}) : wire[<<p, q>>] = <<>>
    BY <1>1 DEF PomodoroInv, WiresInRoom
  <2>9. ASSUME NEW s \in Members, NEW q \in Members, NEW i \in 1..Len(wire'[<<s, q>>])
        PROVE  /\ s = p /\ q \in room \ {p}
               /\ \/ i = Len(wire'[<<p, q>>]) /\ wire'[<<p, q>>][i] = m
                  \/ /\ i \in 1..Len(wire[<<p, q>>]) /\ i # Len(wire'[<<p, q>>])
                     /\ wire'[<<p, q>>][i] = wire[<<p, q>>][i]
    <3>1. PomodoroTypeOK'
      BY DEF PomodoroInv
    <3>2. wire'[<<s, q>>] \in Seq(Messages)
      BY <3>1 DEF PomodoroTypeOK, Pairs
    <3>3. wire'[<<s, q>>] # <<>>
      BY <3>2
    <3>4. s = p
      BY <2>6, <3>3 DEF Speaks
    <3>5. q \in room \ {p}
      BY <2>5, <2>8, <3>3, <3>4
    <3>6. Len(wire[<<p, q>>]) \in Nat
      BY <1>1, WordsAre
    <3> QED BY <2>5, <3>4, <3>5, <3>6
  <2>10. LastWordIsStop'
    <3> SUFFICES ASSUME NEW s \in Members, NEW q \in Members, NEW i \in 1..Len(wire'[<<s, q>>])
                 PROVE  wire'[<<s, q>>][i].stop <=> i = Len(wire'[<<s, q>>])
      BY <2>2 DEF LastWordIsStop
    <3>1. CASE i = Len(wire'[<<p, q>>]) /\ wire'[<<p, q>>][i] = m
      BY <2>3, <2>9, <3>1
    <3>2. CASE /\ i \in 1..Len(wire[<<p, q>>]) /\ i # Len(wire'[<<p, q>>])
               /\ wire'[<<p, q>>][i] = wire[<<p, q>>][i]
      <4>1. ~wire[<<p, q>>][i].stop
        BY <2>1, <3>2 DEF FinalInv, LastWordIsStop
      <4> QED BY <2>9, <3>2, <4>1
    <3> QED BY <2>9, <3>1, <3>2
  <2>11. PhasesGoOn'
    <3>1. timer[p].ends \in 1..phases
      <4>1. timer[p].ends \in 1..MaxPhases /\ timer[p].ends <= phases
        BY <1>1, <1>2, MembersAre DEF FinalInv, PhasesGoOn
      <4> QED BY <1>1, <4>1, PomodoroBounds
    <3>2. stopped' \subseteq 1..phases'
      BY <1>2, <1>5, <3>1 DEF FinalInv, PhasesGoOn
    <3>3. ASSUME NEW q \in Members PROVE timer'[q].ends <= phases'
      BY <1>1, <1>2, <1>3 DEF FinalInv, PhasesGoOn, Idle
    <3>4. ASSUME NEW s \in Members, NEW q \in Members, NEW i \in 1..Len(wire'[<<s, q>>])
          PROVE  wire'[<<s, q>>][i].ends <= phases'
      <4>1. s = p /\ (wire'[<<p, q>>][i] = m \/ (/\ i \in 1..Len(wire[<<p, q>>])
                                                 /\ wire'[<<p, q>>][i] = wire[<<p, q>>][i]))
        BY <2>9
      <4>2. m.ends <= phases
        BY <2>3 DEF FinalInv, PhasesGoOn
      <4> QED BY <1>2, <4>1, <4>2 DEF FinalInv, PhasesGoOn
    <3> QED BY <2>2, <3>2, <3>3, <3>4 DEF PhasesGoOn
  <2>12. FollowersWillHear'
    <3> SUFFICES ASSUME NEW q \in room, q # p, timer[q] # Idle
                 PROVE  /\ timer[q].by \in room \union gone
                        /\ timer[q].by \in room =>
                             /\ timer[q].by \in knows[q]
                             /\ wire'[<<timer[q].by, q>>] # <<>>
                        /\ timer[q].by \notin room =>
                             \A s \in Members : Speaks(s)' =>
                               s < q /\ s \in knows[q] /\ wire'[<<s, q>>] # <<>>
                        /\ \E s \in Members : wire'[<<s, q>>] # <<>>
      BY <1>1, <1>2, <1>3, <2>2 DEF FollowersWillHear
    <3>1. q \in Members /\ timer[q].by \in Members /\ wire'[<<p, q>>] # <<>> /\ q \notin driving
      BY <1>1, <2>1, <2>5, MembersAre DEF Speaks
    <3>2. /\ timer[q].by \in room \union gone
          /\ timer[q].by \in room =>
               /\ timer[q].by \in knows[q]
               /\ timer[q].by \in driving \/ wire[<<timer[q].by, q>>] # <<>>
          /\ timer[q].by \notin room =>
               \A s \in Members : Speaks(s) => s < q /\ s \in knows[q] /\ wire[<<s, q>>] # <<>>
      BY <3>1 DEF FinalInv, FollowersWillHear
    <3>3. timer[q].by \in room => timer[q].by = p
      BY <2>1, <3>1, <3>2 DEF Speaks
    <3>4. Speaks(p)
      BY <2>1 DEF Speaks
    <3> QED BY <2>6, <3>1, <3>2, <3>3, <3>4
  <2> QED BY <2>7, <2>10, <2>11, <2>12 DEF FinalInv
<1> QED BY <1>2, <1>4, <1>5

(* The one that takes over stands first of those in the room, and nobody    *)
(* speaks.                                                                  *)
LEMMA NextIsFirst ==
  ASSUME PomodoroTypeOK, NEW p \in room, NextDriver(p) = p,
         NEW q \in Members, q \in knows[p], q # timer[p].by, p # timer[p].by
  PROVE  p <= q
<1> DEFINE S == ({p} \union knows[p]) \ {timer[p].by}
<1>1. S \in SUBSET Nat /\ S # {} /\ p \in S /\ q \in S
  BY MembersAssumption DEF PomodoroTypeOK
<1>2. \E n \in S : \A k \in S : n <= k
  BY <1>1, LeastNatural
<1>3. NextDriver(p) = CHOOSE n \in S : \A k \in S : n <= k
  BY DEF NextDriver, Min
<1> HIDE DEF S
<1>4. \A k \in S : p <= k
  BY <1>2, <1>3
<1> QED BY <1>1, <1>4

(* Only the first of those that follow one who left takes over.             *)
LEMMA SilenceKeeps ==
  ASSUME FinalInv, PomodoroInv', ~SlowNetwork, NEW p \in Members, SilenceExpires(p)
  PROVE  FinalInv'
<1> DEFINE d == timer[p].by
           m == Message(timer[p], FALSE)
<1>1. PomodoroInv /\ PomodoroTypeOK /\ room \subseteq Members /\ driving \subseteq room
      /\ fresh \subseteq driving
  BY DEF FinalInv, PomodoroInv, PomodoroTypeOK
<1>2. /\ p \in silence /\ (\A q \in Members : wire[<<p, q>>] = <<>>)
      /\ d \notin driving \ fresh /\ (d \in fresh <=> wire[<<d, p>>] # <<>>)
      /\ \A q \in room \ {p} : q \in knows[p] /\ p \in knows[q]
      /\ UNCHANGED <<room, gone, knows, phases, stopped>>
  BY DEF SilenceExpires, Silent, Heard
<1>3. /\ p \in room /\ p \notin driving /\ timer[p] # Idle /\ d # p /\ d \in Members
  BY <1>1, <1>2, MembersAre DEF PomodoroInv, PomodoroTypeOK, NobodyStranded
<1>4. ~Speaks(p)
  BY <1>2, <1>3 DEF Speaks
<1>5. /\ d \in room => d \in driving \/ wire[<<d, p>>] # <<>>
      /\ d \notin room =>
           \A s \in Members : Speaks(s) => s < p /\ s \in knows[p] /\ wire[<<s, p>>] # <<>>
      /\ timer[p].ends \in stopped => \E s \in Members \ driving : wire[<<s, p>>] # <<>>
  BY <1>3 DEF FinalInv, FollowersWillHear
<1>6. CASE NextDriver(p) # p
  <2>1. UNCHANGED <<timer, driving, fresh, silence, wire>>
    BY <1>6 DEF SilenceExpires
  <2>2. \A q \in Members : knows[q] \subseteq knows'[q]
    BY <1>2
  <2> QED BY <1>2, <2>1, <2>2, QuietKeeps
<1>7. CASE NextDriver(p) = p
  <2>1. /\ timer' = [timer EXCEPT ![p].by = p] /\ Broadcast(p, m)
        /\ driving' = driving \union {p} /\ fresh' = fresh \union {p}
    BY <1>7 DEF SilenceExpires, Drive
  <2>2. m \in Messages /\ ~m.stop /\ m.ends = timer[p].ends
    <3>1. timer[p] \in Snapshots
      BY <1>1 DEF PomodoroTypeOK
    <3> QED BY <1>3, <3>1, ShownIsMessage DEF Message
  <2>3. d \notin room
    <3> SUFFICES ASSUME d \in room PROVE FALSE
      OBVIOUS
    <3>1. d \in driving \/ wire[<<d, p>>] # <<>>
      BY <1>5
    <3>2. d \in fresh /\ wire[<<d, p>>] # <<>>
      BY <1>1, <1>2, <3>1
    <3> QED BY <1>3, <3>2 DEF FinalInv, FreshSpokeOnce
  <2>4. \A s \in Members : ~Speaks(s)
    <3> SUFFICES ASSUME NEW s \in Members, Speaks(s) PROVE FALSE
      OBVIOUS
    <3>1. s < p /\ s \in knows[p]
      BY <1>5, <2>3
    <3>2. s \in room
      BY <1>1 DEF Speaks, PomodoroInv, WiresInRoom
    <3>3. p <= s
      BY <1>1, <1>3, <1>7, <2>3, <3>1, <3>2, NextIsFirst
    <3>4. p \in Nat /\ s \in Nat
      BY MembersAssumption
    <3> QED BY <3>1, <3>3, <3>4
  <2>5. ASSUME NEW q \in room \ {p}, timer[q] # Idle
        PROVE  timer[q].by \notin room /\ p < q /\ p \in knows[q]
    <3>1. q \in Members /\ timer[q].by \in Members /\ q \notin driving
      BY <1>1, <2>4, <2>5, MembersAre DEF Speaks
    <3>2. timer[q].by \notin room
      BY <2>4, <2>5, <3>1 DEF FinalInv, FollowersWillHear, Speaks
    <3>3. p <= q
      BY <1>1, <1>2, <1>3, <1>7, <2>3, <3>1, NextIsFirst
    <3>4. p \in Nat /\ q \in Nat
      BY <3>1, MembersAssumption
    <3> QED BY <1>2, <3>2, <3>3, <3>4
  <2>6. timer[p].ends \notin stopped
    BY <1>5, <2>4 DEF Speaks
  <2>7. /\ timer'[p].ends = timer[p].ends
        /\ \A q \in Members \ {p} : timer'[q] = timer[q]
    <3>1. timer[p] \in [phase : Phases, ends : 1..MaxPhases, by : Members]
      BY <1>1, <1>3, ShownIsMessage DEF PomodoroTypeOK
    <3> QED BY <1>1, <2>1, <3>1 DEF PomodoroTypeOK
  <2>8. timer[p].ends <= phases /\ phases <= phases'
    <3>1. phases \in Nat
      BY <1>1, MembersAre
    <3> QED BY <1>2, <3>1 DEF FinalInv, PhasesGoOn
  <2> HIDE DEF m
  <2> QED BY <1>2, <1>3, <2>1, <2>2, <2>4, <2>5, <2>6, <2>7, <2>8, SaysKeeps
<1> QED BY <1>6, <1>7

(* A word is ignored, believed or the last.                                 *)
LEMMA ReceiveKeeps ==
  ASSUME FinalInv, PomodoroInv', NEW p \in Members, NEW q \in Members, Receive(p, q)
  PROVE  FinalInv'
<1> DEFINE w == wire[<<q, p>>]
           w1 == wire'[<<q, p>>]
           m == Head(w)
           t == [phase |-> m.phase, ends |-> m.ends, by |-> q]
<1>1. PomodoroInv /\ PomodoroTypeOK /\ room \subseteq Members /\ driving \subseteq room
      /\ fresh \subseteq driving /\ silence \subseteq room
  BY DEF FinalInv, PomodoroInv, PomodoroTypeOK
<1>2. /\ w # <<>> /\ wire' = [wire EXCEPT ![<<q, p>>] = Tail(@)]
      /\ \/ q \notin knows[p] /\ UNCHANGED <<timer, driving, fresh>>
         \/ /\ q \in knows[p] /\ m.stop /\ timer' = [timer EXCEPT ![p] = Idle]
            /\ driving' = driving \ {p} /\ fresh' = fresh \ {p}
         \/ /\ q \in knows[p] /\ ~m.stop /\ timer' = [timer EXCEPT ![p] = t]
            /\ driving' = driving \ {p} /\ fresh' = fresh \ {p}
      /\ UNCHANGED <<room, gone, knows, phases, stopped>>
  BY DEF Receive, Rest, Watch, Quit
<1>3. /\ \A s, r \in Members : s # q \/ r # p => wire'[<<s, r>>] = wire[<<s, r>>]
      /\ w1 = Tail(w) /\ w \in Seq(Messages)
  BY <1>1, <1>2 DEF PomodoroTypeOK, Pairs
<1>4. /\ Len(w1) \in Nat /\ Len(w) = Len(w1) + 1 /\ (w1 # <<>> <=> Len(w1) > 0) /\ m = w[1]
      /\ \A i \in 1..Len(w1) : w1[i] = w[i + 1]
  <2>1. w # <<>> /\ w1 = Tail(w) /\ w \in Seq(Messages) /\ m = Head(w)
    BY <1>2, <1>3
  <2> HIDE DEF w, w1, m
  <2>2. /\ w1 \in Seq(Messages) /\ Len(w1) = Len(w) - 1 /\ m = w[1]
        /\ \A i \in 1..Len(w1) : w1[i] = w[i + 1]
    BY <2>1, HeadTailProperties
  <2>3. Len(w) \in Nat /\ Len(w1) \in Nat
    BY <2>1, <2>2
  <2>4. w1 # <<>> <=> Len(w1) > 0
    BY <2>2, <2>3
  <2> QED BY <2>2, <2>3, <2>4
<1>5. /\ p # q /\ p \in room /\ q \in room /\ Speaks(q)
      /\ \A s \in Members : Speaks(s) => s = q
  BY <1>1, <1>2 DEF Speaks, PomodoroInv, WiresInRoom, FinalInv, OneSpeaks
<1>6. p \notin driving
  BY <1>5 DEF Speaks
<1>7. driving' = driving /\ fresh' = fresh
  BY <1>1, <1>2, <1>6
<1>8. \A i \in 1..Len(w) :
        /\ w[i].stop <=> q \notin driving /\ i = Len(w)
        /\ w[i].ends <= phases
        /\ q \in driving => w[i].ends \notin stopped
  BY DEF FinalInv, LastWordIsStop, PhasesGoOn
<1> HIDE DEF w, w1, m, t
<1>9. \A s, r \in Members : \A i \in 1..Len(wire'[<<s, r>>]) :
        \/ s = q /\ r = p /\ wire'[<<s, r>>] = w1 /\ wire[<<s, r>>] = w
        \/ wire'[<<s, r>>] = wire[<<s, r>>]
  BY <1>3 DEF w, w1
<1>10. ASSUME NEW s \in Members PROVE Speaks(s)' => s = q
  <2>1. \A r \in Members : wire'[<<s, r>>] # <<>> => wire[<<s, r>>] # <<>>
    BY <1>2, <1>3 DEF w
  <2> QED BY <1>5, <1>7, <2>1 DEF Speaks
<1>11. OneSpeaks'
  BY <1>10 DEF OneSpeaks
<1>12. LastWordIsStop'
  <2> SUFFICES ASSUME NEW s \in Members, NEW r \in Members, NEW i \in 1..Len(wire'[<<s, r>>])
               PROVE  wire'[<<s, r>>][i].stop <=> s \notin driving /\ i = Len(wire'[<<s, r>>])
    BY <1>7 DEF LastWordIsStop
  <2>1. CASE wire'[<<s, r>>] = wire[<<s, r>>]
    BY <2>1 DEF FinalInv, LastWordIsStop
  <2>2. CASE s = q /\ wire'[<<s, r>>] = w1
    <3>1. i + 1 \in 1..Len(w) /\ w1[i] = w[i + 1] /\ (i + 1 = Len(w) <=> i = Len(w1))
      BY <1>4, <2>2
    <3> QED BY <1>8, <2>2, <3>1
  <2> QED BY <1>9, <2>1, <2>2
<1>13. m.ends <= phases /\ (q \in driving => m.ends \notin stopped) /\ m.ends \in 1..MaxPhases
  <2>1. 1 \in 1..Len(w)
    BY <1>4
  <2>2. w[1].ends \in 1..MaxPhases
    BY <1>1, <2>1, WordsAre DEF w
  <2> QED BY <1>4, <1>8, <2>1, <2>2
<1>14. ASSUME NEW r \in Members
       PROVE  /\ r # p => timer'[r] = timer[r]
              /\ timer'[p] = timer[p] \/ timer'[p] = Idle \/ timer'[p] = t
  BY <1>1, <1>2 DEF PomodoroTypeOK, m, t
<1>15. t.by = q /\ t.ends = m.ends
  BY DEF t
<1>16. PhasesGoOn'
  <2>1. ASSUME NEW r \in Members PROVE timer'[r].ends <= phases
    <3>1. Idle.ends <= phases
      BY PomodoroBounds, <1>1 DEF PomodoroTypeOK, Idle
    <3> QED BY <1>13, <1>14, <1>15, <3>1 DEF FinalInv, PhasesGoOn
  <2>2. ASSUME NEW r \in driving PROVE timer'[r].ends \notin stopped
    BY <1>1, <1>6, <1>14 DEF FinalInv, PhasesGoOn
  <2>3. ASSUME NEW s \in Members, NEW r \in Members, NEW i \in 1..Len(wire'[<<s, r>>])
        PROVE  /\ wire'[<<s, r>>][i].ends <= phases
               /\ s \in driving => wire'[<<s, r>>][i].ends \notin stopped
    <3>1. CASE wire'[<<s, r>>] = wire[<<s, r>>]
      BY <2>3, <3>1 DEF FinalInv, PhasesGoOn
    <3>2. CASE s = q /\ wire'[<<s, r>>] = w1
      <4>1. i + 1 \in 1..Len(w) /\ w1[i] = w[i + 1]
        BY <1>4, <2>3, <3>2
      <4> QED BY <1>8, <3>2, <4>1
    <3> QED BY <1>9, <2>3, <3>1, <3>2
  <2>4. stopped \subseteq 1..phases
    BY DEF FinalInv, PhasesGoOn
  <2>5. stopped' = stopped /\ phases' = phases /\ driving' = driving
    BY <1>2, <1>7
  <2> QED BY <2>1, <2>2, <2>3, <2>4, <2>5 DEF PhasesGoOn
<1>17. FreshSpokeOnce'
  <2> SUFFICES ASSUME NEW s \in fresh, NEW r \in Members
               PROVE  /\ Len(wire'[<<s, r>>]) <= 1
                      /\ r # s /\ timer'[r].by = s => wire'[<<s, r>>] = <<>>
    BY <1>7 DEF FreshSpokeOnce
  <2>1. /\ s \in Members /\ Len(wire[<<s, r>>]) <= 1
        /\ r # s /\ timer[r].by = s => wire[<<s, r>>] = <<>>
    BY <1>1 DEF FinalInv, FreshSpokeOnce
  <2>4. s = q
    BY <1>5, <1>1, <2>1 DEF Speaks
  <2>2. CASE r = p
    <3>1. Len(w1) = 0
      BY <1>4, <2>1, <2>2, <2>4 DEF w
    <3> QED BY <1>4, <2>2, <2>4, <3>1 DEF w1
  <2>3. CASE r # p
    BY <1>3, <1>14, <2>1, <2>3
  <2> QED BY <2>2, <2>3

<1>18. FollowersWillHear'
  <2> SUFFICES ASSUME NEW r \in room, r \notin driving, timer'[r] # Idle
               PROVE  /\ timer'[r].by \in room \union gone
                      /\ timer'[r].by \in room =>
                           /\ timer'[r].by \in knows[r]
                           /\ timer'[r].by \in driving \/ wire'[<<timer'[r].by, r>>] # <<>>
                      /\ timer'[r].by \notin room =>
                           \A s \in Members : Speaks(s)' =>
                             s < r /\ s \in knows[r] /\ wire'[<<s, r>>] # <<>>
                      /\ timer'[r].ends \in stopped =>
                           \E s \in Members \ driving : wire'[<<s, r>>] # <<>>
    BY <1>2, <1>7 DEF FollowersWillHear
  <2>1. r \in Members
    BY <1>1
  <2>2. timer[r] # Idle =>
          /\ timer[r].by \in room \union gone
          /\ timer[r].by \in room =>
               /\ timer[r].by \in knows[r]
               /\ timer[r].by \in driving \/ wire[<<timer[r].by, r>>] # <<>>
          /\ timer[r].by \notin room =>
               \A s \in Members : Speaks(s) => s < r /\ s \in knows[r] /\ wire[<<s, r>>] # <<>>
          /\ timer[r].ends \in stopped => \E s \in Members \ driving : wire[<<s, r>>] # <<>>
    BY DEF FinalInv, FollowersWillHear
  <2>3. CASE r # p
    <3>1. timer'[r] = timer[r] /\ \A s \in Members : wire'[<<s, r>>] = wire[<<s, r>>]
      BY <1>3, <1>14, <2>1, <2>3
    <3>2. timer[r].by \in Members
      BY <1>1, <2>1, <3>1, MembersAre
    <3> QED BY <1>5, <1>10, <2>2, <3>1, <3>2
  <2>4. CASE r = p /\ q \notin knows[p]
    <3>1. timer' = timer
      BY <1>2, <2>4
    <3>2. timer[p].by \in Members
      BY <1>1, <2>1, <2>4, <3>1, MembersAre
    <3>3. timer[p].by \in room
      BY <1>5, <2>1, <2>2, <2>4, <3>1
    <3>4. timer[p].by # q
      BY <2>2, <2>4, <3>1, <3>3
    <3> QED BY <1>5, <2>2, <2>4, <3>1, <3>2, <3>3, <3>4 DEF Speaks
  <2>5. CASE r = p /\ q \in knows[p]
    <3>1. timer'[p] = t /\ ~m.stop
      BY <1>1, <1>2, <2>5 DEF PomodoroTypeOK
    <3>2. q \in driving \/ w1 # <<>>
      <4>1. 1 \in 1..Len(w)
        BY <1>4
      <4> QED BY <1>4, <1>8, <3>1, <4>1
    <3>3. wire'[<<q, p>>] = w1
      BY DEF w1
    <3>4. q \in Members
      OBVIOUS
    <3> QED BY <1>5, <1>13, <1>15, <2>5, <3>1, <3>2, <3>3, <3>4
  <2> QED BY <2>3, <2>4, <2>5
<1> QED BY <1>11, <1>12, <1>16, <1>17, <1>18 DEF FinalInv

(* Every step keeps it.                                                     *)
LEMMA FinalKeeps ==
  ASSUME FinalInv, Orderly, ~SlowNetwork, [Next]_vars
  PROVE  FinalInv'
<1>1. PomodoroInv'
  BY PomodoroInvNext DEF FinalInv
<1>2. CASE UNCHANGED vars
  BY <1>1, <1>2, QuietKeeps DEF vars
<1>3. ASSUME NEW p \in Members,
             Enters(p) \/ Leaves(p) \/ Start(p) \/ Stop(p) \/ Tick(p) \/ Advance(p)
               \/ SilenceExpires(p)
      PROVE  FinalInv'
  BY <1>1, <1>3, EntersKeeps, LeavesKeeps, BeginsKeeps, StopsKeeps, GoesOnKeeps, SilenceKeeps
<1>4. ASSUME NEW p \in Members, NEW q \in Members, Hello(p, q) \/ Receive(p, q)
      PROVE  FinalInv'
  BY <1>1, <1>4, HelloKeeps, ReceiveKeeps
<1> QED BY <1>2, <1>3, <1>4 DEF Next

(* Property: a timer its driver stopped stays stopped, for any members,     *)
(* phases, departures and orders of delivery, as long as members act one at *)
(* a time and nobody takes a driver for silent that is not (pomodoro.ts:    *)
(* stop, onSilenceExpired).                                                 *)
THEOREM StopIsAlwaysFinal ==
  ASSUME Orderly, ~SlowNetwork
  PROVE  Spec => []StopIsFinal
<1>1. Init => FinalInv
  BY FinalStart
<1>2. FinalInv /\ [Next]_vars => FinalInv'
  BY FinalKeeps
<1>3. FinalInv => StopIsFinal
  BY FinalSound
<1> QED BY <1>1, <1>2, <1>3, PTL DEF Spec

----------------------------------------------------------------------------
(* The breaks. The rules are asked of the store, not of the history they   *)
(* are about: the invariant says what the store remembers of it.           *)

Requests == [stint : Nat \ {0}, at : Nat, wish : Nat, advice : BOOLEAN,
             step : {"queued", "audit", "verdict"}]
Taken == [from : Nat, to : Nat]

BreaksTypeOK ==
  /\ bkStint \in Nat /\ bkStints \in Nat /\ bkClock \in Nat \ {0}
  /\ bkStore \in [onBreak : BOOLEAN, endsAt : Nat, lastEnd : Nat, count : Nat]
  /\ bkTimer \in SUBSET Nat
  /\ bkQueue \in Seq(Requests) /\ bkHistory \in Seq(Taken)

(* The store remembers of the breaks what the rules ask: how many there     *)
(* were, whether the last one lasts, and when it ended otherwise.           *)
StoreRemembers ==
  /\ bkStore.count = Len(bkHistory)
  /\ \A i \in DOMAIN bkHistory :
       bkHistory[i].to = 0 <=> bkStore.onBreak /\ i = Len(bkHistory)
  /\ bkHistory # <<>> /\ ~bkStore.onBreak
       => bkStore.lastEnd = bkHistory[Len(bkHistory)].to

(* A request waits for its audit: it was made before.                       *)
AskedBefore == \A i \in DOMAIN bkQueue : bkQueue[i].at <= bkClock

BreaksInv ==
  BreaksTypeOK /\ StoreRemembers /\ AskedBefore /\ BreakIsTimed /\ RulesHold

LEMMA Limits ==
  /\ MaxBreaks \in Nat /\ MinInterval \in Nat \ {0} /\ MaxDuration \in Nat \ {0}
  /\ Wishes \in SUBSET Nat
BY BreaksAssumption

LEMMA BreaksInvInit == BreaksInit => BreaksInv
BY BreaksAssumption DEF BreaksInit, BreaksInv, BreaksTypeOK, StoreRemembers, AskedBefore,
     BreakIsTimed, RulesHold, NoBreak, Requests, Taken

LEMMA SessionKeeps ==
  ASSUME BreaksInv, SessionStarts \/ SessionEnds PROVE BreaksInv'
<1> USE DEF BreaksInv, BreaksTypeOK, StoreRemembers, AskedBefore, BreakIsTimed, RulesHold
<1>1. CASE SessionStarts
  <2>1. /\ NoBreak \in [onBreak : BOOLEAN, endsAt : Nat, lastEnd : Nat, count : Nat]
        /\ NoBreak.onBreak = FALSE /\ NoBreak.count = 0
    BY DEF NoBreak
  <2>2. /\ bkStint' = bkStints + 1 /\ bkStints' = bkStints + 1
        /\ bkStore' = NoBreak /\ bkHistory' = <<>> /\ bkStint = 0
        /\ UNCHANGED <<bkTimer, bkQueue, bkClock>>
    BY <1>1 DEF SessionStarts
  <2>3. bkTimer = {} /\ 0 <= MaxBreaks
    BY <2>2, Limits
  <2> QED BY <2>1, <2>2, <2>3
<1>2. CASE SessionEnds
  BY <1>2 DEF SessionEnds, TimerCancelled
<1> QED BY <1>1, <1>2

(* Steps of the queue that leave the store alone.                           *)
LEMMA QueueKeeps ==
  ASSUME BreaksInv, UNCHANGED <<bkStint, bkStore, bkTimer, bkClock, bkStints, bkHistory>>,
         bkQueue' \in Seq(Requests), \A i \in DOMAIN bkQueue' : bkQueue'[i].at <= bkClock
  PROVE  BreaksInv'
BY DEF BreaksInv, BreaksTypeOK, StoreRemembers, AskedBefore, BreakIsTimed, RulesHold

LEMMA BreakAskedKeeps ==
  ASSUME BreaksInv, NEW wish \in Wishes, NEW advice \in BOOLEAN, BreakAsked(wish, advice)
  PROVE  BreaksInv'
<1> DEFINE r == [stint |-> bkStint, at |-> bkClock, wish |-> wish, advice |-> advice,
                 step |-> "queued"]
<1>1. wish \in Nat
  BY BreaksAssumption
<1>2. r \in Requests /\ r.at = bkClock /\ bkClock \in Nat
  <2>1. bkStint \in Nat \ {0} /\ bkClock \in Nat
    BY DEF BreaksInv, BreaksTypeOK, BreakAsked
  <2> QED BY <1>1, <2>1 DEF Requests
<1>3. bkQueue' = Append(bkQueue, r)
  BY DEF BreakAsked
<1> HIDE DEF r
<1>4. bkQueue' \in Seq(Requests) /\ \A i \in DOMAIN bkQueue' : bkQueue'[i].at <= bkClock
  BY <1>2, <1>3 DEF BreaksInv, BreaksTypeOK, AskedBefore
<1> QED BY <1>4, QueueKeeps DEF BreakAsked

(* The head of the queue goes on, or settles.                               *)
LEMMA QueueMoves ==
  ASSUME BreaksInv, NEW step \in {"audit", "verdict"}, bkQueue # <<>>,
         Dequeues \/ Waits(step)
  PROVE  /\ bkQueue' \in Seq(Requests)
         /\ \A i \in DOMAIN bkQueue' : bkQueue'[i].at <= bkClock
<1>1. bkQueue \in Seq(Requests) /\ AskedBefore
  BY DEF BreaksInv, BreaksTypeOK
<1>2. CASE Dequeues
  BY <1>1, <1>2 DEF Dequeues, AskedBefore
<1>3. CASE Waits(step)
  <2> DEFINE r == [bkQueue[1] EXCEPT !.step = step]
  <2>1. bkQueue[1] \in Requests /\ bkQueue[1].at <= bkClock
    BY <1>1 DEF AskedBefore
  <2>2. r \in Requests /\ r.at <= bkClock
    BY <2>1 DEF Requests
  <2>3. bkQueue' = [bkQueue EXCEPT ![1] = r]
    BY <1>3 DEF Waits
  <2> HIDE DEF r
  <2> QED BY <1>1, <2>2, <2>3 DEF AskedBefore
<1> QED BY <1>2, <1>3

(* An approved break is another one, apart from the last, with its timer.   *)
LEMMA ApprovedKeeps ==
  ASSUME BreaksInv, NEW r \in Requests, r.at <= bkClock, ~Aborted(r), bkStint # 0,
         RulesAllow(r), Approved(r), bkQueue' \in Seq(Requests),
         \A i \in DOMAIN bkQueue' : bkQueue'[i].at <= bkClock,
         UNCHANGED <<bkStint, bkClock, bkStints>>
  PROVE  BreaksInv'
<1> USE DEF BreaksInv
<1> DEFINE b == [from |-> bkClock, to |-> 0]
           ends == bkClock + Duration(r)
<1>1. bkClock \in Nat \ {0} /\ ends \in Nat
  <2>1. r.wish \in Nat
    BY DEF Requests
  <2> QED BY <2>1, Limits DEF BreaksTypeOK, Duration
<1>2. b \in Taken /\ b.from = bkClock /\ b.to = 0
  BY <1>1 DEF Taken
<1>3. /\ bkStore.onBreak = FALSE /\ bkStore.count < MaxBreaks
      /\ bkStore.lastEnd # 0 => bkClock - bkStore.lastEnd >= MinInterval
      /\ bkStore.count \in Nat /\ bkStore.lastEnd \in Nat
  <2>1. /\ bkStore.onBreak \in BOOLEAN /\ bkStore.lastEnd \in Nat
        /\ bkStore.count \in Nat /\ r.at \in Nat
    BY DEF BreaksTypeOK, Requests
  <2>2. bkStore.onBreak = FALSE /\ bkStore.count < MaxBreaks
    BY <2>1 DEF RulesAllow
  <2>3. bkStore.lastEnd # 0 => bkClock - bkStore.lastEnd >= MinInterval
    BY <1>1, <2>1, Limits DEF RulesAllow
  <2> QED BY <2>1, <2>2, <2>3
<1>4. /\ bkStore' \in [onBreak : BOOLEAN, endsAt : Nat, lastEnd : Nat, count : Nat]
      /\ bkStore'.onBreak = TRUE /\ bkStore'.count = bkStore.count + 1
      /\ bkStore'.endsAt = ends
  <2>1. bkStore \in [onBreak : BOOLEAN, endsAt : Nat, lastEnd : Nat, count : Nat]
    BY DEF BreaksTypeOK
  <2>2. bkStore' = [bkStore EXCEPT !.onBreak = TRUE, !.count = @ + 1, !.endsAt = ends]
    BY DEF Approved
  <2>3. bkStore.count + 1 \in Nat
    BY <1>3
  <2> HIDE DEF ends
  <2> QED BY ONLY <1>1, <2>1, <2>2, <2>3
<1>5. bkTimer' = {ends} /\ bkHistory' = Append(bkHistory, b)
  BY DEF Approved
<1> HIDE DEF b, ends
<1>6. /\ Len(bkHistory') = Len(bkHistory) + 1 /\ bkHistory' \in Seq(Taken)
      /\ bkHistory'[Len(bkHistory) + 1] = b
      /\ \A i \in 1..Len(bkHistory) : bkHistory'[i] = bkHistory[i]
      /\ Len(bkHistory) \in Nat
  BY <1>2, <1>5 DEF BreaksTypeOK
<1>7. BreaksTypeOK' /\ AskedBefore' /\ BreakIsTimed'
  BY <1>1, <1>4, <1>5, <1>6 DEF BreaksTypeOK, AskedBefore, BreakIsTimed
<1>8. \A i \in 1..Len(bkHistory) : bkHistory[i].to # 0
  BY <1>3 DEF StoreRemembers
<1>9. StoreRemembers'
  BY <1>2, <1>4, <1>6, <1>8 DEF StoreRemembers
<1>10. RulesHold'
  <2>1. Len(bkHistory') <= MaxBreaks
    BY Limits, <1>3, <1>6 DEF StoreRemembers
  <2>2. ASSUME NEW i \in 1..Len(bkHistory'), i > 1
        PROVE  /\ bkHistory'[i-1].to # 0
               /\ bkHistory'[i].from - bkHistory'[i-1].to >= MinInterval
    <3>1. CASE i <= Len(bkHistory)
      <4>1. i \in 1..Len(bkHistory) /\ i - 1 \in 1..Len(bkHistory)
        BY <1>6, <2>2, <3>1
      <4>2. bkHistory'[i] = bkHistory[i] /\ bkHistory'[i-1] = bkHistory[i-1]
        BY <1>6, <4>1
      <4> QED BY <2>2, <4>1, <4>2 DEF RulesHold, BreaksTypeOK
    <3>2. CASE i = Len(bkHistory) + 1
      <4>1. i - 1 \in 1..Len(bkHistory) /\ i - 1 = Len(bkHistory)
        BY <1>6, <2>2, <3>2
      <4>2. bkHistory'[i-1] = bkHistory[Len(bkHistory)] /\ bkHistory'[i] = b
        BY <1>6, <3>2, <4>1
      <4>3. bkStore.lastEnd = bkHistory[Len(bkHistory)].to
        BY <1>3, <1>6, <4>1 DEF StoreRemembers
      <4> QED BY <1>2, <1>3, <1>8, <4>1, <4>2, <4>3
    <3> QED BY <1>6, <2>2, <3>1, <3>2
  <2> QED BY <2>1, <2>2, <1>6 DEF RulesHold
<1> QED BY <1>7, <1>9, <1>10

LEMMA DecidesKeeps ==
  ASSUME BreaksInv, Decides PROVE BreaksInv'
<1> DEFINE r == Head(bkQueue)
<1>1. /\ bkQueue # <<>> /\ r.step = "audit"
      /\ UNCHANGED <<bkStint, bkClock, bkStints>>
      /\ Dequeues \/ Waits("verdict")
  BY DEF Decides, Runs
<1>2. r \in Requests /\ r.at <= bkClock
  <2>1. bkQueue \in Seq(Requests) /\ AskedBefore
    BY DEF BreaksInv, BreaksTypeOK
  <2>2. r = bkQueue[1] /\ 1 \in DOMAIN bkQueue
    BY <1>1, <2>1
  <2> QED BY <2>1, <2>2 DEF AskedBefore
<1>3. /\ bkQueue' \in Seq(Requests)
      /\ \A i \in DOMAIN bkQueue' : bkQueue'[i].at <= bkClock
  BY <1>1, QueueMoves
<1>4. CASE UNCHANGED <<bkStore, bkTimer, bkHistory>>
  BY <1>1, <1>3, <1>4, QueueKeeps
<1>5. CASE ~Aborted(r) /\ RulesAllow(r) /\ Approved(r)
  <2>1. bkStint # 0
    BY <1>2, <1>5 DEF Aborted, Requests
  <2> QED BY <1>1, <1>2, <1>3, <1>5, <2>1, ApprovedKeeps
<1> QED BY <1>4, <1>5 DEF Decides

(* The deadline: the last break, and it alone, ends now.                    *)
LEMMA BreakEndsKeeps ==
  ASSUME BreaksInv, BreakEnds PROVE BreaksInv'
<1> USE DEF BreaksInv
<1>1. /\ bkTimer # {} /\ bkTimer' = {}
      /\ UNCHANGED <<bkStint, bkQueue, bkClock, bkStints>>
      /\ bkStore' = [bkStore EXCEPT !.onBreak = FALSE, !.endsAt = 0, !.lastEnd = bkClock]
      /\ bkHistory' = [i \in DOMAIN bkHistory |->
           IF bkHistory[i].to = 0 THEN [bkHistory[i] EXCEPT !.to = bkClock]
                                  ELSE bkHistory[i]]
  BY DEF BreakEnds
<1>2. bkStore.onBreak = TRUE /\ bkClock \in Nat \ {0}
  BY <1>1 DEF BreakIsTimed, BreaksTypeOK
<1>3. /\ bkStore' \in [onBreak : BOOLEAN, endsAt : Nat, lastEnd : Nat, count : Nat]
      /\ bkStore'.onBreak = FALSE /\ bkStore'.count = bkStore.count
      /\ bkStore'.lastEnd = bkClock
  BY <1>1, <1>2 DEF BreaksTypeOK
<1>4. /\ bkHistory' \in Seq(Taken) /\ Len(bkHistory') = Len(bkHistory)
      /\ \A i \in 1..Len(bkHistory) :
           /\ bkHistory'[i].from = bkHistory[i].from
           /\ bkHistory'[i].to = IF bkHistory[i].to = 0 THEN bkClock ELSE bkHistory[i].to
  <2>1. bkHistory \in Seq(Taken)
    BY DEF BreaksTypeOK
  <2>2. \A i \in 1..Len(bkHistory) :
          LET b == [bkHistory[i] EXCEPT !.to = bkClock]
          IN  b \in Taken /\ b.from = bkHistory[i].from /\ b.to = bkClock
    <3> TAKE i \in 1..Len(bkHistory)
    <3>1. bkHistory[i] \in Taken
      BY <2>1
    <3> QED BY <1>2, <3>1 DEF Taken
  <2>3. \A i \in 1..Len(bkHistory) :
          bkHistory'[i] = IF bkHistory[i].to = 0 THEN [bkHistory[i] EXCEPT !.to = bkClock]
                                                 ELSE bkHistory[i]
    BY <1>1, <2>1
  <2>4. ASSUME NEW i \in 1..Len(bkHistory) PROVE bkHistory'[i] \in Taken
    <3>1. bkHistory[i] \in Taken
      BY <2>1
    <3> QED BY <2>2, <2>3, <3>1
  <2>5. DOMAIN bkHistory' = 1..Len(bkHistory)
    BY <1>1, <2>1
  <2> QED BY <1>1, <2>1, <2>2, <2>3, <2>4, <2>5
<1>5. BreaksTypeOK' /\ AskedBefore' /\ BreakIsTimed'
  BY <1>1, <1>3, <1>4 DEF BreaksTypeOK, AskedBefore, BreakIsTimed
<1>6. /\ \A i \in 1..Len(bkHistory) : bkHistory[i].to = 0 <=> i = Len(bkHistory)
      /\ Len(bkHistory) \in Nat
  BY <1>2 DEF StoreRemembers, BreaksTypeOK
<1>7. StoreRemembers'
  <2>1. bkHistory' # <<>> => bkHistory'[Len(bkHistory')].to = bkClock
    <3>1. SUFFICES ASSUME bkHistory' # <<>>
                   PROVE  bkHistory'[Len(bkHistory)].to = bkClock
      BY <1>4
    <3>2. Len(bkHistory) \in 1..Len(bkHistory)
      BY <1>4, <1>6, <3>1
    <3> QED BY <1>4, <1>6, <3>2
  <2>2. \A i \in 1..Len(bkHistory) : bkHistory'[i].to # 0
    BY <1>2, <1>4
  <2>3. bkStore'.count = Len(bkHistory')
    BY <1>3, <1>4 DEF StoreRemembers
  <2>4. DOMAIN bkHistory' = 1..Len(bkHistory)
    BY <1>4
  <2> QED BY <1>3, <2>1, <2>2, <2>3, <2>4 DEF StoreRemembers
<1>8. RulesHold'
  <2>1. ASSUME NEW i \in 1..Len(bkHistory), i > 1
        PROVE  /\ bkHistory'[i-1].to # 0
               /\ bkHistory'[i].from - bkHistory'[i-1].to >= MinInterval
    <3>1. i - 1 \in 1..Len(bkHistory)
      BY <1>6, <2>1
    <3>2. /\ bkHistory[i-1].to # 0
          /\ bkHistory[i].from - bkHistory[i-1].to >= MinInterval
      BY <2>1 DEF RulesHold, BreaksTypeOK
    <3> QED BY <1>4, <3>1, <3>2
  <2>2. Len(bkHistory') <= MaxBreaks
    BY <1>4 DEF RulesHold
  <2>3. DOMAIN bkHistory' = 1..Len(bkHistory)
    BY <1>4
  <2> QED BY <2>1, <2>2, <2>3 DEF RulesHold
<1> QED BY <1>5, <1>7, <1>8

LEMMA BreaksInvNext == BreaksInv /\ [BreaksNext]_breakVars => BreaksInv'
<1> SUFFICES ASSUME BreaksInv, [BreaksNext]_breakVars PROVE BreaksInv'
  OBVIOUS
<1>1. CASE SessionStarts \/ SessionEnds
  BY <1>1, SessionKeeps
<1>2. ASSUME NEW wish \in Wishes, NEW advice \in BOOLEAN, BreakAsked(wish, advice)
      PROVE  BreaksInv'
  BY <1>2, BreakAskedKeeps
<1>3. CASE Audits
  <2>1. bkQueue # <<>> /\ (Dequeues \/ Waits("audit"))
    BY <1>3 DEF Audits, Runs
  <2> QED BY <1>3, <2>1, QueueMoves, QueueKeeps DEF Audits
<1>4. CASE Decides
  BY <1>4, DecidesKeeps
<1>5. CASE Announces
  <2>1. bkQueue # <<>> /\ Dequeues
    BY <1>5 DEF Announces, Runs
  <2> QED BY <1>5, <2>1, QueueMoves, QueueKeeps DEF Announces
<1>6. CASE BreakEnds
  BY <1>6, BreakEndsKeeps
<1>7. CASE TimePasses
  <2>1. \A i \in DOMAIN bkQueue : bkQueue[i].at \in Nat
    <3>1. bkQueue \in Seq(Requests)
      BY DEF BreaksInv, BreaksTypeOK
    <3>2. \A i \in DOMAIN bkQueue : bkQueue[i] \in Requests
      BY <3>1
    <3> QED BY <3>2 DEF Requests
  <2> QED BY <1>7, <2>1 DEF TimePasses, BreaksInv, BreaksTypeOK, StoreRemembers,
             AskedBefore, BreakIsTimed, RulesHold
<1>8. CASE UNCHANGED breakVars
  BY <1>8 DEF breakVars, BreaksInv, BreaksTypeOK, StoreRemembers, AskedBefore,
              BreakIsTimed, RulesHold
<1> QED BY <1>1, <1>2, <1>3, <1>4, <1>5, <1>6, <1>7, <1>8 DEF BreaksNext

(* Property: a break of the session that is shown has its timer, and the    *)
(* breaks of a stint are few, apart and one at a time (requestBreakNow,     *)
(* evaluateBreakRules and endBreak of break.ts), for any number of          *)
(* sessions, requests and limits.                                           *)
THEOREM BreaksAlwaysSound == BreaksSpec => []BreaksAreSound
<1>1. BreaksInv => BreaksAreSound
  BY DEF BreaksInv, BreaksAreSound
<1> QED BY <1>1, BreaksInvInit, BreaksInvNext, PTL DEF BreaksSpec

----------------------------------------------------------------------------
(* The stint. The row of a session, for any number of stints and changes of *)
(* identity.                                                                *)
(*                                                                         *)
(* That no stint is counted twice is not inductive: whether the next write  *)
(* keeps it depends on what the save under way has frozen, and on whether   *)
(* an earlier attempt committed. RowInv says how the row, the frozen row    *)
(* and the fallback of the pending stint belong together.                   *)

(* Stints to come, and the one that is still on, are not in the row.        *)
FutureUncounted ==
  \A s \in Stints :
    s > stint \/ (s = stint /\ status = "active" /\ leaving = "no") => row[s] = 0

(* Before a row is frozen the pending stint is not in the row, unless its   *)
(* fallback is the row; afterwards, the frozen row is the row with it.      *)
PendingRow ==
  pending # 0 =>
    /\ prepared = NoRow /\ ~persisted =>
         row[pending] = 0 \/ (fallback /\ row = Only(pending))
    /\ prepared # NoRow => prepared = [row EXCEPT ![pending] = 1]
    /\ persisted => row[pending] = 1

(* What each step of an attempt goes by; and a save that is known to have   *)
(* succeeded is pending only until the leave handler ends.                  *)
AttemptStep ==
  /\ attempt = "write" => prepared # NoRow
  /\ attempt \in {"first", "second", "insert"} => prepared = NoRow
  /\ attempt = "insert" => fallback
  /\ leaving = "teardown" => attempt = "none"
  /\ persisted /\ pending # 0 => leaving = "saving"

RowInv ==
  /\ SaveTypeOK /\ NeverCountedTwice /\ NothingForgotten /\ OwnerIsStable
  /\ FutureUncounted /\ PendingRow /\ AttemptStep

(* A row with a stint set to another count.                                 *)
LEMMA CountsIn ==
  ASSUME NEW r \in Rows, NEW s \in Stints, NEW n \in Nat
  PROVE  /\ [r EXCEPT ![s] = n] \in Rows
         /\ [r EXCEPT ![s] = n][s] = n
         /\ \A t \in Stints \ {s} : [r EXCEPT ![s] = n][t] = r[t]
BY DEF Rows

(* The row that counts nothing.                                             *)
LEMMA EmptyRow == NoRow \in Rows /\ \A s \in Stints : NoRow[s] = 0
BY DEF Rows, NoRow

(* The row that counts one stint.                                           *)
LEMMA OnlyCounts ==
  ASSUME NEW s \in Stints
  PROVE  /\ Only(s) \in Rows /\ Only(s)[s] = 1
         /\ \A t \in Stints \ {s} : Only(s)[t] = 0
         /\ Only(s) = [NoRow EXCEPT ![s] = 1]
BY EmptyRow, CountsIn DEF Only

(* What the queue of recovery operations can be.                           *)
LEMMA Queues ==
  ASSUME NEW q \in Seq(0..MaxStints), NEW s \in 0..MaxStints
  PROVE  /\ Append(q, s) \in Seq(0..MaxStints) /\ Append(q, s) # <<>>
         /\ <<s>> \in Seq(0..MaxStints) /\ <<s>> # <<>>
         /\ q # <<>> => Head(q) \in 0..MaxStints /\ Tail(q) \in Seq(0..MaxStints)
BY SaveBounds

LEMMA RowInvInit == SaveInit => RowInv
<1> SUFFICES ASSUME SaveInit PROVE RowInv
  OBVIOUS
<1> USE SaveBounds, EmptyRow DEF SaveInit
<1>1. SaveTypeOK
  <2>1. SessionTypeOK
    <3>1. owner \in [Stints -> 0..MaxChanges]
      OBVIOUS
    <3> QED BY <3>1 DEF SessionTypeOK
  <2>2. RowTypeOK
    BY DEF RowTypeOK
  <2>3. RecoveryTypeOK
    BY DEF RecoveryTypeOK
  <2>4. FlagsOK
    BY DEF FlagsOK
  <2> QED BY <2>1, <2>2, <2>3, <2>4 DEF SaveTypeOK
<1>2. NeverCountedTwice /\ NothingForgotten /\ OwnerIsStable
  BY DEF NeverCountedTwice, NothingForgotten, OwnerIsStable
<1>3. FutureUncounted /\ PendingRow /\ AttemptStep
  BY DEF FutureUncounted, PendingRow, AttemptStep
<1> QED BY <1>1, <1>2, <1>3 DEF RowInv

(* The types, part by part.                                                 *)
LEMMA FlagsNext ==
  ASSUME FlagsOK, [SaveNext]_sessionVars
  PROVE  FlagsOK'
<1> USE DEF FlagsOK, saveVars, guardVars, recoveryVars
<1>1. CASE Enter
  BY <1>1 DEF Enter
<1>2. CASE Leave
  BY <1>2 DEF Leave, BeginLeave
<1>3. CASE ConfirmQuit
  BY <1>3 DEF ConfirmQuit, BeginLeave
<1>4. CASE TeardownEnds
  BY <1>4 DEF TeardownEnds, Begins
<1>5. CASE MarkEnded
  BY <1>5 DEF MarkEnded
<1>6. CASE Reset
  BY <1>6 DEF Reset
<1>7. CASE Retry
  BY <1>7 DEF Retry, Begins
<1>8. CASE ReadSucceeds
  BY <1>8 DEF ReadSucceeds, Saving, Persist
<1>9. CASE ReadFails
  BY <1>9 DEF ReadFails, Saving
<1>10. CASE InsertIfAbsent
  BY <1>10 DEF InsertIfAbsent, Saving, Persist, GivesUp
<1>11. CASE Write
  BY <1>11 DEF Write, Saving, Persist, GivesUp
<1>12. CASE RecoveryBegins
  BY <1>12 DEF RecoveryBegins
<1>13. CASE RecoveryEnds
  BY <1>13 DEF RecoveryEnds
<1>14. CASE EndInterrupted
  BY <1>14 DEF EndInterrupted
<1>15. CASE CommitBegins
  BY <1>15 DEF CommitBegins, Aside
<1>16. CASE CommitEnds
  BY <1>16 DEF CommitEnds, Aside
<1>17. CASE InstallBegins
  BY <1>17 DEF InstallBegins, Aside
<1>18. CASE InstallFails
  BY <1>18 DEF InstallFails, Aside
<1>19. CASE Down
  BY <1>19 DEF Down
<1>20. CASE Launch
  BY <1>20 DEF Launch, AdoptsAudit
<1>21. CASE UNCHANGED sessionVars
  BY <1>21 DEF sessionVars
<1> QED BY <1>1, <1>2, <1>3, <1>4, <1>5, <1>6, <1>7, <1>8, <1>9, <1>10, <1>11,
           <1>12, <1>13, <1>14, <1>15, <1>16, <1>17, <1>18, <1>19, <1>20,
           <1>21
        DEF SaveNext

LEMMA SessionTypeNext ==
  ASSUME SessionTypeOK, RowTypeOK, [SaveNext]_sessionVars
  PROVE  SessionTypeOK'
<1> USE SaveBounds
       DEF SessionTypeOK, RowTypeOK, saveVars, guardVars, recoveryVars
<1>1. CASE Enter
  <2>1. owner' \in [Stints -> 0..MaxChanges]
    BY <1>1 DEF Enter, Stints
  <2> QED BY <1>1, <2>1 DEF Enter
<1>2. CASE Leave
  BY <1>2 DEF Leave, BeginLeave
<1>3. CASE ConfirmQuit
  BY <1>3 DEF ConfirmQuit, BeginLeave
<1>4. CASE TeardownEnds
  BY <1>4 DEF TeardownEnds, Begins
<1>5. CASE MarkEnded
  BY <1>5 DEF MarkEnded
<1>6. CASE Reset
  BY <1>6 DEF Reset
<1>7. CASE CommitBegins
  BY <1>7 DEF CommitBegins, Aside
<1>8. CASE CommitEnds
  BY <1>8 DEF CommitEnds, Aside
<1>9. CASE Down
  BY <1>9 DEF Down
<1>10. CASE UNCHANGED <<status, stint, leaving, identity, owner, committing, left>>
  BY <1>10
<1> QED BY <1>1, <1>2, <1>3, <1>4, <1>5, <1>6, <1>7, <1>8, <1>9, <1>10
        DEF SaveNext, sessionVars, Retry, ReadSucceeds, ReadFails, InsertIfAbsent, Write,
            RecoveryBegins, RecoveryEnds, EndInterrupted, InstallBegins,
            InstallFails, Launch, Aside, Begins, GivesUp, Persist, Saving

LEMMA RowTypeNext ==
  ASSUME SessionTypeOK, RowTypeOK, AttemptStep, [SaveNext]_sessionVars
  PROVE  RowTypeOK'
<1> USE SaveBounds
       DEF SessionTypeOK, RowTypeOK, AttemptStep, saveVars, guardVars,
           recoveryVars
<1>1. CASE Enter
  BY <1>1 DEF Enter
<1>2. CASE Leave
  <2>1. prepared' \in Rows
    BY <1>2, EmptyRow DEF Leave, BeginLeave
  <2> QED BY <1>2, <2>1 DEF Leave, BeginLeave
<1>3. CASE ConfirmQuit
  <2>1. prepared' \in Rows
    BY <1>3, EmptyRow DEF ConfirmQuit, BeginLeave
  <2> QED BY <1>3, <2>1 DEF ConfirmQuit, BeginLeave
<1>4. CASE TeardownEnds
  BY <1>4 DEF TeardownEnds, Begins
<1>5. CASE MarkEnded
  BY <1>5 DEF MarkEnded
<1>6. CASE Reset
  BY <1>6 DEF Reset
<1>7. CASE Retry
  BY <1>7 DEF Retry, Begins
<1>8. CASE ReadSucceeds
  <2>1. pending \in Stints
    BY <1>8 DEF ReadSucceeds, Saving, Stints
  <2>2. prepared' \in Rows
    BY <1>8, <2>1 DEF Rows, ReadSucceeds, Merged
  <2>3. CASE Persist
    BY <1>8, <2>1, <2>2, <2>3 DEF ReadSucceeds, Saving, Persist, Stints
  <2>4. CASE attempt' = "write" /\ UNCHANGED <<pending, persisted, confirmed>>
    BY <1>8, <2>1, <2>2, <2>4 DEF ReadSucceeds, Saving, Stints
  <2> QED BY <1>8, <2>3, <2>4 DEF ReadSucceeds
<1>9. CASE ReadFails
  BY <1>9 DEF ReadFails, Saving
<1>10. CASE InsertIfAbsent
  <2>1. pending \in Stints
    BY <1>10 DEF InsertIfAbsent, Saving, Stints
  <2>2. row' \in Rows
    BY <1>10, <2>1, EmptyRow, CountsIn DEF InsertIfAbsent, Only
  <2>3. CASE Persist
    BY <1>10, <2>1, <2>2, <2>3 DEF InsertIfAbsent, Saving, Persist, Stints
  <2>4. CASE GivesUp
    BY <1>10, <2>1, <2>2, <2>4 DEF InsertIfAbsent, Saving, GivesUp, Stints
  <2> QED BY <1>10, <2>3, <2>4 DEF InsertIfAbsent
<1>11. CASE Write
  <2>1. pending \in Stints
    BY <1>11 DEF Write, Saving, Stints
  <2>2. row' \in Rows
    BY <1>11, <2>1 DEF Write
  <2>3. CASE Persist
    BY <1>11, <2>1, <2>2, <2>3 DEF Write, Saving, Persist, Stints
  <2>4. CASE GivesUp
    BY <1>11, <2>1, <2>2, <2>4 DEF Write, Saving, GivesUp, Stints
  <2> QED BY <1>11, <2>3, <2>4 DEF Write
<1>12. CASE Down
  <2>1. prepared' \in Rows
    BY <1>12, EmptyRow DEF Down
  <2> QED BY <1>12, <2>1 DEF Down
<1>13. CASE Launch
  BY <1>13 DEF Launch, AdoptsAudit
<1>14. CASE UNCHANGED <<saveVars, exists, status, stint, leaving>>
  BY <1>14
<1> QED BY <1>1, <1>2, <1>3, <1>4, <1>5, <1>6, <1>7, <1>8, <1>9, <1>10, <1>11,
           <1>12, <1>13, <1>14
        DEF SaveNext, sessionVars, RecoveryBegins, RecoveryEnds, EndInterrupted,
            CommitBegins, CommitEnds, InstallBegins, InstallFails, Aside

LEMMA RecoveryTypeNext ==
  ASSUME SessionTypeOK, RecoveryTypeOK, [SaveNext]_sessionVars
  PROVE  RecoveryTypeOK'
<1> USE SaveBounds
       DEF RecoveryTypeOK, saveVars, guardVars, recoveryVars
<1>1. CASE Enter
  <2>1. stint + 1 \in 0..MaxStints
    BY <1>1 DEF Enter, SessionTypeOK
  <2>3. queue \in Seq(0..MaxStints)
    OBVIOUS
  <2>2. /\ Append(queue, stint + 1) \in Seq(0..MaxStints)
        /\ Append(queue, stint + 1) # <<>>
        /\ <<stint + 1>> \in Seq(0..MaxStints) /\ <<stint + 1>> # <<>>
    BY <2>1, <2>3, Queues
  <2> QED BY <1>1, <2>1, <2>2 DEF Enter
<1>2. CASE Leave
  <2>1. 0 \in 0..MaxStints
    BY <1>2 DEF Leave, SessionTypeOK
  <2>3. queue \in Seq(0..MaxStints)
    OBVIOUS
  <2>2. /\ Append(queue, 0) \in Seq(0..MaxStints)
        /\ Append(queue, 0) # <<>>
        /\ <<0>> \in Seq(0..MaxStints) /\ <<0>> # <<>>
    BY <2>1, <2>3, Queues
  <2> QED BY <1>2, <2>1, <2>2 DEF Leave, BeginLeave
<1>3. CASE ConfirmQuit
  BY <1>3 DEF ConfirmQuit, BeginLeave
<1>4. CASE RecoveryBegins
  BY <1>4 DEF RecoveryBegins
<1>5. CASE RecoveryEnds
  <2>1. Head(queue) \in 0..MaxStints /\ Tail(queue) \in Seq(0..MaxStints)
    <3>1. queue \in Seq(0..MaxStints) /\ queue # <<>>
      BY <1>5 DEF RecoveryEnds
    <3> QED BY <3>1, Queues
  <2> QED BY <1>5, <2>1 DEF RecoveryEnds
<1>6. CASE EndInterrupted
  <2>1. 0 \in 0..MaxStints
    BY <1>6 DEF EndInterrupted, SessionTypeOK
  <2>3. queue \in Seq(0..MaxStints)
    OBVIOUS
  <2>2. /\ Append(queue, 0) \in Seq(0..MaxStints)
        /\ Append(queue, 0) # <<>>
        /\ <<0>> \in Seq(0..MaxStints) /\ <<0>> # <<>>
    BY <2>1, <2>3, Queues
  <2> QED BY <1>6, <2>1, <2>2 DEF EndInterrupted
<1>7. CASE Down
  BY <1>7 DEF Down
<1>8. CASE Launch
  <2>1. 0 \in 0..MaxStints
    BY <1>8 DEF Launch, SessionTypeOK
  <2>3. queue \in Seq(0..MaxStints)
    OBVIOUS
  <2>2. /\ Append(queue, 0) \in Seq(0..MaxStints)
        /\ Append(queue, 0) # <<>>
        /\ <<0>> \in Seq(0..MaxStints) /\ <<0>> # <<>>
    BY <2>1, <2>3, Queues
  <2> QED BY <1>8, <2>1, <2>2 DEF Launch
<1>9. CASE UNCHANGED <<disk, queue, running, resumable>>
  BY <1>9
<1> QED BY <1>1, <1>2, <1>3, <1>4, <1>5, <1>6, <1>7, <1>8, <1>9
        DEF SaveNext, sessionVars, TeardownEnds, MarkEnded, Reset, Retry, ReadSucceeds,
            ReadFails, InsertIfAbsent, Write, CommitBegins, CommitEnds,
            InstallBegins, InstallFails, Aside, Begins, GivesUp, Persist,
            Saving

(* Identities, updates and the session.                                     *)
LEMMA OwnerNext ==
  ASSUME SaveTypeOK, OwnerIsStable, [SaveNext]_sessionVars
  PROVE  OwnerIsStable'
<1> USE SaveBounds
       DEF SaveTypeOK, SessionTypeOK, RowTypeOK, OwnerIsStable, Stints,
           saveVars, guardVars, recoveryVars
<1>1. CASE Enter
  BY <1>1 DEF Enter
<1>2. CASE Leave
  BY <1>2 DEF Leave, BeginLeave
<1>3. CASE ConfirmQuit
  BY <1>3 DEF ConfirmQuit, BeginLeave
<1>4. CASE MarkEnded
  BY <1>4 DEF MarkEnded
<1>5. CASE Reset
  BY <1>5 DEF Reset
<1>6. CASE ReadSucceeds
  BY <1>6 DEF ReadSucceeds, Saving, Persist
<1>7. CASE InsertIfAbsent
  BY <1>7 DEF InsertIfAbsent, Saving, Persist, GivesUp
<1>8. CASE Write
  BY <1>8 DEF Write, Saving, Persist, GivesUp
<1>9. CASE CommitBegins
  BY <1>9 DEF CommitBegins, Aside
<1>10. CASE CommitEnds
  BY <1>10 DEF CommitEnds, Aside
<1>11. CASE InstallBegins
  BY <1>11 DEF InstallBegins, Aside
<1>12. CASE InstallFails
  BY <1>12 DEF InstallFails, Aside
<1>13. CASE Down
  BY <1>13 DEF Down
<1>14. CASE UNCHANGED <<status, stint, owner, pending, guardVars>>
  BY <1>14
<1> QED BY <1>1, <1>2, <1>3, <1>4, <1>5, <1>6, <1>7, <1>8, <1>9, <1>10, <1>11,
           <1>12, <1>13, <1>14
        DEF SaveNext, sessionVars, TeardownEnds, Retry, ReadFails, RecoveryBegins,
            RecoveryEnds, EndInterrupted, Launch, Begins, Saving

(* What follows needs of a step that leaves row and save alone.             *)
RowKept == UNCHANGED <<saveVars, status, stint, leaving, left>>

(* What the commit of a write may do to the row.                            *)
PendingCounted ==
  /\ row' \in Rows /\ \A s \in Stints \ {pending} : row'[s] = row[s]
  /\ row'[pending] = row[pending] \/ row'[pending] = 1
  /\ persisted' => row'[pending] = 1

LEMMA WritesCountPending ==
  ASSUME SaveTypeOK, PendingRow, InsertIfAbsent \/ Write, AttemptStep
  PROVE  PendingCounted /\ pending \in Stints
<1>1. pending \in Stints
  BY SaveBounds
     DEF SaveTypeOK, SessionTypeOK, RowTypeOK, InsertIfAbsent, Write, Saving, Stints
<1>2. CASE InsertIfAbsent
  BY <1>1, <1>2, OnlyCounts, EmptyRow
     DEF InsertIfAbsent, Saving, GivesUp, SaveTypeOK, RowTypeOK, PendingCounted
<1>3. CASE Write
  <2>1. prepared = [row EXCEPT ![pending] = 1]
    BY <1>1, <1>3 DEF Write, Saving, AttemptStep, PendingRow, Stints
  <2> QED BY <1>1, <1>3, <2>1, CountsIn
          DEF Write, Saving, GivesUp, SaveTypeOK, RowTypeOK, PendingCounted
<1> QED BY <1>1, <1>2, <1>3

(* The row, property by property.                                           *)
LEMMA CountedOnceNext ==
  ASSUME SaveTypeOK, PendingRow, AttemptStep, NeverCountedTwice, [SaveNext]_sessionVars
  PROVE  NeverCountedTwice'
<1> USE SaveBounds DEF Stints, NeverCountedTwice, saveVars
<1>1. CASE Enter
  BY <1>1 DEF Enter
<1>2. CASE Leave
  BY <1>2 DEF Leave, BeginLeave
<1>3. CASE ConfirmQuit
  BY <1>3 DEF ConfirmQuit, BeginLeave
<1>4. CASE TeardownEnds
  BY <1>4 DEF TeardownEnds, Begins
<1>5. CASE MarkEnded
  BY <1>5 DEF MarkEnded
<1>6. CASE Reset
  BY <1>6 DEF Reset
<1>7. CASE Retry
  BY <1>7 DEF Retry, Begins
<1>8. CASE ReadSucceeds
  BY <1>8 DEF ReadSucceeds, Saving, Persist
<1>9. CASE ReadFails
  BY <1>9 DEF ReadFails, Saving
<1>10. CASE InsertIfAbsent
  <2>1. PendingCounted /\ pending \in Stints
    BY <1>10, WritesCountPending
  <2> QED BY <1>10, <2>1
             DEF InsertIfAbsent, Saving, Persist, GivesUp, PendingCounted,
                 SaveTypeOK, SessionTypeOK, RowTypeOK
<1>11. CASE Write
  <2>1. PendingCounted /\ pending \in Stints
    BY <1>11, WritesCountPending
  <2> QED BY <1>11, <2>1
             DEF Write, Saving, Persist, GivesUp, PendingCounted, SaveTypeOK,
                 SessionTypeOK, RowTypeOK
<1>12. CASE Down
  BY <1>12 DEF Down
<1>13. CASE RowKept
  BY <1>13 DEF RowKept
<1> QED BY <1>1, <1>2, <1>3, <1>4, <1>5, <1>6, <1>7, <1>8, <1>9, <1>10, <1>11,
           <1>12, <1>13
        DEF SaveNext, sessionVars, RowKept, Aside, RecoveryBegins, RecoveryEnds,
            EndInterrupted, CommitBegins, CommitEnds, InstallBegins,
            InstallFails, Launch

LEMMA NothingForgottenNext ==
  ASSUME SaveTypeOK, PendingRow, AttemptStep, NothingForgotten, [SaveNext]_sessionVars
  PROVE  NothingForgotten'
<1> USE SaveBounds DEF Stints, NothingForgotten, SaveTypeOK, SessionTypeOK,
                       RowTypeOK, PendingRow, saveVars
<1>1. CASE Enter
  BY <1>1 DEF Enter
<1>2. CASE Leave
  BY <1>2 DEF Leave, BeginLeave
<1>3. CASE ConfirmQuit
  BY <1>3 DEF ConfirmQuit, BeginLeave
<1>4. CASE TeardownEnds
  BY <1>4 DEF TeardownEnds, Begins
<1>5. CASE MarkEnded
  BY <1>5 DEF MarkEnded
<1>6. CASE Reset
  BY <1>6 DEF Reset
<1>7. CASE Retry
  BY <1>7 DEF Retry, Begins
<1>8. CASE ReadSucceeds
  <2>1. pending \in Stints
    BY <1>8 DEF ReadSucceeds, Saving
  <2>2. CASE fallback /\ row = Only(pending)
    <3>1. row' = row /\ row[pending] = 1 /\ confirmed' = confirmed \union {pending}
      BY <1>8, <2>1, <2>2, OnlyCounts DEF ReadSucceeds, IsFallback, Persist
    <3>2. left' = left /\ (pending' = pending \/ pending' = 0)
      BY <1>8, <2>2 DEF ReadSucceeds, Saving, Persist
    <3> QED BY <2>1, <3>1, <3>2
  <2>3. CASE ~(fallback /\ row = Only(pending))
    BY <1>8, <2>3 DEF ReadSucceeds, IsFallback, Saving
  <2> QED BY <2>2, <2>3
<1>9. CASE ReadFails
  BY <1>9 DEF ReadFails, Saving
<1>10. CASE InsertIfAbsent
  <2>1. PendingCounted /\ pending \in Stints
    BY <1>10, WritesCountPending
  <2>2. SUFFICES ASSUME NEW s \in confirmed' \union (left' \ {pending'})
                 PROVE  row'[s] >= 1
    OBVIOUS
  <2>3. s = pending => row'[s] = 1 \/ s \in confirmed \union (left \ {pending})
    BY <1>10, <2>1, <2>2
       DEF InsertIfAbsent, Saving, Persist, GivesUp, PendingCounted
  <2>4. s # pending => s \in confirmed \union (left \ {pending})
    BY <1>10, <2>2 DEF InsertIfAbsent, Saving, Persist, GivesUp
  <2>5. s \in Stints
    <3>1. stint \in 0..MaxStints /\ confirmed \subseteq 1..stint /\ left \subseteq 1..stint
      OBVIOUS
    <3>2. 1..stint \subseteq Stints
      BY <3>1
    <3> QED BY <2>1, <2>4, <3>1, <3>2
  <2>6. CASE s = pending
    BY <2>1, <2>3, <2>6 DEF PendingCounted
  <2>7. CASE s # pending
    BY <2>1, <2>4, <2>5, <2>7 DEF PendingCounted
  <2> QED BY <2>6, <2>7
<1>11. CASE Write
  <2>1. PendingCounted /\ pending \in Stints
    BY <1>11, WritesCountPending
  <2>2. SUFFICES ASSUME NEW s \in confirmed' \union (left' \ {pending'})
                 PROVE  row'[s] >= 1
    OBVIOUS
  <2>3. s = pending => row'[s] = 1 \/ s \in confirmed \union (left \ {pending})
    BY <1>11, <2>1, <2>2 DEF Write, Saving, Persist, GivesUp, PendingCounted
  <2>4. s # pending => s \in confirmed \union (left \ {pending})
    BY <1>11, <2>2 DEF Write, Saving, Persist, GivesUp
  <2>5. s \in Stints
    <3>1. stint \in 0..MaxStints /\ confirmed \subseteq 1..stint /\ left \subseteq 1..stint
      OBVIOUS
    <3>2. 1..stint \subseteq Stints
      BY <3>1
    <3> QED BY <2>1, <2>4, <3>1, <3>2
  <2>6. CASE s = pending
    BY <2>1, <2>3, <2>6 DEF PendingCounted
  <2>7. CASE s # pending
    BY <2>1, <2>4, <2>5, <2>7 DEF PendingCounted
  <2> QED BY <2>6, <2>7
<1>12. CASE Down
  BY <1>12 DEF Down
<1>13. CASE RowKept
  BY <1>13 DEF RowKept
<1> QED BY <1>1, <1>2, <1>3, <1>4, <1>5, <1>6, <1>7, <1>8, <1>9, <1>10, <1>11,
           <1>12, <1>13
        DEF SaveNext, sessionVars, RowKept, Aside, RecoveryBegins, RecoveryEnds,
            EndInterrupted, CommitBegins, CommitEnds, InstallBegins,
            InstallFails, Launch

LEMMA FutureUncountedNext ==
  ASSUME SaveTypeOK, PendingRow, AttemptStep, FutureUncounted, [SaveNext]_sessionVars
  PROVE  FutureUncounted'
<1> USE SaveBounds DEF Stints, FutureUncounted, SaveTypeOK, SessionTypeOK,
                       RowTypeOK, saveVars
<1>1. CASE Enter
  BY <1>1 DEF Enter
<1>2. CASE Leave
  BY <1>2 DEF Leave, BeginLeave
<1>3. CASE ConfirmQuit
  BY <1>3 DEF ConfirmQuit, BeginLeave
<1>4. CASE TeardownEnds
  BY <1>4 DEF TeardownEnds, Begins
<1>5. CASE MarkEnded
  BY <1>5 DEF MarkEnded
<1>6. CASE Reset
  BY <1>6 DEF Reset
<1>7. CASE Retry
  BY <1>7 DEF Retry, Begins
<1>8. CASE ReadSucceeds
  BY <1>8 DEF ReadSucceeds, Saving, Persist
<1>9. CASE ReadFails
  BY <1>9 DEF ReadFails, Saving
<1>10. CASE InsertIfAbsent
  <2>1. PendingCounted /\ pending \in Stints
    BY <1>10, WritesCountPending
  <2> QED BY <1>10, <2>1
             DEF InsertIfAbsent, Saving, Persist, GivesUp, PendingCounted
<1>11. CASE Write
  <2>1. PendingCounted /\ pending \in Stints
    BY <1>11, WritesCountPending
  <2> QED BY <1>11, <2>1 DEF Write, Saving, Persist, GivesUp, PendingCounted
<1>12. CASE Down
  BY <1>12 DEF Down
<1>13. CASE RowKept
  BY <1>13 DEF RowKept
<1> QED BY <1>1, <1>2, <1>3, <1>4, <1>5, <1>6, <1>7, <1>8, <1>9, <1>10, <1>11,
           <1>12, <1>13
        DEF SaveNext, sessionVars, RowKept, Aside, RecoveryBegins, RecoveryEnds,
            EndInterrupted, CommitBegins, CommitEnds, InstallBegins,
            InstallFails, Launch

LEMMA PendingRowNext ==
  ASSUME SaveTypeOK, PendingRow, AttemptStep, FutureUncounted, [SaveNext]_sessionVars
  PROVE  PendingRow'
<1> USE SaveBounds DEF Stints, PendingRow, FutureUncounted, SaveTypeOK,
                       SessionTypeOK, RowTypeOK, AttemptStep, saveVars
<1>1. CASE Enter
  BY <1>1 DEF Enter
<1>2. CASE Leave
  BY <1>2 DEF Leave, BeginLeave
<1>3. CASE ConfirmQuit
  BY <1>3 DEF ConfirmQuit, BeginLeave
<1>4. CASE TeardownEnds
  BY <1>4 DEF TeardownEnds, Begins
<1>5. CASE MarkEnded
  BY <1>5 DEF MarkEnded
<1>6. CASE Reset
  BY <1>6 DEF Reset
<1>7. CASE Retry
  BY <1>7 DEF Retry, Begins
<1>8. CASE ReadSucceeds
  <2>1. pending \in Stints /\ prepared = NoRow /\ ~persisted /\ row \in Rows
    BY <1>8 DEF ReadSucceeds, Saving
  <2>2. CASE fallback /\ row = Only(pending)
    <3>1. row' = row /\ row[pending] = 1 /\ prepared' = NoRow /\ persisted'
      BY <1>8, <2>1, <2>2, OnlyCounts DEF ReadSucceeds, IsFallback, Persist
    <3>2. pending' = pending \/ pending' = 0
      BY <1>8, <2>2 DEF ReadSucceeds, Persist
    <3> QED BY <3>1, <3>2
  <2>3. CASE ~(fallback /\ row = Only(pending))
    <3>1. row[pending] = 0
      BY <2>1, <2>3
    <3>2. /\ row' = row /\ pending' = pending /\ ~persisted'
          /\ prepared' = [row EXCEPT ![pending] = 1]
      BY <1>8, <2>1, <2>3, <3>1 DEF ReadSucceeds, IsFallback, Merged
    <3>3. prepared' # NoRow
      BY <2>1, <3>2, CountsIn, EmptyRow
    <3> QED BY <3>2, <3>3
  <2> QED BY <2>2, <2>3
<1>9. CASE ReadFails
  BY <1>9 DEF ReadFails, Saving
<1>10. CASE InsertIfAbsent
  <2>1. PendingCounted /\ pending \in Stints
    BY <1>10, WritesCountPending
  <2>2. /\ prepared = NoRow /\ prepared' = NoRow
        /\ fallback /\ fallback' = fallback /\ ~persisted
    BY <1>10 DEF InsertIfAbsent, Saving
  <2>3. CASE Persist
    BY <2>1, <2>2, <2>3 DEF Persist, PendingCounted
  <2>4. CASE GivesUp
    <3>1. row' = row \/ row' = Only(pending)
      BY <1>10 DEF InsertIfAbsent
    <3> QED BY <2>1, <2>2, <2>4, <3>1 DEF GivesUp
  <2> QED BY <1>10, <2>3, <2>4 DEF InsertIfAbsent
<1>11. CASE Write
  <2>1. PendingCounted /\ pending \in Stints
    BY <1>11, WritesCountPending
  <2>2. /\ prepared # NoRow /\ prepared' = prepared /\ row \in Rows
        /\ prepared = [row EXCEPT ![pending] = 1]
        /\ row' = row \/ row' = prepared
    BY <1>11, <2>1 DEF Write, Saving
  <2>3. prepared = [row' EXCEPT ![pending] = 1]
    BY <2>1, <2>2 DEF Rows
  <2>4. pending' = pending \/ pending' = 0
    BY <1>11 DEF Write, Persist, GivesUp
  <2> QED BY <2>1, <2>2, <2>3, <2>4 DEF PendingCounted
<1>12. CASE Down
  BY <1>12 DEF Down
<1>13. CASE RowKept
  BY <1>13 DEF RowKept
<1> QED BY <1>1, <1>2, <1>3, <1>4, <1>5, <1>6, <1>7, <1>8, <1>9, <1>10, <1>11,
           <1>12, <1>13
        DEF SaveNext, sessionVars, RowKept, Aside, RecoveryBegins, RecoveryEnds,
            EndInterrupted, CommitBegins, CommitEnds, InstallBegins,
            InstallFails, Launch

LEMMA AttemptStepNext ==
  ASSUME SaveTypeOK, PendingRow, AttemptStep, [SaveNext]_sessionVars
  PROVE  AttemptStep'
<1> USE SaveBounds DEF Stints, AttemptStep, PendingRow, SaveTypeOK,
                       SessionTypeOK, RowTypeOK, saveVars
<1>1. CASE Enter
  BY <1>1 DEF Enter
<1>2. CASE Leave
  BY <1>2 DEF Leave, BeginLeave
<1>3. CASE ConfirmQuit
  BY <1>3 DEF ConfirmQuit, BeginLeave
<1>4. CASE TeardownEnds
  BY <1>4 DEF TeardownEnds, Begins
<1>5. CASE MarkEnded
  BY <1>5 DEF MarkEnded
<1>6. CASE Reset
  BY <1>6 DEF Reset
<1>7. CASE Retry
  BY <1>7 DEF Retry, Begins
<1>8. CASE ReadSucceeds
  <2>1. /\ pending \in Stints /\ prepared = NoRow /\ ~persisted /\ row \in Rows
        /\ leaving' = leaving /\ leaving # "teardown"
        /\ status = "active" /\ pending # 0 => leaving = "saving"
    BY <1>8 DEF ReadSucceeds, Saving
  <2>2. CASE fallback /\ row = Only(pending)
    <3>1. /\ attempt' = "none" /\ prepared' = prepared
          /\ pending' # 0 => status = "active" /\ pending # 0
      BY <1>8, <2>2 DEF ReadSucceeds, IsFallback, Persist
    <3> QED BY <2>1, <3>1
  <2>3. CASE ~(fallback /\ row = Only(pending))
    <3>1. row[pending] = 0
      BY <2>1, <2>3
    <3>2. /\ pending' = pending /\ ~persisted' /\ attempt' = "write"
          /\ prepared' = [row EXCEPT ![pending] = 1]
      BY <1>8, <2>1, <2>3, <3>1 DEF ReadSucceeds, IsFallback, Merged
    <3>3. prepared' # NoRow
      BY <2>1, <3>2, CountsIn, EmptyRow
    <3> QED BY <2>1, <3>2, <3>3
  <2> QED BY <2>2, <2>3
<1>9. CASE ReadFails
  BY <1>9 DEF ReadFails, Saving
<1>10. CASE InsertIfAbsent
  BY <1>10 DEF InsertIfAbsent, Saving, Persist, GivesUp
<1>11. CASE Write
  BY <1>11 DEF Write, Saving, Persist, GivesUp
<1>12. CASE Down
  BY <1>12 DEF Down
<1>13. CASE RowKept
  BY <1>13 DEF RowKept
<1> QED BY <1>1, <1>2, <1>3, <1>4, <1>5, <1>6, <1>7, <1>8, <1>9, <1>10, <1>11,
           <1>12, <1>13
        DEF SaveNext, sessionVars, RowKept, Aside, RecoveryBegins, RecoveryEnds,
            EndInterrupted, CommitBegins, CommitEnds, InstallBegins,
            InstallFails, Launch

LEMMA RowInvNext == RowInv /\ [SaveNext]_sessionVars => RowInv'
<1> SUFFICES ASSUME RowInv, [SaveNext]_sessionVars PROVE RowInv'
  OBVIOUS
<1>1. SaveTypeOK'
  BY FlagsNext, SessionTypeNext, RowTypeNext, RecoveryTypeNext DEF RowInv, SaveTypeOK
<1>2. OwnerIsStable'
  BY OwnerNext DEF RowInv
<1>3. NeverCountedTwice' /\ NothingForgotten' /\ FutureUncounted'
  BY CountedOnceNext, NothingForgottenNext, FutureUncountedNext DEF RowInv
<1>4. PendingRow' /\ AttemptStep'
  BY PendingRowNext, AttemptStepNext DEF RowInv
<1> QED BY <1>1, <1>2, <1>3, <1>4 DEF RowInv

LEMMA RowInvariant == SaveSpec => []RowInv
BY RowInvInit, RowInvNext, PTL DEF SaveSpec

(* Property: no stint is counted twice in its session's row, for any order  *)
(* of failures, retries, crashes, relaunches and changes of identity        *)
(* (performSave and the two upserts of db/sessions.rs).                     *)
THEOREM StintsCountedOnce == SaveSpec => []NeverCountedTwice
<1>1. RowInv => NeverCountedTwice
  BY DEF RowInv
<1> QED BY <1>1, RowInvariant, PTL

(* Property: no stint that was reported as saved, or that this process left *)
(* and does not still mean to save, is missing from its session's row.      *)
THEOREM StintsNeverForgotten == SaveSpec => []NothingForgotten
<1>1. RowInv => NothingForgotten
  BY DEF RowInv
<1> QED BY <1>1, RowInvariant, PTL

----------------------------------------------------------------------------
(* The recovery record.  The last operation queued is the one that should   *)
(* be the last on disk, and a quit keeps the record of the session it ends. *)
QueueLast == queue # <<>> => queue[Len(queue)] = resumable

RecoveryInv ==
  /\ RecoveryTypeOK /\ RecoveryFollowsSession /\ QueueLast
  /\ ~up => queue = <<>>
  /\ retained => quitting
  /\ quitting /\ status = "active" => leaving # "no"

(* What an appended operation, and one that is over, leave in the queue.    *)
LEMMA QueueEnds ==
  ASSUME NEW S, NEW q \in Seq(S), NEW s \in S
  PROVE  /\ Append(q, s) # <<>> /\ Append(q, s)[Len(Append(q, s))] = s
         /\ q # <<>> /\ Tail(q) = <<>> => Head(q) = q[Len(q)]
         /\ q # <<>> /\ Tail(q) # <<>> => Tail(q)[Len(Tail(q))] = q[Len(q)]
<1>1. \A t \in Seq(S), e \in S :
        Append(t, e) # <<>> /\ Append(t, e)[Len(Append(t, e))] = e
  BY AppendProperties
<1>2. ASSUME q # <<>>
      PROVE  IF Tail(q) = <<>> THEN Head(q) = q[Len(q)]
                               ELSE Tail(q)[Len(Tail(q))] = q[Len(q)]
  <2>1. PICK f \in Seq(S), e \in S : q = Append(f, e)
    BY <1>2, SequenceEmptyOrAppend
  <2>2. q[Len(q)] = e
    BY <1>1, <2>1
  <2>3. CASE f = <<>>
    BY <2>1, <2>2, <2>3, HeadTailAppend
  <2>4. CASE f # <<>>
    <3>1. Tail(q) = Append(Tail(f), e) /\ Tail(f) \in Seq(S)
      BY <2>1, <2>4, HeadTailAppend, HeadTailProperties
    <3> QED BY <1>1, <2>2, <3>1
  <2> QED BY <2>3, <2>4
<1> QED BY <1>1, <1>2

LEMMA RecoveryInvInit == SaveInit => RecoveryInv
BY SaveBounds DEF SaveInit, RecoveryInv, RecoveryTypeOK, RecoveryFollowsSession, QueueLast

LEMMA RecoveryInvNext ==
  ASSUME SaveTypeOK, SaveTypeOK', RecoveryInv, [SaveNext]_sessionVars
  PROVE  RecoveryInv'
<1> USE SaveBounds DEF RecoveryInv, RecoveryFollowsSession, QueueLast, recoveryVars
<1>0. RecoveryTypeOK'
  BY DEF SaveTypeOK
<1>1. queue \in Seq(0..MaxStints) /\ resumable \in 0..MaxStints
  BY DEF RecoveryTypeOK
<1>2. CASE Enter
  BY <1>0, <1>1, <1>2, QueueEnds DEF Enter, SaveTypeOK, SessionTypeOK
<1>3. CASE Leave
  BY <1>0, <1>1, <1>3, QueueEnds DEF Leave, BeginLeave
<1>4. CASE ConfirmQuit
  BY <1>0, <1>4 DEF ConfirmQuit, BeginLeave
<1>5. CASE MarkEnded
  BY <1>0, <1>5 DEF MarkEnded
<1>6. CASE RecoveryBegins
  BY <1>0, <1>6 DEF RecoveryBegins
<1>7. CASE RecoveryEnds
  <2>1. queue # <<>>
    BY <1>7 DEF RecoveryEnds, RecoveryTypeOK
  <2>2. queue' # <<>> => queue'[Len(queue')] = resumable
    BY <1>1, <1>7, <2>1, QueueEnds DEF RecoveryEnds
  <2>3. queue' = <<>> /\ ~missed' => disk' = resumable
    BY <1>1, <1>7, <2>1, QueueEnds DEF RecoveryEnds
  <2> QED BY <1>0, <1>7, <2>2, <2>3 DEF RecoveryEnds
<1>8. CASE EndInterrupted
  BY <1>0, <1>1, <1>8, QueueEnds DEF EndInterrupted
<1>9. CASE Down
  BY <1>0, <1>9 DEF Down
<1>10. CASE Launch
  <2>1. queue = <<>>
    BY <1>10 DEF Launch
  <2>2. CASE UNCHANGED <<queue, resumable>>
    BY <1>0, <1>10, <2>1, <2>2 DEF Launch
  <2>3. CASE queue' = <<0>> /\ resumable' = 0
    BY <1>0, <1>10, <2>3 DEF Launch
  <2> QED BY <1>10, <2>2, <2>3 DEF Launch
<1>11. CASE UNCHANGED <<recoveryVars, up, retained, quitting, status, leaving, resumable>>
  BY <1>0, <1>11
<1>12. CASE TeardownEnds
  BY <1>0, <1>12 DEF TeardownEnds
<1>13. CASE Reset
  BY <1>0, <1>13 DEF Reset
<1> QED BY <1>2, <1>3, <1>4, <1>5, <1>6, <1>7, <1>8, <1>9, <1>10, <1>11, <1>12, <1>13
        DEF SaveNext, sessionVars, Aside, Retry, ReadSucceeds, ReadFails,
            InsertIfAbsent, Write, Saving, CommitBegins, CommitEnds,
            InstallBegins, InstallFails

(* Property: the recovery record is that of the session the user was torn   *)
(* out of, once its queue has drained and unless its last operation failed;  *)
(* and no other identity or update comes over a session or its pending save *)
(* (recovery.ts, CommitBegins and InstallBegins).                           *)
THEOREM RecoveryAlwaysOwn == SaveSpec => []RecoveryIsOwn
<1>1. SaveInit => RecoveryInv
  BY RecoveryInvInit
<1>2. RowInv /\ RowInv' /\ RecoveryInv /\ [SaveNext]_sessionVars => RecoveryInv'
  BY RecoveryInvNext DEF RowInv
<1>3. RowInv /\ RecoveryInv => RecoveryIsOwn
  BY DEF RowInv, RecoveryInv, RecoveryIsOwn
<1> QED BY <1>1, <1>2, <1>3, RowInvariant, PTL DEF SaveSpec

----------------------------------------------------------------------------
(* The audit trail. Proofs about AuditTrail, for any number of sessions,    *)
(* alerts and failures.                                                     *)
(*                                                                         *)
(* What was shown at the last flush is in the report because every event    *)
(* the panel shows is written, being written by a task the flush waits for, *)
(* or lost to a write that failed; AuditInv follows each task through its   *)
(* awaits, and says whose session it is of.                                 *)

Events == [kind : {"joined", "left", "alert", "peer joined"},
           n : 0..MaxAlerts, of : 1..MaxSittings]
Tasks == [kind : {"joined", "left", "alert"}, n : 0..MaxAlerts, of : 1..MaxSittings,
          pc : {"hello", "sign", "tell"}, live : BOOLEAN]
Peers == [in : BOOLEAN, hello : BOOLEAN, bound : BOOLEAN, stash : BOOLEAN]
Ghosts == [seen : SUBSET Events, lost : SUBSET Events, heard : BOOLEAN]
Leaving == {"save", "reflush", "companion", "ended"}

TrailTypeOK ==
  /\ adSitting \in 0..MaxSittings /\ adAlerts \in 0..MaxAlerts
  /\ adLeave \in {"none", "no", "farewell", "room", "flush"} \union Leaving
  /\ adLeave = "none" \/ adSitting # 0
  /\ adTasks \in SUBSET Tasks
  /\ adPanel \in SUBSET Events /\ adPending \in SUBSET Events
  /\ adPeer \in Peers /\ adGhost \in Ghosts

(* A task that may still do something is of this session; a farewell, only *)
(* while leaving waits for it.                                             *)
LiveAreCurrent ==
  \A t \in adTasks : t.live =>
    t.of = adSitting /\ Active /\ (t.kind = "left" => adLeave = "farewell")

(* What the panel shows is written, or being written, or could not be.     *)
ShownIsWritten ==
  /\ \A e \in adPanel : e.of = adSitting => e \in adPending \union adRows \union adGhost.lost
  /\ adGhost.seen \subseteq adRows \union adGhost.lost

ReportSeesRows ==
  /\ adReport.read => adLeave = "ended" /\ adGhost.seen \subseteq adReport.rows \union adGhost.lost
  /\ adReport.rows \subseteq adRows

(* What a peer said before it was bound waits for its promotion.           *)
HeardIsKept ==
  /\ adPeer.bound => adPeer.in
  /\ adGhost.heard => IF adPeer.bound THEN PeerJoined \in adPanel ELSE adPeer.stash

AuditInv ==
  /\ TrailTypeOK /\ LiveAreCurrent /\ ShownIsWritten /\ ReportSeesRows /\ HeardIsKept
  /\ FarewellIsInTime /\ NothingCrosses

LEMMA PeerJoinedIsEvent ==
  ASSUME TrailTypeOK, Active
  PROVE  PeerJoined \in Events /\ PeerJoined.of = adSitting /\ PeerJoined.kind = "peer joined"
<1>1. MaxAlerts \in Nat /\ MaxSittings \in Nat
  BY AuditAssumption
<1>2. adSitting \in 1..MaxSittings /\ 0 \in 0..MaxAlerts
  BY <1>1 DEF TrailTypeOK, Active
<1> QED BY <1>2 DEF PeerJoined, Events

LEMMA AuditInvInit == AuditInit => AuditInv
<1> SUFFICES ASSUME AuditInit PROVE AuditInv
  OBVIOUS
<1> USE DEF AuditInit
<1>1. TrailTypeOK
  <2>1. adPeer \in Peers
    BY Zenon DEF Peers, Stranger
  <2>2. adGhost \in Ghosts
    BY Zenon DEF Ghosts
  <2> QED BY <2>1, <2>2, AuditAssumption DEF TrailTypeOK
<1>2. LiveAreCurrent /\ ShownIsWritten /\ FarewellIsInTime /\ NothingCrosses
  BY DEF LiveAreCurrent, ShownIsWritten, FarewellIsInTime, NothingCrosses
<1>3. ~adReport.read /\ adReport.rows = {} /\ ~adPeer.bound /\ ~adGhost.heard
  BY DEF Unread, Stranger
<1>4. ReportSeesRows /\ HeardIsKept
  BY <1>3 DEF ReportSeesRows, HeardIsKept
<1> QED BY <1>1, <1>2, <1>4 DEF AuditInv

(* A session begins with nothing seen, lost or heard.                      *)
LEMMA SessionBeginsKeeps == ASSUME AuditInv, SessionBegins PROVE AuditInv'
<1> USE DEF SessionBegins, AuditInv
<1> DEFINE new == [kind |-> "joined", n |-> 0, of |-> adSitting + 1, pc |-> "hello", live |-> TRUE]
<1>1. adGhost' = [adGhost EXCEPT !.seen = {}, !.lost = {}, !.heard = FALSE] /\ adGhost \in Ghosts
  BY DEF TrailTypeOK
<1>2. adGhost' \in Ghosts /\ adGhost'.seen = {} /\ adGhost'.heard = FALSE
  BY <1>1 DEF Ghosts
<1>3. TrailTypeOK'
  <2>1. new \in Tasks
    BY AuditAssumption DEF Tasks, TrailTypeOK
  <2>2. adPeer' \in Peers
    BY Zenon DEF Peers, Stranger
  <2>3. adSitting' \in 0..MaxSittings /\ adSitting' # 0
    BY AuditAssumption DEF TrailTypeOK
  <2> QED BY <1>2, <2>1, <2>2, <2>3 DEF TrailTypeOK
<1>4. LiveAreCurrent'
  <2>1. \A t \in adTasks : ~t.live
    BY DEF LiveAreCurrent
  <2> QED BY <2>1 DEF LiveAreCurrent, Active
<1>5. ShownIsWritten' /\ FarewellIsInTime' /\ NothingCrosses'
  BY <1>2 DEF ShownIsWritten, FarewellIsInTime, NothingCrosses
<1>6. ~adReport'.read /\ adReport'.rows = {} /\ ~adPeer'.bound
  BY DEF Unread, Stranger
<1>7. ReportSeesRows' /\ HeardIsKept'
  BY <1>2, <1>6 DEF ReportSeesRows, HeardIsKept
<1> QED BY <1>3, <1>4, <1>5, <1>7

(* Appending events of this session, or of an alert of ours, to the panel. *)
LEMMA AppendKeeps ==
  ASSUME AuditInv, NEW E \in SUBSET Events, Appended(E),
         \A e \in E : e.of = adSitting \/ e.kind = "alert",
         \A e \in E : e.kind = "left" => adLeave = "farewell",
         UNCHANGED <<adSitting, adLeave, adRows, adTiles, adGhost>>
  PROVE  /\ adPanel' \in SUBSET Events /\ adPending' \in SUBSET Events
         /\ adPanel \subseteq adPanel'
         /\ ShownIsWritten' /\ FarewellIsInTime' /\ NothingCrosses'
<1> USE DEF AuditInv, Appended
<1>1. adPanel' \in SUBSET Events /\ adPending' \in SUBSET Events
  BY DEF TrailTypeOK
<1>2. ShownIsWritten'
  BY DEF ShownIsWritten
<1>3. FarewellIsInTime'
  BY DEF FarewellIsInTime
<1>4. NothingCrosses'
  BY DEF NothingCrosses
<1> QED BY <1>1, <1>2, <1>3, <1>4

LEMMA HelloSentKeeps == ASSUME AuditInv, NEW t \in adTasks, HelloSent(t) PROVE AuditInv'
<1> USE DEF HelloSent, AuditInv, Elsewhere, adStore
<1>1. \A u \in adTasks' : u \in adTasks \/ (u = [t EXCEPT !.pc = "sign"])
  BY DEF Moves, Finishes
<1>2. t \in Tasks /\ [t EXCEPT !.pc = "sign"] \in Tasks
      /\ [t EXCEPT !.pc = "sign"].live = t.live /\ [t EXCEPT !.pc = "sign"].of = t.of
      /\ [t EXCEPT !.pc = "sign"].kind = t.kind
  BY DEF TrailTypeOK, Tasks
<1>3. TrailTypeOK'
  BY <1>1, <1>2 DEF TrailTypeOK
<1>4. LiveAreCurrent'
  BY <1>1, <1>2 DEF LiveAreCurrent, Active
<1>5. ShownIsWritten' /\ FarewellIsInTime' /\ NothingCrosses' /\ ReportSeesRows' /\ HeardIsKept'
  BY DEF ShownIsWritten, FarewellIsInTime, NothingCrosses, ReportSeesRows, HeardIsKept, PeerJoined
<1> QED BY <1>3, <1>4, <1>5

LEMMA AlertRaisedKeeps == ASSUME AuditInv, AlertRaised PROVE AuditInv'
<1> USE DEF AlertRaised, AuditInv, adStore
<1> DEFINE new == Task("alert", adAlerts + 1, "sign")
<1>1. new \in Tasks /\ new.of = adSitting /\ new.kind = "alert"
  BY AuditAssumption DEF Task, Tasks, TrailTypeOK, Active
<1> HIDE DEF new
<1>2. adTasks' = adTasks \union {new}
  BY DEF new
<1>3. TrailTypeOK'
  BY <1>1, <1>2, AuditAssumption DEF TrailTypeOK
<1>4. LiveAreCurrent'
  BY <1>1, <1>2 DEF LiveAreCurrent, Active
<1>5. ShownIsWritten' /\ FarewellIsInTime' /\ NothingCrosses' /\ ReportSeesRows' /\ HeardIsKept'
  BY DEF ShownIsWritten, FarewellIsInTime, NothingCrosses, ReportSeesRows, HeardIsKept, PeerJoined
<1> QED BY <1>3, <1>4, <1>5

LEMMA SignedKeeps ==
  ASSUME AuditInv, NEW t \in adTasks, NEW ok \in BOOLEAN, Signed(t, ok)
  PROVE  AuditInv'
<1> USE DEF Signed, AuditInv, Elsewhere
<1> DEFINE moved == [t EXCEPT !.pc = "tell"]
<1>1. t \in Tasks /\ moved \in Tasks /\ moved.live = t.live /\ moved.of = t.of
      /\ moved.kind = t.kind
  BY DEF TrailTypeOK, Tasks
<1> HIDE DEF moved
<1>2. \A u \in adTasks' : u \in adTasks \/ u = moved
  BY DEF Moves, Finishes, moved
<1>3. LiveAreCurrent' /\ adTasks' \in SUBSET Tasks
  BY <1>1, <1>2 DEF LiveAreCurrent, Active, TrailTypeOK
<1>4. /\ adPanel' \in SUBSET Events /\ adPending' \in SUBSET Events
      /\ adPanel \subseteq adPanel'
      /\ ShownIsWritten' /\ FarewellIsInTime' /\ NothingCrosses'
  <2>1. CASE ok /\ MayAppend(t)
    <3>1. Event(t) \in Events /\ Event(t).of = t.of /\ Event(t).kind = t.kind
      BY <1>1 DEF Event, Events, Tasks
    <3>2. t.of = adSitting \/ t.kind = "alert"
      BY <1>1, <2>1 DEF MayAppend, IsCurrent, LiveAreCurrent, Tasks
    <3>3. t.kind = "left" => adLeave = "farewell"
      BY <1>1, <2>1 DEF MayAppend, LiveAreCurrent
    <3>4. Appended({Event(t)})
      BY <2>1
    <3> QED BY <3>1, <3>2, <3>3, <3>4, AppendKeeps
  <2>2. CASE ~(ok /\ MayAppend(t))
    <3>1. UNCHANGED <<adPanel, adPending>>
      BY <2>2 DEF adStore
    <3> QED BY <3>1 DEF TrailTypeOK, ShownIsWritten, FarewellIsInTime, NothingCrosses
  <2> QED BY <2>1, <2>2
<1>5. TrailTypeOK'
  BY <1>3, <1>4 DEF TrailTypeOK
<1>6. ReportSeesRows' /\ HeardIsKept'
  BY <1>4 DEF ReportSeesRows, HeardIsKept, PeerJoined
<1> QED BY <1>3, <1>4, <1>5, <1>6

LEMMA ToldKeeps == ASSUME AuditInv, NEW t \in adTasks, Told(t) PROVE AuditInv'
<1> USE DEF Told, AuditInv, Elsewhere, adStore, Finishes
<1>1. TrailTypeOK' /\ LiveAreCurrent'
  BY DEF TrailTypeOK, LiveAreCurrent, Active
<1>2. NothingCrosses'
  <2>1. t.live => Event(t).of = adSitting
    BY DEF Event, LiveAreCurrent
  <2> QED BY <2>1 DEF NothingCrosses
<1>3. ShownIsWritten' /\ FarewellIsInTime' /\ ReportSeesRows' /\ HeardIsKept'
  BY DEF ShownIsWritten, FarewellIsInTime, ReportSeesRows, HeardIsKept, PeerJoined
<1> QED BY <1>1, <1>2, <1>3

LEMMA DispatchTimesOutKeeps ==
  ASSUME AuditInv, NEW t \in adTasks, DispatchTimesOut(t) PROVE AuditInv'
<1> USE DEF DispatchTimesOut, AuditInv, Elsewhere, adStore
<1> DEFINE dead == [t EXCEPT !.live = FALSE]
<1>1. dead \in Tasks /\ ~dead.live
  BY DEF TrailTypeOK, Tasks
<1> HIDE DEF dead
<1>2. adTasks' = (adTasks \ {t}) \union {dead}
  BY DEF dead
<1>3. TrailTypeOK' /\ LiveAreCurrent'
  BY <1>1, <1>2 DEF TrailTypeOK, LiveAreCurrent, Active
<1>4. ShownIsWritten' /\ FarewellIsInTime' /\ NothingCrosses' /\ ReportSeesRows' /\ HeardIsKept'
  BY DEF ShownIsWritten, FarewellIsInTime, NothingCrosses, ReportSeesRows, HeardIsKept, PeerJoined
<1> QED BY <1>3, <1>4

LEMMA SettlesKeeps ==
  ASSUME AuditInv, NEW e \in adPending, NEW ok \in BOOLEAN, Settles(e, ok) PROVE AuditInv'
<1> USE DEF Settles, AuditInv
<1>1. /\ adGhost' \in Ghosts /\ adGhost'.seen = adGhost.seen /\ adGhost'.heard = adGhost.heard
      /\ adGhost'.lost = IF ok \/ e.of # adSitting THEN adGhost.lost ELSE adGhost.lost \union {e}
  BY DEF TrailTypeOK, Ghosts
<1>2. adRows' = IF ok /\ e.of = adSitting THEN adRows \union {e} ELSE adRows
  OBVIOUS
<1>3. TrailTypeOK'
  BY <1>1 DEF TrailTypeOK
<1>4. ShownIsWritten'
  BY <1>1, <1>2 DEF ShownIsWritten
<1>5. ReportSeesRows'
  BY <1>1, <1>2 DEF ReportSeesRows
<1>6. LiveAreCurrent' /\ FarewellIsInTime' /\ NothingCrosses' /\ HeardIsKept'
  BY <1>1 DEF LiveAreCurrent, Active, FarewellIsInTime, NothingCrosses, HeardIsKept, PeerJoined
<1> QED BY <1>3, <1>4, <1>5, <1>6

(* The peer: what it becomes, and what its promotion shows.                *)
LEMMA PeerBecomesKeeps ==
  ASSUME AuditInv, NEW p \in Peers, PeerBecomes(p), InRoom, UNCHANGED adGhost,
         p.bound => p.in, p.bound = adPeer.bound, adPeer.stash = p.stash
  PROVE  AuditInv'
<1> USE DEF PeerBecomes, AuditInv
<1> DEFINE E == PromotionAppends(p)
<1>1. E \in SUBSET Events /\ \A e \in E : e.of = adSitting /\ e.kind = "peer joined"
  <2>1. Active
    BY DEF InRoom, Active
  <2>2. PeerJoined \in Events /\ PeerJoined.of = adSitting /\ PeerJoined.kind = "peer joined"
    BY <2>1, PeerJoinedIsEvent
  <2>3. E = {} \/ E = {PeerJoined}
    BY DEF PromotionAppends
  <2> HIDE DEF E
  <2> QED BY <2>2, <2>3
<1> HIDE DEF E
<1>2. Appended(E)
  BY DEF E
<1>3. /\ adPanel' \in SUBSET Events /\ adPending' \in SUBSET Events
      /\ adPanel \subseteq adPanel'
      /\ ShownIsWritten' /\ FarewellIsInTime' /\ NothingCrosses'
  BY <1>1, <1>2, AppendKeeps
<1>4. adPeer' \in Peers
  BY DEF Promoted, Peers
<1>5. TrailTypeOK' /\ LiveAreCurrent' /\ ReportSeesRows'
  BY <1>3, <1>4 DEF TrailTypeOK, LiveAreCurrent, Active, ReportSeesRows
<1>6. HeardIsKept'
  <2>1. CASE p.in /\ p.hello /\ IsCurrent(adSitting)
    <3>1. adPeer'.bound /\ adPeer'.in
      BY <2>1 DEF Promoted, Peers
    <3>2. p.stash => PeerJoined \in adPanel'
      BY <1>2, <2>1 DEF E, PromotionAppends, Appended
    <3> QED BY <1>3, <3>1, <3>2 DEF HeardIsKept, PeerJoined
  <2>2. CASE ~(p.in /\ p.hello /\ IsCurrent(adSitting))
    <3>1. adPeer' = p
      BY <2>2 DEF Promoted
    <3> QED BY <1>3, <3>1 DEF HeardIsKept, PeerJoined
  <2> QED BY <2>1, <2>2
<1> QED BY <1>3, <1>5, <1>6

LEMMA PeerArrivesKeeps == ASSUME AuditInv, PeerAdmitted \/ PeerHelloArrives PROVE AuditInv'
<1>1. CASE PeerAdmitted
  <2> DEFINE p == [adPeer EXCEPT !.in = TRUE]
  <2>1. p \in Peers /\ p.in = TRUE /\ p.bound = adPeer.bound /\ p.stash = adPeer.stash
    BY DEF AuditInv, TrailTypeOK, Peers
  <2> QED BY <1>1, <2>1, PeerBecomesKeeps DEF PeerAdmitted
<1>2. CASE PeerHelloArrives
  <2> DEFINE p == [adPeer EXCEPT !.hello = TRUE]
  <2>1. p \in Peers /\ p.in = adPeer.in /\ p.bound = adPeer.bound /\ p.stash = adPeer.stash
    BY DEF AuditInv, TrailTypeOK, Peers
  <2>2. p.bound => p.in
    BY <2>1 DEF AuditInv, HeardIsKept
  <2> QED BY <1>2, <2>1, <2>2, PeerBecomesKeeps DEF PeerHelloArrives
<1> QED BY <1>1, <1>2

LEMMA JoinedArrivesKeeps == ASSUME AuditInv, JoinedArrives PROVE AuditInv'
<1> USE DEF JoinedArrives, AuditInv
<1>1. CASE ~IsCurrent(adSitting) \/ ~(adPeer.bound \/ adPeer.hello)
  BY <1>1 DEF adStore, TrailTypeOK, LiveAreCurrent, Active, ShownIsWritten, ReportSeesRows,
              HeardIsKept, PeerJoined, FarewellIsInTime, NothingCrosses
<1>2. CASE IsCurrent(adSitting) /\ adPeer.bound
  <2>1. /\ adGhost' \in Ghosts /\ adGhost'.seen = adGhost.seen /\ adGhost'.lost = adGhost.lost
    BY <1>2 DEF TrailTypeOK, Ghosts
  <2>2. PeerJoined \in Events /\ PeerJoined.of = adSitting /\ PeerJoined.kind = "peer joined"
    BY <1>2, PeerJoinedIsEvent DEF IsCurrent
  <2>3. /\ adPanel' = adPanel \union {PeerJoined}
        /\ adPending' = adPending \union ({PeerJoined} \ adPanel)
    BY <1>2 DEF Appended
  <2>4. TrailTypeOK'
    BY <1>2, <2>1, <2>2, <2>3 DEF TrailTypeOK
  <2>5. ShownIsWritten' /\ FarewellIsInTime' /\ NothingCrosses'
    BY <2>1, <2>2, <2>3 DEF ShownIsWritten, FarewellIsInTime, NothingCrosses
  <2>6. LiveAreCurrent' /\ ReportSeesRows'
    BY <2>1 DEF LiveAreCurrent, Active, ReportSeesRows
  <2>7. HeardIsKept'
    BY <1>2, <2>3 DEF HeardIsKept, PeerJoined
  <2> QED BY <2>4, <2>5, <2>6, <2>7
<1>3. CASE IsCurrent(adSitting) /\ ~adPeer.bound /\ adPeer.hello
  <2>1. /\ adGhost' \in Ghosts /\ adGhost'.seen = adGhost.seen /\ adGhost'.lost = adGhost.lost
    BY <1>3 DEF TrailTypeOK, Ghosts
  <2>2. adPeer' \in Peers /\ ~adPeer'.bound /\ adPeer'.stash
    BY <1>3 DEF TrailTypeOK, Peers
  <2>3. TrailTypeOK'
    BY <1>3, <2>1, <2>2 DEF TrailTypeOK, adStore
  <2>4. ShownIsWritten' /\ FarewellIsInTime' /\ NothingCrosses'
    BY <1>3, <2>1 DEF ShownIsWritten, FarewellIsInTime, NothingCrosses, adStore
  <2>5. LiveAreCurrent' /\ ReportSeesRows' /\ HeardIsKept'
    BY <2>1, <2>2 DEF LiveAreCurrent, Active, ReportSeesRows, HeardIsKept
  <2> QED BY <2>3, <2>4, <2>5
<1> QED BY <1>1, <1>2, <1>3

LEMMA PeerLeavesKeeps == ASSUME AuditInv, PeerLeaves PROVE AuditInv'
<1> USE DEF PeerLeaves, AuditInv
<1>1. /\ adGhost' \in Ghosts /\ adGhost'.seen = adGhost.seen /\ adGhost'.lost = adGhost.lost
      /\ adGhost'.heard = FALSE
  BY DEF TrailTypeOK, Ghosts
<1>2. adPeer' \in Peers /\ adPeer'.bound = FALSE
  BY Zenon DEF Peers, Stranger
<1> QED BY <1>1, <1>2 DEF TrailTypeOK, adStore, LiveAreCurrent, Active, ShownIsWritten,
           ReportSeesRows, HeardIsKept, FarewellIsInTime, NothingCrosses

(* The steps of leaving.                                                   *)
LEMMA LeaveKeeps ==
  ASSUME AuditInv, NEW from, NEW to \in {"farewell", "room", "flush", "reflush", "ended"},
         LeaveGoes(from, to), from # "none", from # "ended", to = "reflush" => from = "save",
         to = "ended" => from = "companion",
         to \notin Leaving => from \notin Leaving,
         adTasks' \in SUBSET Tasks,
         \A t \in adTasks' : t.live =>
           to # "ended" /\ t.of = adSitting /\ (t.kind = "left" => to = "farewell"),
         adPeer' \in Peers, adGhost' \in Ghosts, HeardIsKept',
         adGhost'.seen = adGhost.seen, adGhost'.lost = adGhost.lost
  PROVE  AuditInv'
<1> USE DEF LeaveGoes, AuditInv, adStore
<1>1. TrailTypeOK'
  BY DEF TrailTypeOK, Leaving
<1>2. LiveAreCurrent'
  BY DEF LiveAreCurrent, Active
<1>3. ShownIsWritten' /\ NothingCrosses' /\ ReportSeesRows'
  BY DEF ShownIsWritten, NothingCrosses, ReportSeesRows
<1>4. FarewellIsInTime'
  BY DEF FarewellIsInTime, Leaving
<1> QED BY <1>1, <1>2, <1>3, <1>4

LEMMA LeaveBeginsKeeps ==
  ASSUME AuditInv, NEW asked \in BOOLEAN, NEW announces \in BOOLEAN,
         LeaveBegins(asked, announces)
  PROVE  AuditInv'
<1> USE DEF LeaveBegins, AuditInv
<1> DEFINE to == IF announces THEN "farewell" ELSE "room"
           new == Task("left", 0, "sign")
<1>1. LeaveGoes("no", to) /\ adLeave = "no" /\ Active
  BY DEF LeaveGoes, Active
<1>2. new \in Tasks /\ new.of = adSitting /\ new.kind = "left"
  <2>1. MaxAlerts \in Nat /\ MaxSittings \in Nat
    BY AuditAssumption
  <2>2. adSitting \in 1..MaxSittings /\ 0 \in 0..MaxAlerts
    BY <1>1, <2>1 DEF TrailTypeOK
  <2> QED BY <2>2 DEF Task, Tasks
<1> HIDE DEF new
<1>3. adTasks' = IF announces THEN adTasks \union {new} ELSE adTasks
  BY DEF new
<1>4. adTasks' \in SUBSET Tasks
  BY <1>2, <1>3 DEF TrailTypeOK
<1>5. \A t \in adTasks' : t.live => t.of = adSitting /\ (t.kind = "left" => to = "farewell")
  BY <1>1, <1>2, <1>3 DEF LiveAreCurrent
<1>6. adPeer' \in Peers /\ adGhost' \in Ghosts /\ HeardIsKept' /\ adGhost' = adGhost
  BY <1>1 DEF TrailTypeOK, HeardIsKept, PeerJoined, LeaveGoes, adStore
<1>7. to \in {"farewell", "room"}
  OBVIOUS
<1> HIDE DEF to, LeaveBegins
<1> QED BY <1>1, <1>4, <1>5, <1>6, <1>7, LeaveKeeps DEF Leaving

LEMMA FarewellOverKeeps == ASSUME AuditInv, FarewellOver PROVE AuditInv'
<1> USE DEF FarewellOver, AuditInv
<1>1. ASSUME NEW u \in adTasks'
      PROVE  u \in Tasks /\ (u.live => u.of = adSitting /\ u.kind # "left")
  <2>1. PICK t \in adTasks : u = IF t.kind = "left" THEN [t EXCEPT !.live = FALSE] ELSE t
    BY <1>1
  <2>2. CASE t.kind = "left"
    BY <2>1, <2>2 DEF TrailTypeOK, Tasks
  <2>3. CASE t.kind # "left"
    BY <2>1, <2>3 DEF TrailTypeOK, LiveAreCurrent
  <2> QED BY <2>2, <2>3
<1>2. adPeer' \in Peers /\ adGhost' \in Ghosts /\ HeardIsKept' /\ adGhost' = adGhost
  BY DEF TrailTypeOK, HeardIsKept, PeerJoined, LeaveGoes, adStore
<1> QED BY <1>1, <1>2, LeaveKeeps DEF Leaving

LEMMA RoomLeftKeeps == ASSUME AuditInv, RoomLeft PROVE AuditInv'
<1> USE DEF RoomLeft, AuditInv
<1>1. /\ adGhost' \in Ghosts /\ adGhost'.seen = adGhost.seen /\ adGhost'.lost = adGhost.lost
      /\ adGhost'.heard = FALSE
  BY DEF TrailTypeOK, Ghosts
<1>2. adPeer' \in Peers /\ adPeer'.bound = FALSE
  BY Zenon DEF Peers, Stranger
<1>3. adTasks' \in SUBSET Tasks
      /\ \A t \in adTasks' : t.live => t.of = adSitting /\ t.kind # "left"
  BY DEF TrailTypeOK, LiveAreCurrent, LeaveGoes
<1>4. HeardIsKept'
  BY <1>1, <1>2 DEF HeardIsKept
<1> QED BY <1>1, <1>2, <1>3, <1>4, LeaveKeeps DEF Leaving

LEMMA SavedKeeps == ASSUME AuditInv, Saved PROVE AuditInv'
<1> USE DEF Saved, AuditInv
<1>1. adTasks' \in SUBSET Tasks
      /\ \A t \in adTasks' : t.live => t.of = adSitting /\ t.kind # "left"
  BY DEF TrailTypeOK, LiveAreCurrent, LeaveGoes
<1>2. adPeer' \in Peers /\ adGhost' \in Ghosts /\ HeardIsKept' /\ adGhost' = adGhost
  BY DEF TrailTypeOK, HeardIsKept, PeerJoined, LeaveGoes, adStore
<1> QED BY <1>1, <1>2, LeaveKeeps DEF Leaving

LEMMA EndedKeeps == ASSUME AuditInv, Ended PROVE AuditInv'
<1> USE DEF Ended, AuditInv
<1>1. ASSUME NEW u \in adTasks' PROVE u \in Tasks /\ ~u.live
  <2>1. PICK t \in adTasks : u = [t EXCEPT !.live = FALSE]
    BY <1>1
  <2> QED BY <2>1 DEF TrailTypeOK, Tasks
<1>2. adPeer' \in Peers /\ adGhost' \in Ghosts /\ HeardIsKept' /\ adGhost' = adGhost
  BY DEF TrailTypeOK, HeardIsKept, PeerJoined, LeaveGoes, adStore
<1> QED BY <1>1, <1>2, LeaveKeeps DEF Leaving

LEMMA FlushBatchKeeps == ASSUME AuditInv, NEW pc, FlushBatch(pc) PROVE AuditInv'
BY DEF FlushBatch, AuditInv, adStore, TrailTypeOK, LiveAreCurrent, Active, ShownIsWritten,
       ReportSeesRows, HeardIsKept, PeerJoined, FarewellIsInTime, NothingCrosses

(* The end of a flush: all the panel shows of this session is written now. *)
LEMMA FlushEndsKeeps ==
  ASSUME AuditInv,
         FlushEnds("flush", "save") \/ FlushEnds("reflush", "companion")
  PROVE  AuditInv'
<1> DEFINE shown == {e \in adPanel : e.of = adSitting}
<1> USE DEF FlushEnds, AuditInv
<1>1. /\ adGhost' \in Ghosts /\ adGhost'.lost = adGhost.lost /\ adGhost'.heard = adGhost.heard
      /\ adGhost'.seen = shown
  BY DEF TrailTypeOK, Ghosts
<1>2. adPending = {}
  BY DEF FlushDone
<1>3. ShownIsWritten'
  BY <1>1, <1>2 DEF ShownIsWritten, adStore
<1>4. FarewellIsInTime'
  BY <1>1 DEF FarewellIsInTime, adStore
<1>5. TrailTypeOK' /\ LiveAreCurrent' /\ NothingCrosses'
  BY <1>1 DEF TrailTypeOK, adStore, LiveAreCurrent, Active, NothingCrosses, Leaving
<1>6. ReportSeesRows' /\ HeardIsKept'
  BY <1>1 DEF ReportSeesRows, HeardIsKept, PeerJoined, adStore
<1> QED BY <1>3, <1>4, <1>5, <1>6

LEMMA ReportReadsKeeps == ASSUME AuditInv, ReportReads PROVE AuditInv'
BY DEF ReportReads, AuditInv, adStore, TrailTypeOK, LiveAreCurrent, Active, ShownIsWritten,
       ReportSeesRows, HeardIsKept, PeerJoined, FarewellIsInTime, NothingCrosses

LEMMA AuditInvNext == AuditInv /\ [AuditNext]_adVars => AuditInv'
<1> SUFFICES ASSUME AuditInv, [AuditNext]_adVars PROVE AuditInv'
  OBVIOUS
<1>1. CASE UNCHANGED adVars
  BY <1>1 DEF adVars, AuditInv, TrailTypeOK, LiveAreCurrent, Active, ShownIsWritten,
       ReportSeesRows, HeardIsKept, PeerJoined, FarewellIsInTime, NothingCrosses
<1> QED
  BY <1>1, SessionBeginsKeeps, HelloSentKeeps, AlertRaisedKeeps, SignedKeeps, ToldKeeps,
     DispatchTimesOutKeeps, SettlesKeeps, PeerArrivesKeeps, JoinedArrivesKeeps,
     PeerLeavesKeeps, LeaveBeginsKeeps, FarewellOverKeeps, RoomLeftKeeps, SavedKeeps,
     EndedKeeps, FlushBatchKeeps, FlushEndsKeeps, ReportReadsKeeps DEF AuditNext

(* However signatures, writes, flushes and a peer's messages interleave with *)
(* the end of a session and the beginning of the next: what the panel showed *)
(* at the last flush is in the report unless its write failed, no farewell   *)
(* comes after it, nothing but a late alert of ours shows up in another      *)
(* session, and a peer that is bound and said that it joined is shown.       *)
THEOREM AuditAlwaysSound == AuditSpec => []AuditIsSound
<1>1. AuditInv => AuditIsSound
  <2> SUFFICES ASSUME AuditInv PROVE AuditIsSound
    OBVIOUS
  <2> USE DEF AuditInv
  <2>1. AuditTypeOK
    BY DEF AuditTypeOK, TrailTypeOK, ReportSeesRows, HeardIsKept, Events
  <2>2. ReportIsComplete /\ JoinedIsShown
    BY DEF ReportIsComplete, ReportSeesRows, JoinedIsShown, HeardIsKept
  <2> QED BY <2>1, <2>2 DEF AuditIsSound
<1> QED BY <1>1, AuditInvInit, AuditInvNext, PTL DEF AuditSpec

----------------------------------------------------------------------------
(* Screen sharing: a screen that may arrive was announced, or its           *)
(* announcement is before it; the last thing the viewer is told is what is  *)
(* published; and its tile follows.                                         *)
(* The types of the variables.                                              *)
ScreenTyped ==
  /\ scLocal \in Screens \cup {NoScreen} /\ scNext \in 0..MaxShares
  /\ scLocal # NoScreen => scLocal \in 1..scNext
  /\ scSharer \in [joined : BOOLEAN, announced : BOOLEAN, published : BOOLEAN]
  /\ scViewer \in [joined : BOOLEAN, screenId : Screens \cup {NoScreen}, announced : BOOLEAN,
                   retired : SUBSET (Screens \cup {NoScreen})]
  /\ scToViewer \in Seq(Screens \cup {NoScreen})
  /\ scToSharer \in Seq({NoScreen})
  /\ scMedia \in SUBSET (Screens \cup {Camera})
  /\ scAdded \in Seq(0..scNext)
  /\ scMeta \in Seq(Screens \cup {NoScreen})

(* A side that has not seen the join sends nothing, one that has not heard  *)
(* anything has it all to come.                                             *)
WireIsFresh ==
  /\ ~scSharer.joined => scAdded = <<>> /\ scMedia = {} /\ scToViewer = <<>>
  /\ scSharer.joined /\ ~scViewer.joined => scToViewer # <<>>
  /\ scViewer.joined /\ ~(scSharer.joined /\ scSharer.announced) => scToSharer # <<>>

(* A screen that may arrive has been announced, or its announce is before   *)
(* it.                                                                      *)
ScreensAreTold ==
  \A s \in scMedia \cap Screens :
    \/ s \in Range(scToViewer)
    \/ scViewer.joined /\ (s = scViewer.screenId \/ s \in scViewer.retired)

(* What the viewer is told last.                                            *)
LastTold == IF scToViewer = <<>> THEN scViewer.screenId ELSE scToViewer[Len(scToViewer)]

(* What is published is what the viewer is told last, and is on its way or  *)
(* shown; what is not was never added to the connection.                    *)
PublishedOnce ==
  scSharer.joined =>
    /\ scLocal = NoScreen \/ scSharer.published => LastTold = scLocal
    /\ scSharer.published => /\ scLocal # NoScreen
                             /\ \/ scLocal \in scMedia
                                \/ scTile = scLocal /\ scToViewer = <<>>
    /\ scSharer.announced /\ scLocal # NoScreen => scSharer.published
    /\ ~scSharer.published => scLocal \notin Range(scAdded)

(* A viewer that was told of no screen shows none.                          *)
NoneNoTile == scViewer.joined /\ scViewer.screenId = NoScreen => scTile = NoScreen

(* The inductive invariant.                                                 *)
ScreenInv ==
  /\ ScreenTyped /\ WireIsFresh /\ ScreensAreTold /\ PublishedOnce /\ NoneNoTile
  /\ FaceIsAFace /\ AddedOnce

(* The names of the screens are numbers, and that of the camera is none of  *)
(* them.                                                                    *)
LEMMA Numbers ==
  /\ MaxShares \in Nat /\ MaxWires \in Nat /\ NoScreen \notin Screens /\ Camera \notin Screens
  /\ NoScreen # Camera /\ NoScreen \in Nat
BY ScreenAssumption DEF NoScreen, Screens, Camera

(* The range of a sequence with one more at its end, and with one less at   *)
(* its head.                                                                *)
LEMMA RangeOfAppend ==
  ASSUME NEW S, NEW q \in Seq(S), NEW x \in S
  PROVE  Range(Append(q, x)) = Range(q) \cup {x}
<1>1. /\ Len(q) \in Nat /\ DOMAIN q = 1..Len(q)
      /\ DOMAIN Append(q, x) = 1..Len(q) + 1
      /\ Append(q, x)[Len(q) + 1] = x
      /\ \A i \in 1..Len(q) : Append(q, x)[i] = q[i]
  OBVIOUS
<1> QED BY <1>1 DEF Range

LEMMA RangeOfTail ==
  ASSUME NEW S, NEW q \in Seq(S), q # <<>>
  PROVE  Range(q) = Range(Tail(q)) \cup {Head(q)}
<1>1. /\ Len(q) \in Nat \ {0} /\ DOMAIN q = 1..Len(q) /\ Head(q) = q[1]
      /\ DOMAIN Tail(q) = 1..Len(q) - 1
      /\ \A i \in 1..Len(q) - 1 : Tail(q)[i] = q[i + 1]
  OBVIOUS
<1>2. \A i \in 1..Len(q) : i = 1 \/ (i - 1 \in 1..Len(q) - 1 /\ q[i] = Tail(q)[i - 1])
  BY <1>1
<1>3. \A i \in 1..Len(q) - 1 : i + 1 \in 1..Len(q) /\ 1 \in 1..Len(q)
  BY <1>1
<1>4. ASSUME NEW x \in Range(q) PROVE x \in Range(Tail(q)) \cup {Head(q)}
  <2>1. PICK i \in 1..Len(q) : x = q[i]
    BY <1>1, <1>4 DEF Range
  <2>2. CASE i = 1
    BY <1>1, <2>1, <2>2
  <2>3. CASE i # 1
    <3>1. i - 1 \in DOMAIN Tail(q) /\ x = Tail(q)[i - 1]
      BY <1>1, <1>2, <2>1, <2>3
    <3> QED BY <3>1 DEF Range
  <2> QED BY <2>2, <2>3
<1>5. \A x \in Range(Tail(q)) \cup {Head(q)} : x \in Range(q)
  BY <1>1, <1>3 DEF Range
<1> QED BY <1>4, <1>5

(* One more stream is added once if it was never added.                     *)
LEMMA AddedOne ==
  ASSUME AddedOnce, scAdded \in Seq(Nat), NEW x \in Nat, x \notin Range(scAdded),
         scAdded' = Append(scAdded, x)
  PROVE  AddedOnce'
BY DEF AddedOnce, Range

(* The first state.                                                         *)
LEMMA ScreenStart == ScreenInit => ScreenInv
<1> SUFFICES ASSUME ScreenInit PROVE ScreenInv
  OBVIOUS
<1>1. ScreenTyped
  BY Numbers DEF ScreenInit, ScreenTyped, FreshSharer, FreshViewer
<1>2. Range(scAdded) = {} /\ Range(scToViewer) = {}
  BY DEF Range, ScreenInit
<1>3. WireIsFresh /\ ScreensAreTold /\ PublishedOnce /\ NoneNoTile /\ FaceIsAFace /\ AddedOnce
  BY DEF ScreenInit, FreshSharer, FreshViewer, WireIsFresh, ScreensAreTold, PublishedOnce,
         NoneNoTile, FaceIsAFace, AddedOnce
<1> QED BY <1>1, <1>3 DEF ScreenInv

(* A stream is published to the viewer.                                     *)
LEMMA PublishesKeeps ==
  ASSUME ScreenInv, scSharer.joined, NEW s, Publishes(s, scLocal'),
         s \in [joined : BOOLEAN, announced : BOOLEAN, published : BOOLEAN], s.joined,
         scSharer.announced => s.announced,
         s.announced \/ (scToSharer' # <<>> \/ ~scViewer.joined),
         \/ /\ scNext' = scNext + 1 /\ scLocal' = scNext' /\ scNext' \in Screens /\ ~s.published
            /\ s.announced = scSharer.announced
         \/ scNext' = scNext /\ scLocal' = scLocal /\ s.published = scSharer.published,
         scToSharer' \in Seq({NoScreen}),
         UNCHANGED <<scViewer, scFace, scTile>>
  PROVE  ScreenInv'
<1> USE DEF ScreenInv, ScreenTyped
<1>0. scNext' \in 0..MaxShares /\ scNext \in 0..scNext' /\ scNext \in Nat
      /\ scLocal' \in Screens \cup {NoScreen}
      /\ (scLocal' # NoScreen => scLocal' \in 1..scNext' /\ scLocal' \in Screens)
  BY Numbers DEF Screens
<1>1. CASE scLocal' # NoScreen /\ MayPublish(s)
  <2>1. /\ scSharer' = [s EXCEPT !.published = TRUE]
        /\ scToViewer' = Append(scToViewer, scLocal') /\ scMedia' = scMedia \cup {scLocal'}
        /\ scAdded' = Append(scAdded, scLocal') /\ scMeta' = Append(scMeta, scLocal')
    BY <1>1 DEF Publishes
  <2>2. scLocal' \notin Range(scAdded)
    <3>1. CASE scNext' = scNext
      <4>1. scLocal' = scLocal /\ s.published = scSharer.published
        BY <1>0, <3>1
      <4>2. ~scSharer.published
        BY <1>1, <4>1 DEF MayPublish
      <4> QED BY <4>1, <4>2 DEF PublishedOnce
    <3>2. CASE scNext' = scNext + 1
      BY <1>0, <3>2, Numbers DEF Range
    <3> QED BY <3>1, <3>2
  <2>3. scAdded \in Seq(0..scNext') /\ scAdded \in Seq(Nat) /\ scLocal' \in 0..scNext'
    BY <1>0, <1>1
  <2>4. scSharer' \in [joined : BOOLEAN, announced : BOOLEAN, published : BOOLEAN]
        /\ scSharer'.joined /\ scSharer'.announced /\ scSharer'.published
    BY <1>1, <2>1 DEF MayPublish
  <2>5. ScreenTyped'
    <3>1. scToViewer' \in Seq(Screens \cup {NoScreen}) /\ scAdded' \in Seq(0..scNext')
          /\ scMeta' \in Seq(Screens \cup {NoScreen})
      BY <1>0, <2>1, <2>3
    <3>2. scMedia' \in SUBSET (Screens \cup {Camera})
      BY <1>0, <1>1, <2>1
    <3> QED BY <1>0, <2>4, <3>1, <3>2
  <2>6. WireIsFresh' /\ scToViewer' # <<>>
    <3>1. scToViewer' # <<>>
      <4>1. scToViewer \in Seq(Screens \cup {NoScreen})
        OBVIOUS
      <4> HIDE DEF ScreenInv, ScreenTyped
      <4> QED BY <2>1, <4>1
    <3> QED BY <2>1, <2>4, <3>1 DEF WireIsFresh
  <2>7. ScreensAreTold'
    <3>1. Range(scToViewer') = Range(scToViewer) \cup {scLocal'}
      <4>1. scToViewer \in Seq(Screens \cup {NoScreen}) /\ scLocal' \in Screens \cup {NoScreen}
        BY <1>0
      <4>2. Range(Append(scToViewer, scLocal')) = Range(scToViewer) \cup {scLocal'}
        <5> DEFINE T == Screens \cup {NoScreen}
        <5>1. \A q \in Seq(T), x \in T : Range(Append(q, x)) = Range(q) \cup {x}
          <6> HIDE DEF T
          <6> QED BY RangeOfAppend
        <5> QED BY <4>1, <5>1
      <4> QED BY <2>1, <4>2
    <3> QED BY <2>1, <3>1 DEF ScreensAreTold
  <2>8. LastTold' = scLocal'
    BY <1>0, <2>1, <2>6 DEF LastTold
  <2>9. PublishedOnce'
    BY <1>1, <2>1, <2>4, <2>8 DEF PublishedOnce
  <2>10. AddedOnce'
    BY <2>1, <2>2, <2>3, AddedOne
  <2> QED BY <2>5, <2>6, <2>7, <2>9, <2>10 DEF NoneNoTile, FaceIsAFace
<1>2. CASE ~(scLocal' # NoScreen /\ MayPublish(s))
  <2>1. scSharer' = s /\ scToViewer' = scToViewer /\ scMedia' = scMedia /\ scAdded' = scAdded
        /\ scMeta' = scMeta
    BY <1>2 DEF Publishes
  <2>2. scAdded \in Seq(0..scNext')
    BY <1>0
  <2>3. ScreenTyped'
    BY <1>0, <2>1, <2>2
  <2>4. WireIsFresh' /\ ScreensAreTold' /\ NoneNoTile' /\ FaceIsAFace' /\ AddedOnce'
    BY <2>1 DEF WireIsFresh, ScreensAreTold, NoneNoTile, FaceIsAFace, AddedOnce
  <2>5. PublishedOnce'
    <3>1. CASE scNext' = scNext
      BY <1>2, <2>1, <3>1 DEF PublishedOnce, LastTold, MayPublish
    <3>2. CASE scNext' = scNext + 1
      <4>1. scLocal' \notin Range(scAdded) /\ scLocal' # NoScreen
        BY <1>0, <3>2, Numbers DEF Range
      <4> QED BY <1>2, <2>1, <3>2, <4>1 DEF PublishedOnce, LastTold, MayPublish
    <3> QED BY <3>1, <3>2
  <2> QED BY <2>3, <2>4, <2>5
<1> QED BY <1>1, <1>2

(* Sharing begins.                                                          *)
LEMMA PublishKeeps == ScreenInv /\ Publish => ScreenInv'
<1> SUFFICES ASSUME ScreenInv, Publish PROVE ScreenInv'
  OBVIOUS
<1>1. /\ scNext + 1 \in Screens /\ scNext' = scNext + 1 /\ scLocal' = scNext + 1
      /\ UNCHANGED <<scViewer, scToSharer, scFace, scTile>>
  BY DEF Publish
<1>2. CASE scSharer.joined
  <2> DEFINE s == [scSharer EXCEPT !.published = FALSE]
  <2>1. Publishes(s, scLocal')
    BY <1>1, <1>2 DEF Publish
  <2>2. /\ s \in [joined : BOOLEAN, announced : BOOLEAN, published : BOOLEAN]
        /\ s.joined /\ ~s.published /\ s.announced = scSharer.announced
    BY <1>2 DEF ScreenInv, ScreenTyped
  <2> HIDE DEF s
  <2> QED BY <1>1, <1>2, <2>1, <2>2, PublishesKeeps DEF ScreenInv, ScreenTyped, WireIsFresh
<1>3. CASE ~scSharer.joined
  <2>1. /\ scSharer' = [scSharer EXCEPT !.published = scSharer.announced]
        /\ UNCHANGED <<scToViewer, scMedia, scMeta, scAdded>>
    BY <1>3 DEF Publish
  <2>2. /\ scSharer' \in [joined : BOOLEAN, announced : BOOLEAN, published : BOOLEAN]
        /\ ~scSharer'.joined
    BY <1>3, <2>1 DEF ScreenInv, ScreenTyped
  <2>3. scNext' \in 0..MaxShares /\ scLocal' \in 1..scNext' /\ scLocal' \in Screens
    BY <1>1, Numbers DEF Screens, ScreenInv, ScreenTyped
  <2>4. scAdded = <<>>
    BY <1>3 DEF ScreenInv, WireIsFresh
  <2>5. ScreenTyped'
    BY <1>1, <2>1, <2>2, <2>3, <2>4 DEF ScreenInv, ScreenTyped
  <2> QED BY <1>1, <1>3, <2>1, <2>2, <2>5
          DEF ScreenInv, WireIsFresh, ScreensAreTold, PublishedOnce, NoneNoTile, FaceIsAFace,
              AddedOnce
<1> QED BY <1>2, <1>3

(* The sharer hears that the viewer is there, and publishes what it has.    *)
LEMMA SharerHearsKeeps == ScreenInv /\ SharerHears => ScreenInv'
<1> SUFFICES ASSUME ScreenInv, SharerHears PROVE ScreenInv'
  OBVIOUS
<1> DEFINE s == [scSharer EXCEPT !.announced = TRUE]
<1>1. /\ scSharer.joined /\ scToSharer # <<>> /\ scToSharer' = Tail(scToSharer)
      /\ Publishes(s, scLocal') /\ UNCHANGED <<scLocal, scNext, scViewer, scFace, scTile>>
  BY DEF SharerHears
<1>2. /\ s \in [joined : BOOLEAN, announced : BOOLEAN, published : BOOLEAN]
      /\ s.joined /\ s.announced /\ s.published = scSharer.published
  BY <1>1 DEF ScreenInv, ScreenTyped
<1>3. scToSharer' \in Seq({NoScreen})
  BY <1>1 DEF ScreenInv, ScreenTyped
<1> HIDE DEF s
<1> QED BY <1>1, <1>2, <1>3, PublishesKeeps

(* Sharing ends.                                                            *)
LEMMA UnpublishKeeps == ScreenInv /\ Unpublish => ScreenInv'
<1> SUFFICES ASSUME ScreenInv, Unpublish PROVE ScreenInv'
  OBVIOUS
<1> USE DEF ScreenInv, ScreenTyped
<1>1. /\ scLocal' = NoScreen /\ scSharer' = [scSharer EXCEPT !.published = FALSE]
      /\ scToViewer' = IF scSharer.joined THEN Append(scToViewer, NoScreen) ELSE scToViewer
      /\ UNCHANGED <<scNext, scViewer, scToSharer, scMedia, scMeta, scAdded, scFace, scTile>>
  BY DEF Unpublish
<1>2. /\ scSharer' \in [joined : BOOLEAN, announced : BOOLEAN, published : BOOLEAN]
      /\ ~scSharer'.published /\ scSharer'.joined = scSharer.joined
      /\ scSharer'.announced = scSharer.announced
  BY <1>1
<1>3. ScreenTyped'
  BY <1>1, <1>2
<1>4. NoScreen \notin Range(scAdded)
  BY Numbers DEF Range, NoScreen
<1>5. \A s \in Range(scToViewer) : s \in Range(scToViewer')
  <2> DEFINE T == Screens \cup {NoScreen}
  <2>1. \A q \in Seq(T), x \in T : Range(Append(q, x)) = Range(q) \cup {x}
    <3> HIDE DEF T
    <3> QED BY RangeOfAppend
  <2>2. scToViewer \in Seq(T) /\ NoScreen \in T
    OBVIOUS
  <2> HIDE DEF T, ScreenInv, ScreenTyped
  <2> QED BY <1>1, <2>1, <2>2
<1>6. scSharer.joined => scToViewer' # <<>> /\ scToViewer'[Len(scToViewer')] = NoScreen
  <2>1. scToViewer \in Seq(Screens \cup {NoScreen}) /\ NoScreen \in Screens \cup {NoScreen}
    OBVIOUS
  <2>2. scSharer.joined => scToViewer' = Append(scToViewer, NoScreen)
    BY <1>1
  <2> HIDE DEF ScreenInv, ScreenTyped
  <2> QED BY <2>1, <2>2
<1>7. WireIsFresh'
  BY <1>1, <1>2, <1>6 DEF WireIsFresh
<1>8. ScreensAreTold' /\ NoneNoTile' /\ FaceIsAFace' /\ AddedOnce'
  BY <1>1, <1>5 DEF ScreensAreTold, NoneNoTile, FaceIsAFace, AddedOnce
<1>9. PublishedOnce'
  BY <1>1, <1>2, <1>4, <1>6 DEF PublishedOnce, LastTold
<1> QED BY <1>3, <1>7, <1>8, <1>9

(* The two see each other join, in either order.                            *)
LEMMA SharerSeesJoinKeeps == ScreenInv /\ SharerSeesJoin => ScreenInv'
<1> SUFFICES ASSUME ScreenInv, SharerSeesJoin PROVE ScreenInv'
  OBVIOUS
<1> USE DEF ScreenInv, ScreenTyped
<1>1. /\ scAdded = <<>> /\ scMedia = {} /\ scToViewer = <<>>
      /\ scSharer' = ForgetsWire(scSharer)
      /\ scToViewer' = Append(scToViewer, scLocal) /\ scMedia' = scMedia \cup {Camera}
      /\ scAdded' = Append(scAdded, Camera) /\ scMeta' = Append(scMeta, NoScreen)
      /\ UNCHANGED <<scLocal, scNext, scViewer, scToSharer, scFace, scTile>>
      /\ ~scSharer.joined
  BY DEF SharerSeesJoin, WireIsFresh
<1>2. /\ scSharer' \in [joined : BOOLEAN, announced : BOOLEAN, published : BOOLEAN]
      /\ scSharer'.joined /\ ~scSharer'.announced /\ ~scSharer'.published
  BY <1>1 DEF ForgetsWire, FreshSharer
<1>3. scToViewer' = <<scLocal>> /\ scAdded' = <<Camera>> /\ scMedia' = {Camera}
  BY <1>1
<1>4. ScreenTyped'
  BY <1>1, <1>2, <1>3, Numbers DEF Camera
<1>5. Range(scAdded') = {Camera} /\ LastTold' = scLocal /\ scLocal # Camera
  BY <1>3, Numbers DEF Range, LastTold
<1> QED BY <1>1, <1>2, <1>3, <1>4, <1>5, Numbers
        DEF WireIsFresh, ScreensAreTold, PublishedOnce, NoneNoTile, FaceIsAFace, AddedOnce

LEMMA ViewerSeesJoinKeeps == ScreenInv /\ ViewerSeesJoin => ScreenInv'
<1> SUFFICES ASSUME ScreenInv, ViewerSeesJoin PROVE ScreenInv'
  OBVIOUS
<1>1. /\ ~scViewer.joined /\ scViewer' = [FreshViewer EXCEPT !.joined = TRUE]
      /\ scTile' = NoScreen /\ scToSharer' = Append(scToSharer, NoScreen)
      /\ UNCHANGED <<scLocal, scNext, scSharer, scToViewer, scMedia, scMeta, scAdded, scFace>>
  BY DEF ViewerSeesJoin
<1>2. scViewer' = [joined |-> TRUE, screenId |-> NoScreen, announced |-> FALSE, retired |-> {}]
  BY <1>1 DEF FreshViewer
<1>3. scToSharer' \in Seq({NoScreen}) /\ scToSharer' # <<>>
  <2>1. scToSharer \in Seq({NoScreen})
    BY DEF ScreenInv, ScreenTyped
  <2> QED BY <1>1, <2>1
<1>4. ScreenTyped'
  <2>1. scViewer' \in [joined : BOOLEAN, screenId : Screens \cup {NoScreen},
                      announced : BOOLEAN, retired : SUBSET (Screens \cup {NoScreen})]
    BY <1>2
  <2> QED BY <1>1, <1>3, <2>1 DEF ScreenInv, ScreenTyped
<1>5. scSharer.joined => scToViewer # <<>>
  BY <1>1 DEF ScreenInv, WireIsFresh
<1>6. WireIsFresh' /\ ScreensAreTold' /\ NoneNoTile' /\ FaceIsAFace' /\ AddedOnce'
  BY <1>1, <1>2, <1>3, <1>5 DEF ScreenInv, WireIsFresh, ScreensAreTold, NoneNoTile, FaceIsAFace,
                               AddedOnce
<1>7. PublishedOnce'
  BY <1>1, <1>5 DEF ScreenInv, PublishedOnce, LastTold
<1> QED BY <1>4, <1>6, <1>7 DEF ScreenInv

(* The viewer hears what is shared: the screen of before is retired.        *)
LEMMA ViewerHearsKeeps == ScreenInv /\ ViewerHears => ScreenInv'
<1> SUFFICES ASSUME ScreenInv, ViewerHears PROVE ScreenInv'
  OBVIOUS
<1> DEFINE id == Head(scToViewer)
           q == Tail(scToViewer)
           T == Screens \cup {NoScreen}
<1>1. /\ scViewer.joined /\ scToViewer # <<>> /\ scToViewer' = q
      /\ scViewer' = [scViewer EXCEPT !.announced = TRUE, !.screenId = id,
                                      !.retired = Retired(scViewer, id)]
      /\ scTile' = IF id = NoScreen THEN NoScreen ELSE scTile
      /\ UNCHANGED <<scLocal, scNext, scSharer, scToSharer, scMedia, scMeta, scAdded, scFace>>
  BY DEF ViewerHears
<1>2. scToViewer \in Seq(T)
  BY DEF ScreenInv, ScreenTyped
<1>3. /\ id \in T /\ q \in Seq(T) /\ Range(scToViewer) = Range(q) \cup {id}
      /\ (q # <<>> => q[Len(q)] = scToViewer[Len(scToViewer)])
      /\ (q = <<>> => scToViewer[Len(scToViewer)] = id)
  <2> HIDE DEF T
  <2>2. /\ Len(scToViewer) \in Nat \ {0} /\ id = scToViewer[1] /\ id \in T /\ q \in Seq(T)
        /\ Len(q) = Len(scToViewer) - 1
        /\ \A i \in 1..Len(q) : q[i] = scToViewer[i + 1]
    BY <1>1, <1>2
  <2>3. q = <<>> <=> Len(q) = 0
    BY <2>2
  <2>4. Len(q) # 0 => Len(q) \in 1..Len(q) /\ Len(q) + 1 = Len(scToViewer)
    BY <2>2
  <2> HIDE DEF id, q
  <2>1. Range(scToViewer) = Range(q) \cup {id}
    <3>1. \A r \in Seq(T) : r # <<>> => Range(r) = Range(Tail(r)) \cup {Head(r)}
      BY RangeOfTail
    <3> QED BY <1>1, <1>2, <3>1 DEF id, q
  <2> QED BY <2>1, <2>2, <2>3, <2>4
<1>4. /\ scViewer'.joined /\ scViewer'.screenId = id
      /\ scViewer'.retired = (scViewer.retired \cup IF scViewer.screenId = NoScreen THEN {}
                                                   ELSE {scViewer.screenId}) \ {id}
      /\ scViewer' \in [joined : BOOLEAN, screenId : T, announced : BOOLEAN,
                        retired : SUBSET T]
  <2> DEFINE ret == Retired(scViewer, id)
             v == [scViewer EXCEPT !.announced = TRUE, !.screenId = id, !.retired = ret]
  <2>1. /\ scViewer.screenId \in T /\ scViewer.retired \in SUBSET T
        /\ scViewer \in [joined : BOOLEAN, screenId : T, announced : BOOLEAN,
                         retired : SUBSET T]
    BY DEF ScreenInv, ScreenTyped
  <2>2. ret = (scViewer.retired \cup IF scViewer.screenId = NoScreen THEN {}
                                      ELSE {scViewer.screenId}) \ {id}
    BY DEF Retired
  <2>3. ret \in SUBSET T
    BY <2>1, <2>2
  <2>4. scViewer' = v
    BY <1>1
  <2> HIDE DEF ret, T, id
  <2>5. v.joined = scViewer.joined /\ v.screenId = id /\ v.retired = ret
        /\ v \in [joined : BOOLEAN, screenId : T, announced : BOOLEAN, retired : SUBSET T]
    BY <1>3, <2>1, <2>3
  <2> QED BY <1>1, <2>2, <2>4, <2>5
<1> HIDE DEF id, q
<1>5. ScreenTyped'
  BY <1>1, <1>3, <1>4 DEF ScreenInv, ScreenTyped
<1>6. WireIsFresh'
  BY <1>1, <1>4 DEF ScreenInv, WireIsFresh
<1>7. ScreensAreTold'
  BY <1>1, <1>3, <1>4, Numbers DEF ScreenInv, ScreensAreTold
<1>8. PublishedOnce'
  <2>1. LastTold' = LastTold
    BY <1>1, <1>3, <1>4 DEF LastTold
  <2>2. SUFFICES ASSUME scSharer.joined, scSharer.published, scTile # scTile' \/ scTile = scLocal
                 PROVE  scLocal \in scMedia
    BY <1>1, <2>1 DEF ScreenInv, PublishedOnce
  <2> QED BY <1>1, <2>2 DEF ScreenInv, PublishedOnce
<1>9. NoneNoTile'
  BY <1>1, <1>4 DEF NoneNoTile
<1> QED BY <1>1, <1>5, <1>6, <1>7, <1>8, <1>9 DEF ScreenInv, FaceIsAFace, AddedOnce

(* The viewer says again that it is there.                                  *)
LEMMA ViewerAnnouncesKeeps == ScreenInv /\ ViewerAnnounces => ScreenInv'
<1> SUFFICES ASSUME ScreenInv, ViewerAnnounces PROVE ScreenInv'
  OBVIOUS
<1>1. /\ scToSharer' = Append(scToSharer, NoScreen)
      /\ UNCHANGED <<scLocal, scNext, scSharer, scViewer, scToViewer, scMedia, scMeta, scAdded,
                     scFace, scTile>>
  BY DEF ViewerAnnounces
<1>2. scToSharer' \in Seq({NoScreen}) /\ scToSharer' # <<>>
  <2>1. scToSharer \in Seq({NoScreen})
    BY DEF ScreenInv, ScreenTyped
  <2> QED BY <1>1, <2>1
<1> QED BY <1>1, <1>2 DEF ScreenInv, ScreenTyped, WireIsFresh, ScreensAreTold, PublishedOnce,
                         LastTold, NoneNoTile, FaceIsAFace, AddedOnce

(* A stream that arrives was announced: it is the screen of now, or one     *)
(* that was retired, unless it is the camera.                               *)
LEMMA StreamArrivesKeeps ==
  ASSUME ScreenInv, NEW stream \in Screens \cup {Camera}, StreamArrives(stream)
  PROVE  ScreenInv'
<1> DEFINE kind == Classify(scViewer, stream, Head(scMeta))
<1>1. /\ scViewer.joined /\ stream \in scMedia /\ stream \notin Range(scToViewer)
      /\ scMedia' = scMedia \ {stream}
      /\ scTile' = IF kind = "screen" THEN stream ELSE scTile
      /\ scFace' = IF kind = "camera" THEN stream ELSE scFace
      /\ UNCHANGED <<scLocal, scNext, scSharer, scViewer, scToViewer, scToSharer, scAdded>>
  BY DEF StreamArrives
<1>2. stream \in Screens => stream = scViewer.screenId \/ stream \in scViewer.retired
  BY <1>1 DEF ScreenInv, ScreensAreTold
<1>3. stream = scViewer.screenId => kind = "screen"
  BY DEF Classify
<1>4. stream # scViewer.screenId /\ stream \in scViewer.retired => kind = "ignore"
  BY DEF Classify
<1>5. kind = "screen" => stream = scViewer.screenId \/ stream = Head(scMeta)
  BY DEF Classify
<1>6. scViewer.screenId \in Screens \cup {NoScreen}
  BY DEF ScreenInv, ScreenTyped
<1>7. /\ scMeta # <<>> /\ scMeta' = Tail(scMeta) /\ Head(scMeta) \in Screens \cup {NoScreen}
      /\ scMeta' \in Seq(Screens \cup {NoScreen})
  <2>1. scMeta # <<>> /\ scMeta' = Tail(scMeta) /\ scMeta \in Seq(Screens \cup {NoScreen})
    BY DEF StreamArrives, ScreenInv, ScreenTyped
  <2> QED BY <2>1
<1> HIDE DEF kind
<1>8. /\ kind = "camera" => stream = Camera
      /\ kind = "screen" <=> stream = scViewer.screenId
  BY <1>2, <1>3, <1>4, <1>5, <1>6, <1>7, Numbers
<1>9. ScreenTyped'
  BY <1>1, <1>7 DEF ScreenInv, ScreenTyped
<1>10. WireIsFresh' /\ ScreensAreTold' /\ FaceIsAFace' /\ AddedOnce'
  BY <1>1, <1>8 DEF ScreenInv, WireIsFresh, ScreensAreTold, FaceIsAFace, AddedOnce
<1>11. NoneNoTile'
  BY <1>1, <1>6, <1>8, Numbers DEF ScreenInv, NoneNoTile
<1>12. PublishedOnce'
  <2> SUFFICES ASSUME scSharer.joined, scSharer.published
               PROVE  scLocal \in scMedia' \/ (scTile' = scLocal /\ scToViewer = <<>>)
    BY <1>1 DEF ScreenInv, PublishedOnce, LastTold
  <2>1. LastTold = scLocal
    BY DEF ScreenInv, PublishedOnce
  <2>2. CASE scLocal \in scMedia
    <3>1. CASE stream # scLocal
      BY <1>1, <2>2, <3>1
    <3>2. CASE stream = scLocal
      <4>1. scToViewer = <<>>
        <5> SUFFICES ASSUME scToViewer # <<>> PROVE FALSE
          OBVIOUS
        <5>1. scToViewer \in Seq(Screens \cup {NoScreen})
          BY DEF ScreenInv, ScreenTyped
        <5>2. Len(scToViewer) \in DOMAIN scToViewer
          BY <5>1
        <5>3. scToViewer[Len(scToViewer)] = stream
          BY <2>1, <3>2 DEF LastTold
        <5> QED BY <1>1, <5>2, <5>3 DEF Range
      <4> QED BY <1>1, <1>8, <2>1, <3>2, <4>1 DEF LastTold
    <3> QED BY <3>1, <3>2
  <2>3. CASE scTile = scLocal /\ scToViewer = <<>>
    BY <1>1, <1>8, <2>1, <2>3 DEF LastTold
  <2> QED BY <2>2, <2>3 DEF ScreenInv, PublishedOnce
<1> QED BY <1>9, <1>10, <1>11, <1>12 DEF ScreenInv

(* A stream goes, or the connection is replaced and all are added anew.     *)
LEMMA StreamVanishesKeeps ==
  ASSUME ScreenInv, NEW stream \in Screens \cup {Camera}, StreamVanishes(stream)
  PROVE  ScreenInv'
<1>1. /\ stream # scLocal /\ scMedia' = scMedia \ {stream}
      /\ UNCHANGED <<scLocal, scNext, scSharer, scViewer, scToViewer, scToSharer, scMeta,
                     scAdded, scFace, scTile>>
  BY DEF StreamVanishes
<1> QED BY <1>1 DEF ScreenInv, ScreenTyped, WireIsFresh, ScreensAreTold, PublishedOnce,
                   LastTold, NoneNoTile, FaceIsAFace, AddedOnce

LEMMA WireReplacedKeeps ==
  ASSUME ScreenInv, NEW afresh \in BOOLEAN, WireReplaced(afresh)
  PROVE  ScreenInv'
<1>1. /\ scSharer' = IF afresh THEN FreshSharer ELSE [scSharer EXCEPT !.joined = FALSE]
      /\ scViewer' = IF afresh THEN FreshViewer ELSE [scViewer EXCEPT !.joined = FALSE]
      /\ scFace' = IF afresh THEN NoScreen ELSE scFace
      /\ scToViewer' = <<>> /\ scToSharer' = <<>> /\ scMedia' = {} /\ scMeta' = <<>>
      /\ scAdded' = <<>> /\ UNCHANGED <<scLocal, scNext>>
  BY DEF WireReplaced
<1>2. ~scSharer'.joined /\ ~scViewer'.joined
      /\ scSharer' \in [joined : BOOLEAN, announced : BOOLEAN, published : BOOLEAN]
      /\ scViewer' \in [joined : BOOLEAN, screenId : Screens \cup {NoScreen},
                        announced : BOOLEAN, retired : SUBSET (Screens \cup {NoScreen})]
  BY <1>1 DEF ScreenInv, ScreenTyped, FreshSharer, FreshViewer
<1>3. ScreenTyped'
  <2>1. scToViewer' \in Seq(Screens \cup {NoScreen}) /\ scToSharer' \in Seq({NoScreen})
        /\ scMeta' \in Seq(Screens \cup {NoScreen}) /\ scAdded' \in Seq(0..scNext')
    BY <1>1
  <2> QED BY <1>1, <1>2, <2>1 DEF ScreenInv, ScreenTyped
<1> QED BY <1>1, <1>2, <1>3
        DEF ScreenInv, WireIsFresh, ScreensAreTold, PublishedOnce, NoneNoTile, FaceIsAFace,
            AddedOnce

(* Every step keeps it.                                                     *)
LEMMA ScreenStep == ScreenInv /\ [ScreenNext]_screenVars => ScreenInv'
<1> SUFFICES ASSUME ScreenInv, [ScreenNext]_screenVars PROVE ScreenInv'
  OBVIOUS
<1>1. CASE UNCHANGED screenVars
  BY <1>1 DEF screenVars, ScreenInv, ScreenTyped, WireIsFresh, ScreensAreTold, PublishedOnce,
              LastTold, NoneNoTile, FaceIsAFace, AddedOnce
<1>2. CASE ScreenNext
  BY <1>2, PublishKeeps, UnpublishKeeps, SharerSeesJoinKeeps, SharerHearsKeeps,
     ViewerSeesJoinKeeps, ViewerHearsKeeps, ViewerAnnouncesKeeps, StreamArrivesKeeps,
     StreamVanishesKeeps, WireReplacedKeeps DEF ScreenNext
<1> QED BY <1>1, <1>2

(* So it always holds.                                                      *)
LEMMA ScreenInvariant == ScreenSpec => []ScreenInv
BY ScreenStart, ScreenStep, PTL DEF ScreenSpec

(* The face tile never shows a screen, a stream is handed to a connection   *)
(* once, and once all is delivered the viewer sees what the sharer shares:  *)
(* for any number of shares, connections and announces (screenShare.ts).    *)
THEOREM SharingAlwaysSound == ScreenSpec => []SharingIsSound
<1>1. ScreenInv => SharingIsSound
  <2> SUFFICES ASSUME ScreenInv PROVE TileIsTheScreen
    BY DEF ScreenInv, SharingIsSound
  <2> SUFFICES ASSUME scSharer.joined, scViewer.joined, scToViewer = <<>>,
                      scToSharer = <<>>, scMedia = {}
               PROVE  scTile = scLocal
    BY DEF TileIsTheScreen
  <2>1. scSharer.announced
    BY DEF ScreenInv, WireIsFresh
  <2>2. CASE scLocal = NoScreen
    BY <2>2 DEF ScreenInv, PublishedOnce, LastTold, NoneNoTile
  <2>3. CASE scLocal # NoScreen
    BY <2>1, <2>3 DEF ScreenInv, PublishedOnce
  <2> QED BY <2>2, <2>3
<1> QED BY <1>1, ScreenInvariant, PTL

----------------------------------------------------------------------------
(* The shortcuts: what is shown, bound, cached and saved at each point of   *)
(* an operation.                                                            *)
(* The types: an operation that runs, rebinding or resetting, at each of    *)
(* its points.                                                              *)
Bindings == [Actions -> Keys]
Steps == {"bind", "turn", "set", "save", "restore", "unset", "unsave"}
Operations ==
  {NoOp}
    \union [kind : {"rebind"}, pc : {"bind", "write", "save"}, action : Actions, key : Keys,
            prev : Keys]
    \union [kind : {"reset"}, pc : Steps, at : 1..3, prev : Bindings]

(* The types of the variables.                                              *)
OpTyped ==
  /\ scOp \in Operations
  /\ scToggle \in [pc : {"none", "set", "save", "push"}, on : BOOLEAN]
  /\ scCache \in [keys : Bindings, ai : BOOLEAN] /\ scDisk \in [keys : Bindings, ai : BOOLEAN]
  /\ scSession \in BOOLEAN /\ scAi \in BOOLEAN
  /\ scShown \in Bindings /\ scBound \in Bindings
  /\ scGhost \in [wanted : Bindings, past : SUBSET Bindings, lost : BOOLEAN, split : BOOLEAN,
                  loose : SUBSET Keys]

(* A key is grabbed by one program at most.                                 *)
KeysTyped == scHeld \subseteq Keys /\ scForeign \subseteq Keys /\ scHeld \intersect scForeign = {}

(* What is shown and bound at each point of an operation.                   *)
ShownAlong ==
  /\ scOp = NoOp /\ ~scGhost.split => scShown = scBound
  /\ scOp.kind = "rebind" =>
       CASE scOp.pc = "bind" -> ~scGhost.split =>
                                  /\ scShown = [scBound EXCEPT ![scOp.action] = scOp.key]
                                  /\ scOp.prev = scBound[scOp.action]
         [] OTHER -> ~scGhost.split => scShown = scBound
  /\ scOp.kind = "reset" =>
       /\ scShown = scOp.prev
       /\ scOp.pc \in {"turn", "set", "save", "restore"} => scBound = Shipped
       /\ scOp.pc \notin {"turn", "set", "save", "restore"} /\ ~scGhost.split => scBound = scOp.prev
       /\ scOp.pc \in {"bind", "turn"} => scOp.at = 1

(* What the cache holds at each point of an operation.                      *)
KeysAt(i) == {Order[j] : j \in 1..(i - 1)}
CacheAlong ==
  ~scGhost.lost =>
    /\ scOp = NoOp \/ scOp.pc \in {"bind", "turn"} => scCache.keys = scGhost.wanted
    /\ scOp.kind = "rebind" /\ scOp.pc = "write" =>
         scGhost.wanted = [scCache.keys EXCEPT ![scOp.action] = scOp.key]
    /\ scOp.kind = "rebind" /\ scOp.pc = "save" => scCache.keys = scGhost.wanted
    /\ scOp.kind = "reset" /\ scOp.pc = "set" =>
         \A a \in KeysAt(scOp.at) : scCache.keys[a] = Shipped[a]
    /\ scOp.kind = "reset" /\ scOp.pc = "save" => scCache.keys = Shipped
    /\ scOp.kind = "reset" /\ scOp.pc = "unset" =>
         \A a \in KeysAt(scOp.at) : scCache.keys[a] = scOp.prev[a]
    /\ scOp.kind = "reset" /\ scOp.pc = "unsave" => scCache.keys = scOp.prev

(* What the file holds: one writer at a time, and a writer finds in the     *)
(* cache what it is about to keep.                                          *)
FilesAlong ==
  /\ CacheAlong
  /\ ~(OpWrites /\ ToggleWrites)
  /\ scGhost.wanted \in scGhost.past
  /\ ~scGhost.lost /\ ~OpWrites => scCache.keys \in scGhost.past
  /\ ~scGhost.lost => scDisk.keys \in scGhost.past

(* The inductive invariant.                                                 *)
ShortInv == OpTyped /\ KeysTyped /\ ShownAlong /\ GrabsFollow /\ FilesAlong

(* What is shipped is a binding.                                            *)
LEMMA ShippedBindings == Shipped \in Bindings /\ Spare \in [1..3 -> Keys]
BY ShortcutsAssumption DEF Bindings

(* A file is read as a binding: of three candidates one is free, for two    *)
(* keys cannot take them all.                                               *)
LEMMA ResolvedIsBinding ==
  ASSUME NEW keys \in Bindings
  PROVE  ResolvedKeys(keys) \in Bindings
<1> DEFINE taken == {keys["friends"], keys["ai"]}
           Free(i) == Spare[i] \notin taken /\ \A j \in 1..(i - 1) : Spare[j] \in taken
           first == CHOOSE i \in 1..3 : Free(i)
<1>1. \A i, j \in 1..3 : Spare[i] = Spare[j] => i = j
  BY ShortcutsAssumption
<1>2. \E i \in 1..3 : Free(i)
  <2>1. 1..0 = {} /\ 1..1 = {1} /\ 1..2 = {1, 2} /\ 1..3 = {1, 2, 3}
    OBVIOUS
  <2>2. ~(Spare[1] \in taken /\ Spare[2] \in taken /\ Spare[3] \in taken)
    BY <1>1, <2>1
  <2>3. CASE Spare[1] \notin taken
    <3>1. Free(1)
      BY <2>3
    <3> QED BY <3>1
  <2>4. CASE Spare[1] \in taken /\ Spare[2] \notin taken
    <3>1. Free(2)
      BY <2>1, <2>4
    <3> QED BY <3>1
  <2>5. CASE Spare[1] \in taken /\ Spare[2] \in taken /\ Spare[3] \notin taken
    <3>1. Free(3)
      BY <2>1, <2>5
    <3> QED BY <3>1
  <2> QED BY <2>2, <2>3, <2>4, <2>5
<1>3. first \in 1..3
  <2> HIDE DEF Free
  <2> QED BY <1>2
<1>4. ResolvedKeys(keys) = IF keys["mic"] \in taken THEN [keys EXCEPT !["mic"] = Spare[first]]
                                                    ELSE keys
  BY DEF ResolvedKeys
<1>5. Spare[first] \in Keys
  BY <1>3, ShippedBindings
<1> HIDE DEF first
<1> QED BY <1>4, <1>5 DEF Bindings

(* The first launch.                                                        *)
LEMMA ShortStart == ShortcutsInit => ShortInv
<1> SUFFICES ASSUME ShortcutsInit PROVE ShortInv
  OBVIOUS
<1>1. PICK keys \in Stored :
        /\ scDisk = [keys |-> keys, ai |-> FALSE] /\ scShown = ResolvedKeys(keys)
        /\ scGhost = [wanted |-> keys, past |-> {keys}, lost |-> FALSE, split |-> FALSE,
                      loose |-> {}]
  BY DEF ShortcutsInit
<1>2. keys \in Bindings /\ ResolvedKeys(keys) \in Bindings
  BY ShortcutsAssumption, ResolvedIsBinding DEF Bindings
<1>3. scBound = scShown /\ scCache = scDisk /\ scHeld = {} /\ scForeign = {} /\ scSession = FALSE
      /\ scAi = FALSE /\ scOp = NoOp /\ scToggle = Still
  BY DEF ShortcutsInit
<1>4. OpTyped
  BY <1>1, <1>2, <1>3 DEF OpTyped, Operations, Still
<1>5. KeysTyped /\ ShownAlong
  BY <1>1, <1>3 DEF KeysTyped, ShownAlong, NoOp
<1>6. GrabsFollow
  BY <1>3 DEF GrabsFollow, IsWanted, Actions
<1>7. FilesAlong
  BY <1>1, <1>3 DEF FilesAlong, CacheAlong, OpWrites, ToggleWrites, NoOp, Still
<1> QED BY <1>4, <1>5, <1>6, <1>7 DEF ShortInv

(* A key that is grabbed is held, or somebody else has it.                  *)
LEMMA GrabIs ==
  ASSUME NEW h, NEW k
  PROVE  /\ Grab(h, k).held \ {k} = h \ {k} /\ h \subseteq Grab(h, k).held
         /\ Grab(h, k).loose \subseteq {k}
         /\ k \notin Grab(h, k).loose => k \in Grab(h, k).held
         /\ h \intersect scForeign = {} => Grab(h, k).held \intersect scForeign = {}
BY DEF Grab

(* A key that is released is kept if it is needed.                          *)
LEMMA ReleaseIs ==
  ASSUME NEW h, NEW k, NEW needed \in BOOLEAN, NEW ok \in BOOLEAN
  PROVE  /\ Release(h, k, needed, ok).held \ {k} = h \ {k}
         /\ Release(h, k, needed, ok).held \subseteq h
         /\ Release(h, k, needed, ok).loose \subseteq {k}
         /\ needed => Release(h, k, needed, ok).held = h
         /\ ~needed /\ k \notin Release(h, k, needed, ok).loose
              => k \notin Release(h, k, needed, ok).held
BY DEF Release

(* A session begins or ends: two keys are grabbed or released, one of which *)
(* may be the key of the AI dialog.                                         *)
LEMMA EdgeKeeps ==
  ASSUME ShortInv, NEW active \in BOOLEAN, NEW ok \in BOOLEAN, SessionSetActive(active, ok)
  PROVE  ShortInv'
<1> DEFINE f == scBound["friends"]
           m == scBound["mic"]
           i == scBound["ai"]
           needed(k) == k = i /\ scAi
           one == IF active THEN Grab(scHeld, f) ELSE Release(scHeld, f, needed(f), ok)
           two == IF active THEN Grab(one.held, m)
                  ELSE Release(one.held, m, needed(m), TRUE)
<1>1. /\ scSession' = active /\ scHeld' = two.held /\ Loosen(one.loose \union two.loose)
      /\ UNCHANGED <<scShown, scBound, scForeign, scAi, scCache, scDisk, scOp, scToggle>>
  BY DEF SessionSetActive
<1>2. f \in Keys /\ m \in Keys /\ scAi \in BOOLEAN /\ scBound \in Bindings
  BY DEF ShortInv, OpTyped, Bindings, Actions
<1>3. needed(f) \in BOOLEAN /\ needed(m) \in BOOLEAN
  OBVIOUS
<1>4. /\ one.held \ {f} = scHeld \ {f} /\ one.loose \subseteq {f}
      /\ active => scHeld \subseteq one.held /\ (f \notin one.loose => f \in one.held)
      /\ active /\ scHeld \intersect scForeign = {} => one.held \intersect scForeign = {}
      /\ ~active => /\ one.held \subseteq scHeld /\ (needed(f) => one.held = scHeld)
                    /\ ~needed(f) /\ f \notin one.loose => f \notin one.held
  <2> HIDE DEF f, i
  <2>1. CASE active
    <3>1. one = Grab(scHeld, f)
      BY <2>1
    <3> QED BY <2>1, <3>1, GrabIs
  <2>2. CASE ~active
    <3>1. one = IF needed(f) \/ f \notin scHeld THEN [held |-> scHeld, loose |-> {}]
                ELSE IF ok THEN [held |-> scHeld \ {f}, loose |-> {}]
                ELSE [held |-> scHeld, loose |-> {f}]
      BY <2>2 DEF Release
    <3>2. CASE needed(f)
      <4> HIDE DEF one
      <4>1. one.held = scHeld /\ one.loose = {}
        BY <3>1, <3>2
      <4> QED BY <4>1, <2>2, <3>2
    <3>3. CASE ~needed(f)
      <4> HIDE DEF one
      <4>1. \/ one.held = scHeld /\ one.loose \subseteq {f} /\ (f \in scHeld => f \in one.loose)
            \/ one.held = scHeld \ {f} /\ one.loose = {}
        <5>1. CASE f \notin scHeld
          BY <3>1, <5>1
        <5>2. CASE f \in scHeld /\ ok
          BY <3>1, <3>3, <5>2
        <5>3. CASE f \in scHeld /\ ~ok
          <6>1. one = [held |-> scHeld, loose |-> {f}]
            BY <3>1, <3>3, <5>3
          <6> QED BY <6>1
        <5> QED BY <5>1, <5>2, <5>3
      <4> QED BY <4>1, <2>2, <3>3
    <3> QED BY <3>2, <3>3
  <2> QED BY <2>1, <2>2
<1>5. /\ two.held \ {m} = one.held \ {m} /\ two.loose \subseteq {m}
      /\ active => one.held \subseteq two.held /\ (m \notin two.loose => m \in two.held)
      /\ active /\ one.held \intersect scForeign = {} => two.held \intersect scForeign = {}
      /\ ~active => /\ two.held \subseteq one.held /\ (needed(m) => two.held = one.held)
                    /\ ~needed(m) /\ m \notin two.loose => m \notin two.held
  <2> HIDE DEF m, i, one
  <2>1. CASE active
    <3>1. two = Grab(one.held, m)
      BY <2>1
    <3> QED BY <2>1, <3>1, GrabIs
  <2>2. CASE ~active
    <3>1. two = IF needed(m) \/ m \notin one.held THEN [held |-> one.held, loose |-> {}]
                ELSE [held |-> one.held \ {m}, loose |-> {}]
      BY <2>2 DEF Release
    <3>2. CASE needed(m)
      <4> HIDE DEF two
      <4>1. two.held = one.held /\ two.loose = {}
        BY <3>1, <3>2
      <4> QED BY <4>1, <2>2, <3>2
    <3>3. CASE ~needed(m)
      <4> HIDE DEF two
      <4>1. two.held = one.held \ {m} /\ two.loose = {}
        BY <3>1, <3>3
      <4> QED BY <4>1, <2>2, <3>3
    <3> QED BY <3>2, <3>3
  <2> QED BY <2>1, <2>2
<1> HIDE DEF one, two
<1>6. /\ one.loose \subseteq Keys /\ two.loose \subseteq Keys
      /\ scGhost \in [wanted : Bindings, past : SUBSET Bindings, lost : BOOLEAN,
                      split : BOOLEAN, loose : SUBSET Keys]
  BY <1>2, <1>4, <1>5 DEF ShortInv, OpTyped
<1>7. /\ scGhost'.loose = scGhost.loose \union one.loose \union two.loose
      /\ scGhost' = [scGhost EXCEPT !.loose = scGhost'.loose]
  BY <1>1, <1>6 DEF Loosen
<1>8. OpTyped'
  BY <1>1, <1>6, <1>7 DEF ShortInv, OpTyped
<1>9. KeysTyped'
  BY <1>1, <1>2, <1>4, <1>5 DEF ShortInv, KeysTyped
<1>10. /\ scGhost'.wanted = scGhost.wanted /\ scGhost'.past = scGhost.past
       /\ scGhost'.lost = scGhost.lost /\ scGhost'.split = scGhost.split
  BY <1>6, <1>7
<1>11. ShownAlong'
  BY <1>1, <1>10 DEF ShortInv, ShownAlong
<1>12. FilesAlong'
  BY <1>1, <1>10 DEF ShortInv, FilesAlong, CacheAlong, OpWrites, ToggleWrites
<1>13. GrabsFollow'
  <2> SUFFICES ASSUME NEW k \in Keys, k \notin scGhost'.loose
               PROVE  k \in scHeld' <=> \E a \in Actions : IsWanted(a)' /\ scBound[a] = k
    BY <1>1 DEF GrabsFollow
  <2>1. k \in scHeld <=> (scSession /\ k \in {f, m}) \/ (scAi /\ k = i)
    BY <1>7 DEF ShortInv, GrabsFollow, IsWanted, Actions
  <2>2. (\E a \in Actions : IsWanted(a)' /\ scBound[a] = k)
          <=> (active /\ k \in {f, m}) \/ (scAi /\ k = i)
    BY <1>1 DEF IsWanted, Actions
  <2>3. k \notin one.loose /\ k \notin two.loose
    BY <1>7
  <2> HIDE DEF f, m, i
  <2>4. k \in two.held <=> (active /\ k \in {f, m}) \/ (scAi /\ k = i)
    <3>1. CASE active
      BY <2>1, <2>3, <1>4, <1>5, <3>1
    <3>2. CASE ~active
      BY <2>1, <2>3, <1>4, <1>5, <3>2
    <3> QED BY <3>1, <3>2
  <2> QED BY <2>2, <2>4, <1>1
<1> QED BY <1>8, <1>9, <1>11, <1>12, <1>13 DEF ShortInv

(* The types once more, one by one.                                         *)
KeyGhosts == [wanted : Bindings, past : SUBSET Bindings, lost : BOOLEAN, split : BOOLEAN,
           loose : SUBSET Keys]
Toggles == [pc : {"none", "set", "save", "push"}, on : BOOLEAN]
Settings == [keys : Bindings, ai : BOOLEAN]

(* Another setting: its value, the save of the whole cache, and the push to *)
(* the shell.                                                               *)
LEMMA ToggleBeginsKeeps ==
  ASSUME ShortInv, NEW on \in BOOLEAN, ToggleBegins(on)
  PROVE  ShortInv'
<1>1. /\ scToggle' = [pc |-> "set", on |-> on]
      /\ UNCHANGED <<scShown, scBound, scHeld, scForeign, scSession, scAi, scCache, scDisk,
                     scOp, scGhost>>
  BY DEF ToggleBegins
<1>2. OpTyped' /\ KeysTyped'
  BY <1>1 DEF ShortInv, OpTyped, KeysTyped
<1>3. ShownAlong' /\ GrabsFollow'
  BY <1>1 DEF ShortInv, ShownAlong, GrabsFollow, IsWanted
<1>4. FilesAlong'
  BY <1>1 DEF ShortInv, FilesAlong, CacheAlong, OpWrites, ToggleWrites
<1> QED BY <1>2, <1>3, <1>4 DEF ShortInv

LEMMA ToggleSetsKeeps ==
  ASSUME ShortInv, NEW ok \in BOOLEAN, ToggleSets(ok)
  PROVE  ShortInv'
<1>1. /\ scToggle \in Toggles /\ scToggle.pc = "set" /\ ~OpWrites
      /\ scCache' = IF ok THEN [scCache EXCEPT !.ai = scToggle.on] ELSE scCache
      /\ scToggle' = [scToggle EXCEPT !.pc = IF ok THEN "save" ELSE "push"]
      /\ UNCHANGED <<scShown, scBound, scHeld, scForeign, scSession, scAi, scDisk, scOp,
                     scGhost>>
  BY DEF ToggleSets, ShortInv, OpTyped, Toggles
<1>2. scToggle' \in Toggles
  BY <1>1 DEF Toggles
<1>3. scCache' \in Settings /\ scCache'.keys = scCache.keys
  BY <1>1 DEF ShortInv, OpTyped, Settings, Toggles
<1>4. OpTyped' /\ KeysTyped'
  BY <1>1, <1>2, <1>3 DEF ShortInv, OpTyped, KeysTyped, Toggles, Settings
<1>5. ShownAlong' /\ GrabsFollow'
  BY <1>1 DEF ShortInv, ShownAlong, GrabsFollow, IsWanted
<1>6. FilesAlong'
  BY <1>1, <1>3 DEF ShortInv, FilesAlong, CacheAlong, OpWrites, ToggleWrites
<1> QED BY <1>4, <1>5, <1>6 DEF ShortInv

LEMMA ToggleSavesKeeps ==
  ASSUME ShortInv, NEW ok \in BOOLEAN, ToggleSaves(ok)
  PROVE  ShortInv'
<1>1. /\ scToggle \in Toggles /\ scToggle.pc = "save"
      /\ scDisk' = IF ok THEN scCache ELSE scDisk
      /\ scToggle' = [scToggle EXCEPT !.pc = "push"]
      /\ UNCHANGED <<scShown, scBound, scHeld, scForeign, scSession, scAi, scCache, scOp,
                     scGhost>>
  BY DEF ToggleSaves, ShortInv, OpTyped, Toggles
<1>2. scToggle' \in Toggles /\ scToggle'.pc = "push"
  BY <1>1 DEF Toggles
<1>3. ~OpWrites
  BY <1>1 DEF ShortInv, FilesAlong, ToggleWrites
<1>4. OpTyped' /\ KeysTyped'
  BY <1>1, <1>2 DEF ShortInv, OpTyped, KeysTyped, Toggles
<1>5. ShownAlong' /\ GrabsFollow'
  BY <1>1 DEF ShortInv, ShownAlong, GrabsFollow, IsWanted
<1>6. FilesAlong'
  BY <1>1, <1>2, <1>3 DEF ShortInv, FilesAlong, CacheAlong, OpWrites, ToggleWrites
<1> QED BY <1>4, <1>5, <1>6 DEF ShortInv

LEMMA TogglePushesKeeps ==
  ASSUME ShortInv, NEW ok \in BOOLEAN, TogglePushes(ok)
  PROVE  ShortInv'
<1> DEFINE ai == scBound["ai"]
           shared == \E a \in Others("ai") : scBound[a] = ai
           on == scToggle.on
           result == ApplyAi(on, ok)
<1>1. /\ scToggle \in Toggles
      /\ scAi' = on /\ scHeld' = result.held /\ Loosen(result.loose) /\ scToggle' = Still
      /\ UNCHANGED <<scShown, scBound, scForeign, scSession, scCache, scDisk, scOp>>
  BY DEF TogglePushes, ShortInv, OpTyped, Toggles
<1>2. ai \in Keys /\ scBound \in Bindings /\ on \in BOOLEAN /\ scSession \in BOOLEAN
      /\ scAi \in BOOLEAN
  BY <1>1 DEF ShortInv, OpTyped, Bindings, Actions, Toggles
<1>3. /\ result.held \ {ai} = scHeld \ {ai} /\ result.loose \subseteq {ai}
      /\ on => ai \in result.held \union result.loose
      /\ scHeld \intersect scForeign = {} => result.held \intersect scForeign = {}
      /\ ~on /\ shared /\ scSession => result.held = scHeld
      /\ ~on /\ ~(shared /\ scSession) => ai \notin result.held \/ ai \in result.loose
  <2>1. CASE on
    <3>1. result = Grab(scHeld, ai)
      BY <2>1 DEF ApplyAi
    <3> HIDE DEF result, ai
    <3> QED BY <2>1, <3>1, GrabIs
  <2>2. CASE ~on
    <3>1. result = IF (shared /\ scSession) \/ ai \notin scHeld
                     THEN [held |-> scHeld, loose |-> {}]
                   ELSE IF ok THEN [held |-> scHeld \ {ai}, loose |-> {}]
                   ELSE [held |-> scHeld, loose |-> {ai}]
      BY <2>2 DEF ApplyAi, Release
    <3> HIDE DEF result, ai, on
    <3>2. CASE shared /\ scSession
      <4>1. result.held = scHeld /\ result.loose = {}
        BY <3>1, <3>2
      <4> QED BY <4>1, <2>2, <3>2
    <3>3. CASE ~(shared /\ scSession)
      <4> HIDE DEF shared
      <4>1. CASE ai \notin scHeld
        <5>1. result.held = scHeld /\ result.loose = {}
          BY <3>1, <4>1
        <5> QED BY <5>1, <2>2, <3>3, <4>1
      <4>2. CASE ai \in scHeld /\ ok
        <5>1. result.held = scHeld \ {ai} /\ result.loose = {}
          BY <3>1, <3>3, <4>2
        <5> QED BY <5>1, <2>2, <3>3
      <4>3. CASE ai \in scHeld /\ ~ok
        <5>1. result.held = scHeld /\ result.loose = {ai}
          BY <3>1, <3>3, <4>3
        <5> QED BY <5>1, <2>2, <3>3
      <4> QED BY <4>1, <4>2, <4>3
    <3> QED BY <3>2, <3>3
  <2> QED BY <2>1, <2>2, <1>2
<1> HIDE DEF result
<1>4. /\ result.loose \subseteq Keys /\ scGhost \in KeyGhosts
  BY <1>2, <1>3 DEF ShortInv, OpTyped, KeyGhosts
<1>5. /\ scGhost' \in KeyGhosts /\ scGhost'.loose = scGhost.loose \union result.loose
      /\ scGhost'.wanted = scGhost.wanted /\ scGhost'.past = scGhost.past
      /\ scGhost'.lost = scGhost.lost /\ scGhost'.split = scGhost.split
  BY <1>1, <1>4 DEF Loosen, KeyGhosts
<1>6. OpTyped'
  BY <1>1, <1>2, <1>5 DEF ShortInv, OpTyped, KeyGhosts, Still
<1>7. KeysTyped'
  BY <1>1, <1>2, <1>3 DEF ShortInv, KeysTyped
<1>8. ShownAlong'
  BY <1>1, <1>5 DEF ShortInv, ShownAlong
<1>9. FilesAlong'
  BY <1>1, <1>5 DEF ShortInv, FilesAlong, CacheAlong, OpWrites, ToggleWrites, Still
<1>10. GrabsFollow'
  <2> SUFFICES ASSUME NEW k \in Keys, k \notin scGhost'.loose
               PROVE  k \in scHeld' <=> \E a \in Actions : IsWanted(a)' /\ scBound[a] = k
    BY <1>1 DEF GrabsFollow
  <2>1. k \in scHeld <=> (scSession /\ \E a \in Others("ai") : scBound[a] = k)
                           \/ (scAi /\ k = ai)
    BY <1>5 DEF ShortInv, GrabsFollow, IsWanted, Actions, Others
  <2>2. (\E a \in Actions : IsWanted(a)' /\ scBound[a] = k)
          <=> (scSession /\ \E a \in Others("ai") : scBound[a] = k) \/ (on /\ k = ai)
    BY <1>1 DEF IsWanted, Actions, Others
  <2>3. k \notin result.loose
    BY <1>5
  <2>4. k \in result.held <=> (scSession /\ \E a \in Others("ai") : scBound[a] = k)
                                \/ (on /\ k = ai)
    <3> DEFINE near(x) == \E a \in Others("ai") : scBound[a] = x
    <3>1. near(ai) <=> shared
      OBVIOUS
    <3> HIDE DEF ai, on
    <3>2. CASE k # ai
      BY <3>2, <2>1, <1>3
    <3>3. CASE k = ai /\ on
      BY <3>3, <2>3, <1>3
    <3>4. CASE k = ai /\ ~on /\ shared /\ scSession
      BY <3>4, <2>1, <1>3
    <3>5. CASE k = ai /\ ~on /\ ~(shared /\ scSession)
      BY <3>5, <2>3, <1>3
    <3> QED BY <3>2, <3>3, <3>4, <3>5, <1>2
  <2> QED BY <2>2, <2>4, <1>1
<1> QED BY <1>6, <1>7, <1>8, <1>9, <1>10 DEF ShortInv

(* The two kinds of operation.                                              *)
Rebinds == [kind : {"rebind"}, pc : {"bind", "write", "save"}, action : Actions, key : Keys,
            prev : Keys]
Resets == [kind : {"reset"}, pc : Steps, at : 1..3, prev : Bindings]

(* What the types say of the operation and the records.                     *)
LEMMA ShortTypes ==
  ASSUME OpTyped
  PROVE  /\ scOp.kind = "rebind" => scOp \in Rebinds
         /\ scOp.kind = "reset" => scOp \in Resets
         /\ scOp = NoOp <=> scOp.kind = "none"
         /\ scGhost \in KeyGhosts /\ scCache \in Settings /\ scDisk \in Settings
         /\ scBound \in Bindings /\ scShown \in Bindings
BY DEF OpTyped, Operations, Rebinds, Resets, NoOp, KeyGhosts, Settings

(* Rebinding: shown at once, refused, bound, then written.                  *)
LEMMA RebindBeginsKeeps ==
  ASSUME ShortInv, NEW a \in Actions, NEW k \in Keys, RebindBegins(a, k)
  PROVE  ShortInv'
<1>1. /\ scOp = NoOp
      /\ scOp' = [kind |-> "rebind", pc |-> "bind", action |-> a, key |-> k,
                  prev |-> scShown[a]]
      /\ scShown' = [scShown EXCEPT ![a] = k]
      /\ UNCHANGED <<scBound, scHeld, scForeign, scSession, scAi, scCache, scDisk, scToggle,
                     scGhost>>
  BY DEF RebindBegins
<1>2. scShown \in Bindings /\ scShown[a] \in Keys /\ scShown' \in Bindings
  BY <1>1 DEF ShortInv, OpTyped, Bindings
<1>3. scOp' \in Operations /\ scOp'.kind = "rebind" /\ scOp'.pc = "bind" /\ scOp'.action = a
      /\ scOp'.key = k /\ scOp'.prev = scShown[a] /\ scOp' # NoOp
  BY <1>1, <1>2 DEF Operations, NoOp
<1>4. OpTyped' /\ KeysTyped'
  BY <1>1, <1>2, <1>3 DEF ShortInv, OpTyped, KeysTyped
<1>5. ~scGhost.split => scShown = scBound
  BY <1>1 DEF ShortInv, ShownAlong
<1>6. ShownAlong'
  BY <1>1, <1>3, <1>5 DEF ShownAlong
<1>7. GrabsFollow'
  BY <1>1 DEF ShortInv, GrabsFollow, IsWanted
<1>8. ~OpWrites /\ ~OpWrites'
  BY <1>1, <1>3 DEF OpWrites, NoOp
<1>9. FilesAlong'
  BY <1>1, <1>3, <1>8 DEF ShortInv, FilesAlong, CacheAlong, ToggleWrites
<1> QED BY <1>4, <1>6, <1>7, <1>9 DEF ShortInv

LEMMA RebindRefusedKeeps ==
  ASSUME ShortInv, NEW ok \in BOOLEAN, RebindRefused(ok)
  PROVE  ShortInv'
<1> DEFINE a == scOp.action
           k == scOp.key
           grabbed == k \notin scForeign \union scHeld \union {scBound[b] : b \in Actions}
<1>1. /\ scOp.kind = "rebind" /\ scOp.pc = "bind"
      /\ scShown' = [scShown EXCEPT ![a] = scOp.prev] /\ scOp' = NoOp
      /\ UNCHANGED <<scBound, scForeign, scSession, scAi, scCache, scDisk, scToggle>>
  BY DEF RebindRefused
<1>2. \/ grabbed /\ scHeld' = scHeld \union {k} /\ Loosen({k})
      \/ UNCHANGED <<scHeld, scGhost>>
  BY DEF RebindRefused
<1>3. /\ scOp \in Rebinds /\ scGhost \in KeyGhosts /\ scBound \in Bindings /\ scShown \in Bindings
      /\ scOp # NoOp
  BY <1>1, ShortTypes DEF ShortInv, NoOp
<1>4. a \in Actions /\ k \in Keys /\ scOp.prev \in Keys
  BY <1>3 DEF Rebinds
<1>5. /\ scGhost' \in KeyGhosts /\ scGhost.loose \subseteq scGhost'.loose
      /\ scHeld' # scHeld => k \in scGhost'.loose
      /\ scGhost'.wanted = scGhost.wanted /\ scGhost'.past = scGhost.past
      /\ scGhost'.lost = scGhost.lost /\ scGhost'.split = scGhost.split
  BY <1>2, <1>3, <1>4 DEF Loosen, KeyGhosts
<1>6. scShown' \in Bindings
  BY <1>1, <1>3, <1>4 DEF Bindings
<1>7. OpTyped'
  BY <1>1, <1>5, <1>6 DEF ShortInv, OpTyped, KeyGhosts, Operations
<1>8. KeysTyped'
  BY <1>1, <1>2, <1>4 DEF ShortInv, KeysTyped
<1>9. ~scGhost.split => scShown' = scBound
  <2>1. ~scGhost.split => scShown = [scBound EXCEPT ![a] = k] /\ scOp.prev = scBound[a]
    BY <1>1 DEF ShortInv, ShownAlong
  <2>2. [[scBound EXCEPT ![a] = k] EXCEPT ![a] = scBound[a]] = scBound
    BY <1>3, <1>4 DEF Bindings
  <2> QED BY <1>1, <2>1, <2>2
<1>10. ShownAlong'
  BY <1>1, <1>5, <1>9 DEF ShownAlong, NoOp
<1>11. GrabsFollow'
  <2> SUFFICES ASSUME NEW x \in Keys, x \notin scGhost'.loose
               PROVE  x \in scHeld' <=> \E b \in Actions : IsWanted(b)' /\ scBound[b] = x
    BY <1>1 DEF GrabsFollow
  <2>1. x \notin scGhost.loose /\ (x \in scHeld' <=> x \in scHeld)
    BY <1>2, <1>5
  <2> QED BY <2>1, <1>1 DEF ShortInv, GrabsFollow, IsWanted
<1>12. ~OpWrites /\ ~OpWrites'
  BY <1>1 DEF OpWrites, NoOp
<1>13. FilesAlong'
  BY <1>1, <1>5, <1>12 DEF ShortInv, FilesAlong, CacheAlong, ToggleWrites, NoOp
<1> QED BY <1>7, <1>8, <1>10, <1>11, <1>13 DEF ShortInv

(* The old key makes way unless it is shared, the new one is grabbed if it  *)
(* is wanted.                                                               *)
LEMMA RebindBindsKeeps ==
  ASSUME ShortInv, RebindBinds
  PROVE  ShortInv'
<1> DEFINE a == scOp.action
           k == scOp.key
           old == scBound[a]
           stray == IF SharedKey(a) /\ old \in scHeld THEN {old} ELSE {}
           next == [scGhost.wanted EXCEPT ![a] = k]
           intent == Intend(scGhost, next)
<1>1. /\ scOp.kind = "rebind" /\ scOp.pc = "bind"
      /\ scOp' = [scOp EXCEPT !.pc = "write"]
      /\ UNCHANGED <<scShown, scForeign, scSession, scAi, scCache, scDisk, scToggle>>
  BY DEF RebindBinds
<1>2. \/ k = old /\ UNCHANGED <<scBound, scHeld>> /\ scGhost' = intent
      \/ /\ k # old /\ ~BindRefused(a, k, TRUE)
         /\ scBound' = [scBound EXCEPT ![a] = k]
         /\ scHeld' = (scHeld \ MakesWay(a)) \union (IF IsWanted(a) THEN {k} ELSE {})
         /\ scGhost' = [intent EXCEPT !.loose = @ \union stray]
  BY DEF RebindBinds
<1>3. /\ scOp \in Rebinds /\ scGhost \in KeyGhosts /\ scBound \in Bindings /\ scShown \in Bindings
      /\ scOp # NoOp
  BY <1>1, ShortTypes DEF ShortInv, NoOp
<1>4. a \in Actions /\ k \in Keys /\ scOp.prev \in Keys /\ old \in Keys
  BY <1>3 DEF Rebinds, Bindings
<1>5. scGhost.wanted \in Bindings /\ next \in Bindings /\ stray \subseteq Keys
  BY <1>3, <1>4 DEF KeyGhosts, Bindings
<1>6. /\ scGhost' \in KeyGhosts
      /\ scGhost'.wanted = next /\ scGhost'.past = scGhost.past \union {next}
      /\ scGhost'.lost = scGhost.lost /\ scGhost'.split = scGhost.split
      /\ k = old => scGhost'.loose = scGhost.loose
      /\ k # old => scGhost'.loose = scGhost.loose \union stray
  <2> HIDE DEF next, stray
  <2>1. /\ intent \in KeyGhosts /\ intent.wanted = next
        /\ intent.past = scGhost.past \union {next} /\ intent.lost = scGhost.lost
        /\ intent.split = scGhost.split /\ intent.loose = scGhost.loose
    BY <1>3, <1>5 DEF KeyGhosts, Intend
  <2> HIDE DEF intent, k, old
  <2> QED BY <1>2, <1>5, <2>1 DEF KeyGhosts
<1>7. scBound' = [scBound EXCEPT ![a] = k] /\ scBound' \in Bindings
  BY <1>2, <1>3, <1>4 DEF Bindings
<1>8. /\ scOp' \in Rebinds /\ scOp'.pc = "write" /\ scOp'.kind = "rebind"
      /\ scOp'.action = a /\ scOp'.key = k /\ scOp'.prev = scOp.prev
  BY <1>1, <1>3 DEF Rebinds
<1> HIDE DEF next
<1>9. OpTyped'
  BY <1>1, <1>6, <1>7, <1>8 DEF ShortInv, OpTyped, KeyGhosts, Operations, Rebinds
<1>10. KeysTyped'
  BY <1>1, <1>2, <1>4 DEF ShortInv, KeysTyped, BindRefused
<1>11. ~scGhost.split => scShown = scBound'
  BY <1>1, <1>7 DEF ShortInv, ShownAlong
<1>12. ShownAlong'
  BY <1>1, <1>6, <1>8, <1>11 DEF ShownAlong, NoOp
<1>13. GrabsFollow'
  <2> SUFFICES ASSUME NEW x \in Keys, x \notin scGhost'.loose
               PROVE  x \in scHeld' <=> \E b \in Actions : IsWanted(b) /\ scBound'[b] = x
    BY <1>1 DEF GrabsFollow, IsWanted
  <2>1. x \notin scGhost.loose
    BY <1>6
  <2>2. x \in scHeld <=> \E b \in Actions : IsWanted(b) /\ scBound[b] = x
    BY <2>1 DEF ShortInv, GrabsFollow
  <2>3. \A b \in Actions : scBound'[b] = IF b = a THEN k ELSE scBound[b]
    BY <1>3, <1>4, <1>7 DEF Bindings
  <2>4. CASE k = old
    BY <1>2, <2>2, <2>3, <2>4
  <2>5. CASE k # old
    <3>1. /\ \A b \in Actions : b # a => scBound[b] # k
          /\ k \notin scHeld \ MakesWay(a)
          /\ scHeld' = (scHeld \ MakesWay(a)) \union (IF IsWanted(a) THEN {k} ELSE {})
          /\ x \notin stray
      BY <1>2, <1>6, <2>5 DEF BindRefused, Others
    <3>2. CASE x = k
      BY <3>1, <3>2, <2>3, <1>4
    <3>3. CASE x = old
      <4>1. CASE SharedKey(a)
        <5>1. old \notin scHeld
          BY <3>1, <3>3, <4>1
        <5>2. x \notin scHeld'
          BY <3>1, <3>3, <5>1, <2>5
        <5> QED BY <5>1, <5>2, <2>2, <2>3, <3>3, <2>5
      <4>2. CASE ~SharedKey(a)
        <5>1. x \notin scHeld'
          BY <3>1, <3>3, <4>2, <2>5 DEF MakesWay
        <5>2. \A b \in Actions : b # a => scBound[b] # old
          BY <4>2 DEF SharedKey, Others
        <5> QED BY <5>1, <5>2, <2>3, <3>3, <2>5
      <4> QED BY <4>1, <4>2
    <3>4. CASE x # k /\ x # old
      <4>1. x \in scHeld' <=> x \in scHeld
        BY <3>1, <3>4 DEF MakesWay
      <4> HIDE DEF k
      <4> QED BY <4>1, <2>2, <2>3, <3>4, <1>4
    <3> QED BY <3>2, <3>3, <3>4
  <2> QED BY <2>4, <2>5
<1>14. ~OpWrites /\ ~OpWrites'
  BY <1>1, <1>8 DEF OpWrites
<1>15. CacheAlong'
  <2>1. ~scGhost.lost => scCache.keys = scGhost.wanted
    BY <1>1 DEF ShortInv, FilesAlong, CacheAlong
  <2>2. scOp' # NoOp
    BY <1>8 DEF NoOp
  <2> QED BY <1>1, <1>6, <1>8, <2>1, <2>2 DEF CacheAlong, next
<1>16. FilesAlong'
  BY <1>1, <1>6, <1>14, <1>15 DEF ShortInv, FilesAlong, ToggleWrites
<1> QED BY <1>9, <1>10, <1>12, <1>13, <1>16 DEF ShortInv

(* The write into the cache, and the save.                                  *)
LEMMA RebindSetsKeeps ==
  ASSUME ShortInv, NEW ok \in BOOLEAN, RebindSets(ok)
  PROVE  ShortInv'
<1> DEFINE a == scOp.action
           k == scOp.key
<1>1. /\ scOp.kind = "rebind" /\ scOp.pc = "write" /\ ~ToggleWrites
      /\ scCache' = IF ok THEN [scCache EXCEPT !.keys[a] = k] ELSE scCache
      /\ scOp' = IF ok THEN [scOp EXCEPT !.pc = "save"] ELSE NoOp
      /\ scGhost' = [scGhost EXCEPT !.lost = @ \/ ~ok]
      /\ UNCHANGED <<scShown, scBound, scHeld, scForeign, scSession, scAi, scDisk, scToggle>>
  BY DEF RebindSets
<1>2. /\ scOp \in Rebinds /\ scGhost \in KeyGhosts /\ scCache \in Settings /\ scOp # NoOp
      /\ scBound \in Bindings
  BY <1>1, ShortTypes DEF ShortInv, NoOp
<1>3. a \in Actions /\ k \in Keys
  BY <1>2 DEF Rebinds
<1>4. /\ scGhost' \in KeyGhosts /\ scGhost'.lost = (scGhost.lost \/ ~ok)
      /\ scGhost'.wanted = scGhost.wanted /\ scGhost'.past = scGhost.past
      /\ scGhost'.split = scGhost.split /\ scGhost'.loose = scGhost.loose
  <2>1. (scGhost.lost \/ ~ok) \in BOOLEAN
    OBVIOUS
  <2> QED BY <1>1, <1>2, <2>1 DEF KeyGhosts
<1>5. ok => /\ scCache' \in Settings /\ scCache'.keys = [scCache.keys EXCEPT ![a] = k]
            /\ scCache'.ai = scCache.ai
  <2>1. scCache.keys \in Bindings /\ [scCache.keys EXCEPT ![a] = k] \in Bindings
    BY <1>2, <1>3 DEF Settings, Bindings
  <2> QED BY <1>1, <1>2, <2>1 DEF Settings
<1>6. /\ ok => scOp' \in Rebinds /\ scOp'.pc = "save" /\ scOp'.kind = "rebind"
      /\ ~ok => scOp' = NoOp
  BY <1>1, <1>2 DEF Rebinds
<1>7. OpTyped'
  BY <1>1, <1>4, <1>5, <1>6 DEF ShortInv, OpTyped, KeyGhosts, Settings, Operations, Rebinds
<1>8. KeysTyped' /\ GrabsFollow'
  BY <1>1, <1>4 DEF ShortInv, KeysTyped, GrabsFollow, IsWanted
<1>9. ~scGhost.split => scShown = scBound
  BY <1>1 DEF ShortInv, ShownAlong
<1>10. ShownAlong'
  BY <1>1, <1>4, <1>6, <1>9 DEF ShownAlong, NoOp
<1>11. ok /\ ~scGhost.lost => scCache'.keys = scGhost.wanted
  BY <1>1, <1>5 DEF ShortInv, FilesAlong, CacheAlong
<1>12. ~scGhost'.lost => ok /\ ~scGhost.lost
  BY <1>4
<1>13. CacheAlong'
  BY <1>4, <1>6, <1>11, <1>12 DEF CacheAlong, NoOp
<1>14. ok => ~OpWrites' \/ ~ToggleWrites'
  BY <1>1 DEF ToggleWrites
<1>15. ~ok => ~OpWrites'
  BY <1>6 DEF OpWrites, NoOp
<1>16. FilesAlong'
  <2>1. /\ scGhost.wanted \in scGhost.past /\ (~scGhost.lost => scDisk.keys \in scGhost.past)
        /\ ~scGhost.lost /\ ~OpWrites => scCache.keys \in scGhost.past
    BY DEF ShortInv, FilesAlong
  <2> QED BY <1>1, <1>4, <1>11, <1>12, <1>13, <1>14, <1>15, <2>1 DEF FilesAlong
<1> QED BY <1>7, <1>8, <1>10, <1>16 DEF ShortInv

LEMMA RebindSavesKeeps ==
  ASSUME ShortInv, NEW ok \in BOOLEAN, RebindSaves(ok)
  PROVE  ShortInv'
<1>1. /\ scOp.kind = "rebind" /\ scOp.pc = "save"
      /\ scDisk' \in {scCache, scDisk} /\ scOp' = NoOp
      /\ UNCHANGED <<scShown, scBound, scHeld, scForeign, scSession, scAi, scCache, scToggle,
                     scGhost>>
  BY DEF RebindSaves
<1>2. OpTyped' /\ KeysTyped' /\ GrabsFollow'
  BY <1>1 DEF ShortInv, OpTyped, Operations, KeysTyped, GrabsFollow, IsWanted
<1>3. ~scGhost.split => scShown = scBound
  BY <1>1 DEF ShortInv, ShownAlong
<1>4. ShownAlong'
  BY <1>1, <1>3 DEF ShownAlong, NoOp
<1>5. ~scGhost.lost => scCache.keys = scGhost.wanted
  BY <1>1 DEF ShortInv, FilesAlong, CacheAlong
<1>6. CacheAlong'
  BY <1>1, <1>5 DEF CacheAlong, NoOp
<1>7. ~OpWrites'
  BY <1>1 DEF OpWrites, NoOp
<1>8. FilesAlong'
  BY <1>1, <1>5, <1>6, <1>7 DEF ShortInv, FilesAlong
<1> QED BY <1>2, <1>4, <1>8 DEF ShortInv

(* Resetting: bound first.                                                  *)
LEMMA ResetBeginsKeeps ==
  ASSUME ShortInv, ResetBegins
  PROVE  ShortInv'
<1>1. /\ scOp = NoOp /\ scOp' = [kind |-> "reset", pc |-> "bind", at |-> 1, prev |-> scShown]
      /\ UNCHANGED <<scShown, scBound, scHeld, scForeign, scSession, scAi, scCache, scDisk,
                     scToggle, scGhost>>
  BY DEF ResetBegins
<1>2. scOp' \in Operations /\ scOp'.kind = "reset" /\ scOp'.pc = "bind"
      /\ scOp'.prev = scShown /\ scOp'.at = 1 /\ scOp' # NoOp
  BY <1>1 DEF ShortInv, OpTyped, Operations, Steps, NoOp
<1>3. OpTyped' /\ KeysTyped' /\ GrabsFollow'
  BY <1>1, <1>2 DEF ShortInv, OpTyped, KeysTyped, GrabsFollow, IsWanted
<1>4. ~scGhost.split => scShown = scBound
  BY <1>1 DEF ShortInv, ShownAlong
<1>5. ShownAlong'
  BY <1>1, <1>2, <1>4 DEF ShownAlong
<1>6. ~OpWrites /\ ~OpWrites'
  BY <1>1, <1>2 DEF OpWrites, NoOp
<1>7. FilesAlong'
  BY <1>1, <1>2, <1>6 DEF ShortInv, FilesAlong, CacheAlong, ToggleWrites
<1> QED BY <1>3, <1>5, <1>7 DEF ShortInv

(* All the old keys make way, and of the new ones those that are wanted     *)
(* stay.                                                                    *)
LEMMA ReboundKeeps ==
  ASSUME ShortInv, NEW keys \in Bindings, Bindable(keys), Rebound(keys),
         UNCHANGED <<scForeign, scSession, scAi>>, scGhost'.loose = scGhost.loose
  PROVE  scBound' \in Bindings /\ KeysTyped' /\ GrabsFollow'
<1>1. /\ scBound' = keys
      /\ scHeld' = (scHeld \ {scBound[b] : b \in Actions})
                     \union {keys[a] : a \in {b \in Actions : IsWanted(b)}}
  BY DEF Rebound
<1>2. \A a \in Actions : keys[a] \in Keys /\ keys[a] \notin scForeign
  BY DEF Bindings, Bindable
<1>3. KeysTyped'
  BY <1>1, <1>2 DEF ShortInv, KeysTyped
<1>4. GrabsFollow'
  <2> SUFFICES ASSUME NEW x \in Keys, x \notin scGhost.loose
               PROVE  x \in scHeld' <=> \E b \in Actions : IsWanted(b) /\ keys[b] = x
    BY <1>1 DEF GrabsFollow, IsWanted
  <2>1. x \in scHeld <=> \E b \in Actions : IsWanted(b) /\ scBound[b] = x
    BY DEF ShortInv, GrabsFollow
  <2>2. x \notin scHeld \ {scBound[b] : b \in Actions}
    BY <2>1
  <2> QED BY <2>2, <1>1
<1> QED BY <1>1, <1>3, <1>4

LEMMA ResetBindsKeeps ==
  ASSUME ShortInv, NEW ok \in BOOLEAN, ResetBinds(ok)
  PROVE  ShortInv'
<1>1. /\ scOp.kind = "reset" /\ scOp.pc = "bind"
      /\ UNCHANGED <<scShown, scForeign, scSession, scAi, scCache, scDisk, scToggle, scGhost>>
  BY DEF ResetBinds
<1>2. /\ scOp \in Resets /\ scOp # NoOp
  BY <1>1, ShortTypes DEF ShortInv, NoOp
<1>3. /\ scShown = scOp.prev /\ (~scGhost.split => scBound = scOp.prev) /\ scOp.at = 1
      /\ ~scGhost.lost => scCache.keys = scGhost.wanted
  BY <1>1 DEF ShortInv, ShownAlong, FilesAlong, CacheAlong
<1>4. CASE Bindable(Shipped) /\ Rebound(Shipped) /\ scOp' = [scOp EXCEPT !.pc = "turn"]
  <2>1. /\ scOp' \in Resets /\ scOp'.pc = "turn" /\ scOp'.prev = scOp.prev
        /\ scOp'.kind = "reset" /\ scOp'.at = scOp.at
    BY <1>2, <1>4 DEF Resets, Steps
  <2>2. scBound' = Shipped /\ scBound' \in Bindings /\ KeysTyped' /\ GrabsFollow'
    BY <1>1, <1>4, ReboundKeeps, ShippedBindings DEF Rebound
  <2>3. OpTyped'
    BY <1>1, <2>1, <2>2 DEF ShortInv, OpTyped, Operations, Resets
  <2>4. ShownAlong'
    BY <1>1, <1>3, <2>1, <2>2 DEF ShownAlong, NoOp
  <2>5. ~OpWrites /\ ~OpWrites'
    BY <1>1, <2>1 DEF OpWrites
  <2>6. FilesAlong'
    BY <1>1, <1>3, <2>1, <2>5 DEF ShortInv, FilesAlong, CacheAlong, ToggleWrites
  <2> QED BY <2>2, <2>3, <2>4, <2>6 DEF ShortInv
<1>5. CASE UNCHANGED <<scBound, scHeld>> /\ scOp' = NoOp
  <2>1. OpTyped' /\ KeysTyped' /\ GrabsFollow'
    BY <1>1, <1>5 DEF ShortInv, OpTyped, Operations, KeysTyped, GrabsFollow, IsWanted
  <2>2. ShownAlong'
    BY <1>1, <1>3, <1>5 DEF ShownAlong, NoOp
  <2>3. ~OpWrites /\ ~OpWrites'
    BY <1>1, <1>5 DEF OpWrites, NoOp
  <2>4. FilesAlong'
    BY <1>1, <1>3, <1>5, <2>3 DEF ShortInv, FilesAlong, CacheAlong, ToggleWrites, NoOp
  <2> QED BY <2>1, <2>2, <2>4 DEF ShortInv
<1> QED BY <1>4, <1>5 DEF ResetBinds

(* The keys are written one after the other.                                *)
LEMMA KeysInOrder ==
  /\ \A i \in 1..3 : Order[i] \in Actions /\ KeysAt(i + 1) = KeysAt(i) \union {Order[i]}
                     /\ KeysAt(i) \subseteq Actions
  /\ KeysAt(1) = {} /\ KeysAt(4) = Actions /\ KeysAt(3 + 1) = Actions
<1>1. 1..0 = {} /\ 1..1 = {1} /\ 1..2 = {1, 2} /\ 1..3 = {1, 2, 3}
  OBVIOUS
<1>2. Order[1] = "friends" /\ Order[2] = "ai" /\ Order[3] = "mic"
  BY DEF Order
<1>3. KeysAt(1) = {Order[j] : j \in 1..0} /\ KeysAt(2) = {Order[j] : j \in 1..1}
      /\ KeysAt(3) = {Order[j] : j \in 1..2} /\ KeysAt(4) = {Order[j] : j \in 1..3}
  BY DEF KeysAt
<1>4. KeysAt(1) = {} /\ KeysAt(2) = {"friends"} /\ KeysAt(3) = {"friends", "ai"}
      /\ KeysAt(4) = Actions
  BY <1>1, <1>2, <1>3 DEF Actions
<1> HIDE DEF KeysAt
<1> QED BY <1>1, <1>2, <1>4 DEF Actions

LEMMA ResetsTurnKeeps ==
  ASSUME ShortInv, ResetsTurn
  PROVE  ShortInv'
<1>1. /\ scOp.kind = "reset" /\ scOp.pc = "turn" /\ ~ToggleWrites
      /\ scOp' = [scOp EXCEPT !.pc = "set"]
      /\ UNCHANGED <<scShown, scBound, scHeld, scForeign, scSession, scAi, scCache, scDisk,
                     scToggle, scGhost>>
  BY DEF ResetsTurn
<1>2. scOp \in Resets
  BY <1>1, ShortTypes DEF ShortInv
<1>3. /\ scOp' \in Resets /\ scOp'.pc = "set" /\ scOp'.prev = scOp.prev /\ scOp'.kind = "reset"
      /\ scOp'.at = scOp.at
  BY <1>1, <1>2 DEF Resets, Steps
<1>4. OpTyped' /\ KeysTyped' /\ GrabsFollow'
  BY <1>1, <1>3 DEF ShortInv, OpTyped, Operations, Resets, KeysTyped, GrabsFollow, IsWanted
<1>5. ShownAlong'
  BY <1>1, <1>3 DEF ShortInv, ShownAlong, NoOp
<1>6. KeysAt(scOp'.at) = {}
  BY <1>1, <1>3, KeysInOrder DEF ShortInv, ShownAlong
<1>7. ~OpWrites /\ OpWrites' /\ ~ToggleWrites'
  BY <1>1, <1>3 DEF OpWrites, ToggleWrites
<1>8. FilesAlong'
  <2>1. CacheAlong'
    BY <1>3, <1>6 DEF CacheAlong, NoOp
  <2> QED BY <1>1, <1>7, <2>1 DEF ShortInv, FilesAlong
<1> QED BY <1>4, <1>5, <1>8 DEF ShortInv

(* One key after the other is written into the cache, then all are saved.   *)
LEMMA ResetSetsKeeps ==
  ASSUME ShortInv, NEW ok \in BOOLEAN, ResetSets(ok)
  PROVE  ShortInv'
<1> DEFINE a == Order[scOp.at]
<1>1. /\ scOp.kind = "reset" /\ scOp.pc = "set"
      /\ scCache' = IF ok THEN [scCache EXCEPT !.keys[a] = Shipped[a]] ELSE scCache
      /\ scOp' = IF ~ok THEN [scOp EXCEPT !.pc = "restore"]
                 ELSE IF scOp.at < 3 THEN [scOp EXCEPT !.at = @ + 1]
                 ELSE [scOp EXCEPT !.pc = "save"]
      /\ UNCHANGED <<scShown, scBound, scHeld, scForeign, scSession, scAi, scDisk, scToggle,
                     scGhost>>
  BY DEF ResetSets
<1>2. scOp \in Resets /\ scCache \in Settings
  BY <1>1, ShortTypes DEF ShortInv
<1>3. scOp.at \in 1..3 /\ a \in Actions /\ Shipped[a] \in Keys
      /\ KeysAt(scOp.at + 1) = KeysAt(scOp.at) \union {a}
  BY <1>2, KeysInOrder, ShortcutsAssumption DEF Resets
<1>4. /\ scOp' \in Resets /\ scOp'.kind = "reset" /\ scOp'.prev = scOp.prev
      /\ ~ok => scOp'.pc = "restore"
      /\ ok /\ scOp.at < 3 => scOp'.pc = "set" /\ scOp'.at = scOp.at + 1
      /\ ok /\ ~(scOp.at < 3) => scOp'.pc = "save" /\ scOp.at = 3
  <2>1. CASE ~ok
    BY <1>1, <1>2, <2>1 DEF Resets, Steps
  <2>2. CASE ok /\ scOp.at < 3
    BY <1>1, <1>2, <2>2 DEF Resets
  <2>3. CASE ok /\ ~(scOp.at < 3)
    BY <1>1, <1>2, <2>3 DEF Resets, Steps
  <2> QED BY <2>1, <2>2, <2>3
<1> HIDE DEF a
<1>5. /\ scCache' \in Settings
      /\ ok => scCache'.keys = [scCache.keys EXCEPT ![a] = Shipped[a]]
  <2>1. scCache.keys \in Bindings /\ [scCache.keys EXCEPT ![a] = Shipped[a]] \in Bindings
    BY <1>2, <1>3 DEF Settings, Bindings
  <2> QED BY <1>1, <1>2, <2>1 DEF Settings
<1>6. OpTyped' /\ KeysTyped' /\ GrabsFollow'
  BY <1>1, <1>4, <1>5 DEF ShortInv, OpTyped, Operations, Resets, KeysTyped, GrabsFollow, IsWanted,
                          Settings
<1>7. ShownAlong'
  BY <1>1, <1>4 DEF ShortInv, ShownAlong, NoOp
<1>8. OpWrites /\ OpWrites' /\ ~ToggleWrites /\ ~ToggleWrites'
  BY <1>1, <1>4 DEF ShortInv, FilesAlong, OpWrites, ToggleWrites
<1>9. ok /\ ~scGhost.lost => \A b \in KeysAt(scOp.at + 1) : scCache'.keys[b] = Shipped[b]
  <2> SUFFICES ASSUME ok, ~scGhost.lost, NEW b \in KeysAt(scOp.at) \union {a}
               PROVE  scCache'.keys[b] = Shipped[b]
    BY <1>3
  <2>1. b # a => scCache.keys[b] = Shipped[b]
    BY <1>1 DEF ShortInv, FilesAlong, CacheAlong
  <2>2. scCache.keys \in [Actions -> Keys] /\ b \in Actions
    BY <1>2, <1>3, KeysInOrder DEF Settings, Bindings, KeysAt
  <2> QED BY <1>3, <1>5, <2>1, <2>2
<1>10. ok /\ ~scGhost.lost /\ ~(scOp.at < 3) => scCache'.keys = Shipped
  <2> SUFFICES ASSUME ok, ~scGhost.lost, ~(scOp.at < 3)
               PROVE  scCache'.keys = Shipped
    OBVIOUS
  <2>1. \A b \in Actions : scCache'.keys[b] = Shipped[b]
    BY <1>4, <1>9, KeysInOrder
  <2>2. scCache'.keys \in [Actions -> Keys]
    BY <1>5 DEF Settings, Bindings
  <2> QED BY <2>1, <2>2, ShortcutsAssumption
<1>11. CacheAlong'
  <2>1. scOp' # NoOp
    BY <1>4 DEF NoOp
  <2>2. CASE ~ok
    BY <1>1, <1>4, <2>1, <2>2 DEF CacheAlong
  <2>3. CASE ok /\ scOp.at < 3
    BY <1>1, <1>4, <1>9, <2>1, <2>3 DEF CacheAlong
  <2>4. CASE ok /\ ~(scOp.at < 3)
    BY <1>1, <1>4, <1>10, <2>1, <2>4 DEF CacheAlong
  <2> QED BY <2>2, <2>3, <2>4
<1>12. FilesAlong'
  BY <1>1, <1>8, <1>11 DEF ShortInv, FilesAlong
<1> QED BY <1>6, <1>7, <1>12 DEF ShortInv

LEMMA ResetSavesKeeps ==
  ASSUME ShortInv, NEW ok \in BOOLEAN, ResetSaves(ok)
  PROVE  ShortInv'
<1>1. /\ scOp.kind = "reset" /\ scOp.pc = "save"
      /\ UNCHANGED <<scBound, scHeld, scForeign, scSession, scAi, scCache, scToggle>>
  BY DEF ResetSaves
<1>2. scOp \in Resets /\ scGhost \in KeyGhosts
  BY <1>1, ShortTypes DEF ShortInv
<1>3. scShown = scOp.prev /\ scBound = Shipped /\ (~scGhost.lost => scCache.keys = Shipped)
      /\ ~ToggleWrites
  BY <1>1 DEF ShortInv, ShownAlong, FilesAlong, CacheAlong, OpWrites
<1>4. CASE ok
  <2>1. scDisk' = scCache /\ scShown' = Shipped /\ scOp' = NoOp
        /\ scGhost' = Intend(scGhost, Shipped)
    BY <1>4 DEF ResetSaves
  <2>2. /\ scGhost' \in KeyGhosts /\ scGhost'.wanted = Shipped
        /\ scGhost'.past = scGhost.past \union {Shipped}
        /\ scGhost'.lost = scGhost.lost /\ scGhost'.split = scGhost.split
        /\ scGhost'.loose = scGhost.loose
    BY <1>2, <2>1, ShippedBindings DEF KeyGhosts, Intend
  <2>3. OpTyped'
    BY <1>1, <2>1, <2>2, ShippedBindings DEF ShortInv, OpTyped, Operations, KeyGhosts
  <2>4. KeysTyped' /\ GrabsFollow'
    BY <1>1, <2>2 DEF ShortInv, KeysTyped, GrabsFollow, IsWanted
  <2>5. ShownAlong'
    BY <1>1, <1>3, <2>1 DEF ShownAlong, NoOp
  <2>6. FilesAlong'
    BY <1>1, <1>3, <2>1, <2>2 DEF FilesAlong, CacheAlong, OpWrites, NoOp
  <2> QED BY <2>3, <2>4, <2>5, <2>6 DEF ShortInv
<1>5. CASE ~ok
  <2>1. scOp' = [scOp EXCEPT !.pc = "restore"] /\ UNCHANGED <<scDisk, scShown, scGhost>>
    BY <1>5 DEF ResetSaves
  <2>2. scOp' \in Resets /\ scOp'.pc = "restore" /\ scOp'.kind = "reset"
        /\ scOp'.prev = scOp.prev
    BY <1>2, <2>1 DEF Resets, Steps
  <2>3. OpTyped' /\ KeysTyped' /\ GrabsFollow'
    BY <1>1, <2>1, <2>2 DEF ShortInv, OpTyped, Operations, Resets, KeysTyped, GrabsFollow, IsWanted
  <2>4. ShownAlong'
    BY <1>1, <1>3, <2>1, <2>2 DEF ShownAlong, NoOp
  <2>5. OpWrites /\ OpWrites'
    BY <1>1, <2>2 DEF OpWrites
  <2>6. FilesAlong'
    BY <1>1, <2>1, <2>2, <2>5 DEF ShortInv, FilesAlong, CacheAlong, ToggleWrites, NoOp
  <2> QED BY <2>3, <2>4, <2>6 DEF ShortInv
<1> QED BY <1>4, <1>5

(* A reset that failed is undone in the shell, then in the cache, then in   *)
(* the file.                                                                *)
LEMMA ResetRestoresKeeps ==
  ASSUME ShortInv, NEW ok \in BOOLEAN, ResetRestores(ok)
  PROVE  ShortInv'
<1>1. /\ scOp.kind = "reset" /\ scOp.pc = "restore"
      /\ scOp' = [scOp EXCEPT !.pc = "unset", !.at = 1]
      /\ UNCHANGED <<scShown, scForeign, scSession, scAi, scCache, scDisk, scToggle>>
  BY DEF ResetRestores
<1>2. scOp \in Resets /\ scGhost \in KeyGhosts /\ scOp.prev \in Bindings
  BY <1>1, ShortTypes DEF ShortInv, Resets
<1>3. /\ scOp' \in Resets /\ scOp'.pc = "unset" /\ scOp'.kind = "reset"
      /\ scOp'.prev = scOp.prev /\ scOp'.at = 1
  <2> DEFINE half == [scOp EXCEPT !.pc = "unset"]
  <2>1. half \in Resets /\ half.pc = "unset" /\ half.kind = "reset" /\ half.prev = scOp.prev
    BY <1>1, <1>2 DEF Resets, Steps
  <2>2. scOp' = [half EXCEPT !.at = 1]
    BY <1>1
  <2> HIDE DEF half
  <2> QED BY <2>1, <2>2 DEF Resets
<1>4. scShown = scOp.prev /\ OpWrites /\ OpWrites' /\ ~ToggleWrites
  BY <1>1, <1>3 DEF ShortInv, ShownAlong, FilesAlong, OpWrites
<1>5. /\ scGhost' \in KeyGhosts
      /\ scGhost'.wanted = scGhost.wanted /\ scGhost'.past = scGhost.past
      /\ scGhost'.lost = scGhost.lost /\ scGhost'.loose = scGhost.loose
      /\ scBound' \in Bindings /\ (~scGhost'.split => scBound' = scOp.prev)
      /\ KeysTyped' /\ GrabsFollow'
  <2>1. CASE Bindable(scOp.prev) /\ Rebound(scOp.prev) /\ UNCHANGED scGhost
    BY <1>1, <1>2, <2>1, ReboundKeeps DEF Rebound
  <2>2. CASE UNCHANGED <<scBound, scHeld>> /\ scGhost' = [scGhost EXCEPT !.split = TRUE]
    <3>1. /\ scGhost' \in KeyGhosts /\ scGhost'.split
          /\ scGhost'.wanted = scGhost.wanted /\ scGhost'.past = scGhost.past
          /\ scGhost'.lost = scGhost.lost /\ scGhost'.loose = scGhost.loose
      BY <1>2, <2>2 DEF KeyGhosts
    <3> QED BY <1>1, <2>2, <3>1, ShortTypes DEF ShortInv, KeysTyped, GrabsFollow, IsWanted
  <2> QED BY <2>1, <2>2 DEF ResetRestores
<1>6. OpTyped'
  BY <1>1, <1>3, <1>5 DEF ShortInv, OpTyped, Operations, Resets, KeyGhosts
<1>7. ShownAlong'
  BY <1>1, <1>3, <1>4, <1>5 DEF ShownAlong, NoOp
<1>8. CacheAlong'
  BY <1>1, <1>3, <1>5, KeysInOrder DEF CacheAlong, NoOp
<1>9. FilesAlong'
  BY <1>1, <1>4, <1>5, <1>8 DEF ShortInv, FilesAlong, ToggleWrites
<1> QED BY <1>5, <1>6, <1>7, <1>9 DEF ShortInv

LEMMA ResetUnsetsKeeps ==
  ASSUME ShortInv, NEW ok \in BOOLEAN, ResetUnsets(ok)
  PROVE  ShortInv'
<1> DEFINE a == Order[scOp.at]
           old == scOp.prev
<1>1. /\ scOp.kind = "reset" /\ scOp.pc = "unset"
      /\ scCache' = IF ok THEN [scCache EXCEPT !.keys[a] = old[a]] ELSE scCache
      /\ scOp' = IF ~ok THEN NoOp
                 ELSE IF scOp.at < 3 THEN [scOp EXCEPT !.at = @ + 1]
                 ELSE [scOp EXCEPT !.pc = "unsave"]
      /\ scGhost' = IF ok THEN scGhost ELSE [scGhost EXCEPT !.lost = TRUE]
      /\ UNCHANGED <<scShown, scBound, scHeld, scForeign, scSession, scAi, scDisk, scToggle>>
  BY DEF ResetUnsets
<1>2. scOp \in Resets /\ scCache \in Settings /\ scGhost \in KeyGhosts
  BY <1>1, ShortTypes DEF ShortInv
<1>3. /\ scOp.at \in 1..3 /\ a \in Actions /\ old \in [Actions -> Keys] /\ old[a] \in Keys
      /\ KeysAt(scOp.at + 1) = KeysAt(scOp.at) \union {a}
  BY <1>2, KeysInOrder DEF Resets, Bindings
<1>4. /\ ok => scOp' \in Resets /\ scOp'.kind = "reset" /\ scOp'.prev = old
      /\ ~ok => scOp' = NoOp
      /\ ok /\ scOp.at < 3 => scOp'.pc = "unset" /\ scOp'.at = scOp.at + 1
      /\ ok /\ ~(scOp.at < 3) => scOp'.pc = "unsave" /\ scOp.at = 3
  <2>1. CASE ~ok
    BY <1>1, <2>1
  <2>2. CASE ok /\ scOp.at < 3
    BY <1>1, <1>2, <2>2 DEF Resets
  <2>3. CASE ok /\ ~(scOp.at < 3)
    BY <1>1, <1>2, <2>3 DEF Resets, Steps
  <2> QED BY <2>1, <2>2, <2>3
<1> HIDE DEF a
<1>5. /\ scCache' \in Settings
      /\ ok => scCache'.keys = [scCache.keys EXCEPT ![a] = old[a]]
  <2>1. scCache.keys \in Bindings /\ [scCache.keys EXCEPT ![a] = old[a]] \in Bindings
    BY <1>2, <1>3 DEF Settings, Bindings
  <2> HIDE DEF old
  <2> QED BY <1>1, <1>2, <2>1 DEF Settings
<1>6. /\ scGhost' \in KeyGhosts /\ (ok => scGhost' = scGhost) /\ (~ok => scGhost'.lost)
      /\ scGhost'.wanted = scGhost.wanted /\ scGhost'.past = scGhost.past
      /\ scGhost'.loose = scGhost.loose /\ scGhost'.split = scGhost.split
  BY <1>1, <1>2 DEF KeyGhosts
<1>7. OpTyped' /\ KeysTyped' /\ GrabsFollow'
  BY <1>1, <1>4, <1>5, <1>6 DEF ShortInv, OpTyped, Operations, Resets, KeysTyped, GrabsFollow,
                                IsWanted, Settings, KeyGhosts
<1>8. scShown = old /\ (~scGhost.split => scBound = old)
  BY <1>1 DEF ShortInv, ShownAlong
<1>9. ShownAlong'
  BY <1>1, <1>4, <1>6, <1>8 DEF ShownAlong, NoOp
<1>10. OpWrites /\ ~ToggleWrites /\ ~ToggleWrites'
  BY <1>1 DEF ShortInv, FilesAlong, OpWrites, ToggleWrites
<1>11. ok /\ ~scGhost.lost => \A b \in KeysAt(scOp.at + 1) : scCache'.keys[b] = old[b]
  <2> SUFFICES ASSUME ok, ~scGhost.lost, NEW b \in KeysAt(scOp.at) \union {a}
               PROVE  scCache'.keys[b] = old[b]
    BY <1>3
  <2>1. b # a => scCache.keys[b] = old[b]
    BY <1>1 DEF ShortInv, FilesAlong, CacheAlong
  <2>2. scCache.keys \in [Actions -> Keys] /\ b \in Actions
    BY <1>2, <1>3, KeysInOrder DEF Settings, Bindings, KeysAt
  <2> HIDE DEF old
  <2> QED BY <1>3, <1>5, <2>1, <2>2
<1>12. ok /\ ~scGhost.lost /\ ~(scOp.at < 3) => scCache'.keys = old
  <2> SUFFICES ASSUME ok, ~scGhost.lost, ~(scOp.at < 3)
               PROVE  scCache'.keys = old
    OBVIOUS
  <2>1. \A b \in Actions : scCache'.keys[b] = old[b]
    BY <1>4, <1>11, KeysInOrder
  <2>2. scCache'.keys \in [Actions -> Keys]
    BY <1>5 DEF Settings, Bindings
  <2> HIDE DEF old
  <2> QED BY <2>1, <2>2, <1>3
<1>13. CacheAlong'
  <2>1. CASE ~ok
    BY <1>6, <2>1 DEF CacheAlong
  <2>2. ok => scOp' # NoOp
    BY <1>4 DEF NoOp
  <2>3. CASE ok /\ scOp.at < 3
    BY <1>4, <1>6, <1>11, <2>2, <2>3 DEF CacheAlong
  <2>4. CASE ok /\ ~(scOp.at < 3)
    BY <1>4, <1>6, <1>12, <2>2, <2>4 DEF CacheAlong
  <2> QED BY <2>1, <2>3, <2>4
<1>14. ok => OpWrites'
  BY <1>4 DEF OpWrites
<1>15. FilesAlong'
  <2>1. ~scGhost'.lost => ok /\ ~scGhost.lost
    BY <1>6
  <2>2. scGhost.wanted \in scGhost.past /\ (~scGhost.lost => scDisk.keys \in scGhost.past)
    BY DEF ShortInv, FilesAlong
  <2> QED BY <1>1, <1>6, <1>10, <1>13, <1>14, <2>1, <2>2 DEF FilesAlong
<1> QED BY <1>7, <1>9, <1>15 DEF ShortInv

LEMMA ResetUnsavesKeeps ==
  ASSUME ShortInv, NEW ok \in BOOLEAN, ResetUnsaves(ok)
  PROVE  ShortInv'
<1>1. /\ scOp.kind = "reset" /\ scOp.pc = "unsave"
      /\ scDisk' \in {scCache, scDisk} /\ scOp' = NoOp
      /\ scGhost' = Intend(scGhost, scOp.prev)
      /\ UNCHANGED <<scShown, scBound, scHeld, scForeign, scSession, scAi, scCache, scToggle>>
  BY DEF ResetUnsaves
<1>2. scGhost \in KeyGhosts /\ scOp.prev \in Bindings
  BY <1>1, ShortTypes DEF ShortInv, Resets
<1>3. /\ scGhost' \in KeyGhosts /\ scGhost'.wanted = scOp.prev
      /\ scGhost'.past = scGhost.past \union {scOp.prev}
      /\ scGhost'.lost = scGhost.lost /\ scGhost'.split = scGhost.split
      /\ scGhost'.loose = scGhost.loose
  BY <1>1, <1>2 DEF KeyGhosts, Intend
<1>4. scShown = scOp.prev /\ (~scGhost.split => scBound = scOp.prev)
      /\ (~scGhost.lost => scCache.keys = scOp.prev /\ scDisk.keys \in scGhost.past)
  BY <1>1 DEF ShortInv, ShownAlong, FilesAlong, CacheAlong
<1>5. OpTyped' /\ KeysTyped' /\ GrabsFollow'
  BY <1>1, <1>3 DEF ShortInv, OpTyped, Operations, KeyGhosts, KeysTyped, GrabsFollow, IsWanted
<1>6. ShownAlong'
  BY <1>1, <1>3, <1>4 DEF ShownAlong, NoOp
<1>7. FilesAlong'
  BY <1>1, <1>3, <1>4 DEF FilesAlong, CacheAlong, OpWrites, NoOp
<1> QED BY <1>5, <1>6, <1>7 DEF ShortInv

(* Another program takes a key or gives it back.                            *)
LEMMA OthersKeep ==
  ASSUME ShortInv, NEW k \in Keys, OthersTake(k) \/ OthersGive(k)
  PROVE  ShortInv'
<1>1. /\ UNCHANGED <<scShown, scBound, scHeld, scSession, scAi, scCache, scDisk, scOp,
                     scToggle, scGhost>>
      /\ \/ scForeign' = scForeign \union {k} /\ k \notin scHeld
         \/ scForeign' = scForeign \ {k}
  BY DEF OthersTake, OthersGive
<1>2. OpTyped' /\ KeysTyped'
  BY <1>1 DEF ShortInv, OpTyped, KeysTyped
<1>3. ShownAlong' /\ GrabsFollow'
  BY <1>1 DEF ShortInv, ShownAlong, GrabsFollow, IsWanted
<1>4. FilesAlong'
  BY <1>1 DEF ShortInv, FilesAlong, CacheAlong, OpWrites, ToggleWrites
<1> QED BY <1>2, <1>3, <1>4 DEF ShortInv

(* The next launch starts from the file.                                    *)
LEMMA StartsAgainKeeps ==
  ASSUME ShortInv, StartsAgain
  PROVE  ShortInv'
<1> DEFINE keys == ResolvedKeys(scDisk.keys)
           ai == keys["ai"]
           first == IF scDisk.ai THEN Grab({}, ai) ELSE [held |-> {}, loose |-> {}]
<1>1. /\ scShown' = keys /\ scBound' = keys /\ scCache' = scDisk
      /\ scSession' = FALSE /\ scAi' = scDisk.ai
      /\ scHeld' = first.held /\ scOp' = NoOp /\ scToggle' = Still
      /\ scGhost' = [wanted |-> scDisk.keys, past |-> {scDisk.keys}, lost |-> FALSE,
                     split |-> FALSE, loose |-> first.loose]
      /\ UNCHANGED <<scForeign, scDisk>>
  BY DEF StartsAgain
<1>2. scDisk \in Settings
  BY ShortTypes DEF ShortInv
<1>3. scDisk.keys \in Bindings /\ keys \in Bindings /\ ai \in Keys /\ scDisk.ai \in BOOLEAN
  BY <1>2, ResolvedIsBinding DEF Settings, Bindings, Actions
<1>4. /\ first.held \subseteq {ai} /\ first.loose \subseteq {ai}
      /\ first.held \intersect scForeign = {}
      /\ scDisk.ai => ai \in first.held \union first.loose
      /\ ~scDisk.ai => first.held = {}
  <2> HIDE DEF ai
  <2>1. CASE scDisk.ai
    <3>1. first = Grab({}, ai)
      BY <2>1
    <3> HIDE DEF first
    <3> QED BY <2>1, <3>1, GrabIs
  <2>2. CASE ~scDisk.ai
    BY <2>2
  <2> QED BY <2>1, <2>2
<1> HIDE DEF first, keys
<1>5. OpTyped'
  <2>1. scGhost' \in KeyGhosts
    BY <1>1, <1>3, <1>4 DEF KeyGhosts
  <2> QED BY <1>1, <1>2, <1>3, <2>1 DEF OpTyped, Operations, Still, Settings, KeyGhosts
<1>6. KeysTyped'
  BY <1>1, <1>3, <1>4 DEF ShortInv, KeysTyped
<1>7. ShownAlong'
  BY <1>1 DEF ShownAlong, NoOp
<1>8. GrabsFollow'
  <2> SUFFICES ASSUME NEW x \in Keys, x \notin first.loose
               PROVE  x \in first.held <=> scDisk.ai /\ x = ai
    BY <1>1 DEF GrabsFollow, IsWanted, Actions
  <2> QED BY <1>3, <1>4
<1>9. FilesAlong'
  BY <1>1 DEF FilesAlong, CacheAlong, OpWrites, ToggleWrites, NoOp, Still
<1> QED BY <1>5, <1>6, <1>7, <1>8, <1>9 DEF ShortInv

(* A step that changes nothing here.                                        *)
LEMMA ShortStutters == ShortInv /\ UNCHANGED scVars => ShortInv'
<1> SUFFICES ASSUME ShortInv, UNCHANGED scVars PROVE ShortInv'
  OBVIOUS
<1>1. OpTyped' /\ KeysTyped'
  BY DEF scVars, ShortInv, OpTyped, KeysTyped
<1>2. ShownAlong' /\ GrabsFollow'
  BY DEF scVars, ShortInv, ShownAlong, GrabsFollow, IsWanted
<1>3. FilesAlong'
  BY DEF scVars, ShortInv, FilesAlong, CacheAlong, OpWrites, ToggleWrites
<1> QED BY <1>1, <1>2, <1>3 DEF ShortInv

(* The invariant says what was to be shown.                                 *)
LEMMA ShortSound == ShortInv => ShortcutsAreSound
<1> SUFFICES ASSUME ShortInv PROVE ShortcutsAreSound
  OBVIOUS
<1>1. ShortcutsTypeOK
  BY ShortTypes DEF ShortInv, KeysTyped, ShortcutsTypeOK, Bindings
<1>2. ShownIsBound
  BY DEF ShortInv, ShownAlong, ShownIsBound
<1>3. FilesAreWhole
  BY DEF ShortInv, FilesAlong, CacheAlong, FilesAreWhole
<1> QED BY <1>1, <1>2, <1>3 DEF ShortInv, ShortcutsAreSound

(* Whichever way rebinds, resets, sessions, the AI switch, other programs,  *)
(* failed writes and launches interleave (settingsStore.ts,                 *)
(* commands/system.rs): what is shown is bound, a key is held exactly while *)
(* somebody wants it, and no file mixes two sets of shortcuts unless a      *)
(* write into the cache was lost.                                           *)
THEOREM ShortcutsAlwaysSound == ShortcutsSpec => []ShortcutsAreSound
<1>1. ShortInv /\ [ShortcutsNext]_scVars => ShortInv'
  <2> SUFFICES ASSUME ShortInv, [ShortcutsNext]_scVars PROVE ShortInv'
    OBVIOUS
  <2>1. ASSUME NEW on \in BOOLEAN, NEW ok \in BOOLEAN, SessionSetActive(on, ok)
        PROVE  ShortInv'
    BY <2>1, EdgeKeeps
  <2>2. ASSUME NEW on \in BOOLEAN, ToggleBegins(on) PROVE ShortInv'
    BY <2>2, ToggleBeginsKeeps
  <2>3. ASSUME NEW ok \in BOOLEAN, ToggleSets(ok) \/ ToggleSaves(ok) \/ TogglePushes(ok)
        PROVE  ShortInv'
    BY <2>3, ToggleSetsKeeps, ToggleSavesKeeps, TogglePushesKeeps
  <2>4. ASSUME NEW a \in Actions, NEW k \in Keys, RebindBegins(a, k) PROVE ShortInv'
    BY <2>4, RebindBeginsKeeps
  <2>5. ASSUME NEW ok \in BOOLEAN, RebindRefused(ok) \/ RebindSets(ok) \/ RebindSaves(ok)
        PROVE  ShortInv'
    BY <2>5, RebindRefusedKeeps, RebindSetsKeeps, RebindSavesKeeps
  <2>6. CASE RebindBinds
    BY <2>6, RebindBindsKeeps
  <2>7. CASE ResetBegins \/ ResetsTurn
    BY <2>7, ResetBeginsKeeps, ResetsTurnKeeps
  <2>8. ASSUME NEW ok \in BOOLEAN, ResetBinds(ok) \/ ResetSets(ok) \/ ResetSaves(ok)
        PROVE  ShortInv'
    BY <2>8, ResetBindsKeeps, ResetSetsKeeps, ResetSavesKeeps
  <2>9. ASSUME NEW ok \in BOOLEAN, ResetRestores(ok) \/ ResetUnsets(ok) \/ ResetUnsaves(ok)
        PROVE  ShortInv'
    BY <2>9, ResetRestoresKeeps, ResetUnsetsKeeps, ResetUnsavesKeeps
  <2>10. ASSUME NEW k \in Keys, OthersTake(k) \/ OthersGive(k) PROVE ShortInv'
    BY <2>10, OthersKeep
  <2>11. CASE StartsAgain
    BY <2>11, StartsAgainKeeps
  <2>12. CASE UNCHANGED scVars
    BY <2>12, ShortStutters
  <2> QED BY <2>1, <2>2, <2>3, <2>4, <2>5, <2>6, <2>7, <2>8, <2>9, <2>10, <2>11, <2>12
          DEF ShortcutsNext
<1> QED BY <1>1, ShortStart, ShortSound, PTL DEF ShortcutsSpec
=============================================================================
