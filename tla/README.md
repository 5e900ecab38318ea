# A TLA+ model of StudyVis sessions

StudyVis is a desktop application for studying together: up to four friends
meet in a peer-to-peer WebRTC room, see each other's tiles, share a pomodoro
timer and keep a history of the time they spent.  No server decides anything;
rooms are found by topic through Trystero, and every rule about who is in a
session, who drives the timer or when an invitation is sent again is enforced
by the participants' own code.  Beside
the session the application runs an inference engine for its focus pipeline,
updates itself, may use a managed relay, and may take camera and screen
from a browser of the same network.  This directory holds TLA+ modules that describe
that code, TLC configurations that check them on small instances, and proofs
that hold for every value of the constants.

Paths are relative to the repository.  `lifecycle.ts`, `join.ts`,
`recovery.ts`, `pomodoro.ts`, `break.ts`, `screenShare.ts`, `aiAlerts.ts` and
`SessionView.tsx` are in `src/features/session/`; `sessionStore.ts`,
`identityStore.ts`, `auditStore.ts` and `settingsStore.ts` in `src/stores/`;
`invite.ts`, `inviteRetry.ts`, `pendingInvitesStore.ts`, `presence.ts`,
`friendOnlineNotify.ts` and `InboxBoot.tsx` in `src/features/friends/`; `sidecar.ts`, `sampleLoop.ts`, `scoreMachine.ts` and
`focusStore.ts` in `src/features/ai/`; `pttEdgeReconciler.ts` and `pttStore.ts`
in `src/features/system/`; `runtime.ts`, `useSessionMirror.ts`, `browserConnection.ts`
and `MirrorSession.tsx` in `src/features/mirror/`; `mirror.rs` in `src-tauri/src/`; `sidecar.rs`, `engine.rs`, `models.rs` and
`system.rs` in `src-tauri/src/commands/`; `sessions.rs` in `src-tauri/src/db/`;
`worker.ts` in `services/turn-broker/`.

Contents: 1 inventory, 2 the models, 3 the runs, 4 the proofs, 5 where code and
comments disagree, 6 what is not modelled, 7 plan.

## 1. Inventory of the system

### Parts, their state and their operations

| Part | State | Operations | What makes it correct | Modules |
|---|---|---|---|---|
| Admission (`wireSessionRoom`, `lifecycle.ts`) | host: admitted peers, roster, held places, capable peers, flushes; guest: mesh, waiting room, verified host, roster and revision, frozen roster, timers | join and leave callbacks, roster, hello, session-full notice, acknowledgement, 350 ms / 3 s / reservation timers, Leave, Rejoin | one cap for everybody; only a verified host decides; a guest it holds is not turned away; the mesh survives the host; the mesh forms | `HostAdmission`, `GuestHandlers`, `GuestAdmission`, `SessionMesh` |
| Session store (`sessionStore.ts`, hello cache of `SessionView.tsx`) | tiles in insertion order, stubs, bindings to identities, open intervals, places kept for a rejoin | `peerJoined`, `departPeer`, `setPeerHello`, grace timers, `begin`, `setReservedReconnectPeerIds` | tiles are the mesh; stubs have a timer; shared time is counted while a friend is there | `HostStore` |
| Leave, save, recovery (`buildLeaveHandler`, `recovery.ts`, `sessions.rs`) | figures of a stint, `pendingSave`, merged or fallback row, the row and the recovery record on disk | Leave, confirmed quit, save attempts, Retry, upsert and insert-if-absent, adoption of audits at a launch, End | no stint twice, none forgotten, the record is of the session one was torn out of | `SessionSave` |
| Pomodoro (`pomodoro.ts`) | snapshot, broadcast / phase / silence timers, bound hellos | Start, Stop, tick, next phase, take over, receive, teardown | one driver; nobody watches a dead timer; a stop is final | `Pomodoro` |
| Invitations sent (`invite.ts`, `inviteRetry.ts`) | pending entries, delivered keys, sends under way | invite, heartbeat of the friend, settle, expire, end of session | no retry that is not wanted; none lost; one at a time | `InviteRetry` |
| Invitations received (`pendingInvitesStore.ts`, `InboxBoot.tsx`) | list, tombstones, write queue, record on disk | activate, read, deliver, dismiss, clear, prune, write | the owner's only; what was dismissed stays away | `PendingInvites` |
| Inference sidecar (`sidecar.rs`, `sidecar.ts`) | process, epochs, generation, gates, watchers; store, probe | start, stop, crash, respawn, probe, exit | one process, by permission; the store says what is true | `Sidecar`, `OneServer`, `SidecarClient` |
| Engine and models on disk (`engine.rs`, `models.rs`) | staging, rollback, archive; `.tmp` and target files, gates | install, recover, download, resume, verify, cancel, remove | never a torn file in place; never lost; it comes | `EngineInstall`, `ModelDownload`, `Sidecar` |
| Focus pipeline (`sampleLoop.ts`, `scoreMachine.ts`, `focusStore.ts`) | loop, screens, deadlines, stall notice; score, streak, tallies | boot, tick, capture, ask, report, stall; sample, slider | no recording outlives it; every tick ends; one deduction a bout | `SampleLoop`, `FocusScore` |
| Breaks (`break.ts`) | queue, rules, store, timer | ask, audit, decide, announce, end | few, apart, one at a time, ended by its own timer | `Breaks` |
| Push to talk (`pttEdgeReconciler.ts`, `pttStore.ts`, `system.rs`) | edges, levels, holds, failsafe, track | press, release, level, watcher, failsafe, acquire | an open microphone has a pressed key | `PushToTalk` |
| Screen share (`screenShare.ts`) | local stream, published peers, expected ids, retired ids | share, stop, announce, stream, join | a face is never a screen; nothing is added twice | `ScreenShare` |
| Updates (`updaterStore.ts`) | attempt in charge, handles, status | check, download, install, toggle | every handle is closed or staged | `Updater` |
| Managed TURN (`managedTurn.ts`, `worker.ts`) | client: status, lease, login, requests; broker: links, logins, credentials, revocations, alarm | log in, link, mint, renew, unlink, revoke | an unlinked account's credentials die and are not used | `ManagedTurn`, `TurnBroker` |
| Mirror to a browser (`mirror.rs`, `runtime.ts`, `browserConnection.ts`) | shell: server of a session, request that owns it, controller's connection; page: host, client, finishing; browser: socket, session, captures, grace, permission asked for | start, adopt, stop, lease; snapshot, report, reload; connect, pair, take over, capture | one server, the page's own; a camera is used for what it was granted for; a paired browser comes back | `Mirror` |
| Audit log (`auditStore.ts`, `aiAlerts.ts`, `SessionView.tsx`, `lifecycle.ts`) | events on the panel, writes under way, events of peers not yet admitted | sign, append, write, flush, receive, promote, leave, report | what the panel showed is in the report; a session shows its own events | `AuditTrail` |
| Presence of friends (`presence.ts`, `presenceRelay.ts`, `InboxBoot.tsx`) | entry per friend, timers, legs, baseline of notifications | beat, farewell, sweep, follow, unfollow, notify, wake | the dot is right soon, whatever overtakes what; no false arrival | `Presence` |
| Settings and shortcuts (`settingsStore.ts`, `keybindings.ts`, `system.rs`) | values shown, cache and file, bindings and grabs of the shell, two queues | rebind, reset and its rollback, toggle, session edges, launch | shown is bound; grabs follow; the file is never a mixture | `Shortcuts` |
| Identity | keys | commit, hydrate | never over a live or unsaved session | in `SessionSave`, `PendingInvites` |
| Pairing, journal, notes, chat, images, migrations | see `PROJECT.json` | - | - | none yet |
| UI, strings, stories, lab, vendored code | - | - | not state of the protocol | none |

### How they interact

`join.ts` creates the Trystero room, calls `begin` on the store, wires the
room (`wireSessionRoom`) and hands the store a `leave` built by
`buildLeaveHandler`.  Room callbacks change the admission state first and the
store in the same turn; a subscriber of the store in `SessionView` promotes a
hello that was verified before the tile existed, and calls
`authenticateAuthority` back in the lifecycle when the hello is the host's.  The
pomodoro controller takes its members from those bound hellos; the screen-share
controller announces to and publishes for the same peers.  `InboxBoot`
subscribes to the session's status and cancels retries when a session ends.
Leaving touches everything: announcement, room, audit, row, recovery record,
friends, status; the pending save then holds back `join.ts`, `identityStore.ts`
and the history until the row is known to be written.

`SessionView` also mounts the sample loop, which asks the sidecar's port and
reports to the score machine, and the push-to-talk listener, which mutes the
track.  The sidecar's commands share model gates with downloads and removals and
the engine gate with installations; its webview store polls whatever port it was
told.  Every new peer connection takes its relay from the lease of `ManagedTurn`.
The session also starts, on demand, a server in the shell that makes a paired
browser its camera and screen; it outlives a reload of the page, which adopts it,
and ends with the session.

### What is hard

Callbacks, timers and messages of several participants in any order; actions
that arrive before the join callback of their transport; transports replaced
under the same id; a host that vanishes and comes back with fresh counters;
acknowledgements that come after the session ended; backend calls that commit
and are rejected all the same; a process that dies between two steps; commands
that hold one lock while they wait for another; key edges that are lost; answers
to a request that was superseded.  `PROJECT.json` lists each hazard at the line
where it bites.

## 2. The models

### HostAdmission: the host's branch of `wireSessionRoom`

`hPeers` is `peers`, `hAdmitted` `hostAdmittedPeerIds`, `hReserved` and `hSaved`
the two `reservedReconnectPeerIds` (of the lifecycle and of the store),
`hCapable` `rosterCapablePeerIds`, `hFlush` the rejections whose notice is being
flushed.  `HostAdmit` and `HostReject` are `onPeerJoin` with `completePeerJoin`
in one turn, as the host does not queue; `HostPeerLeave` is `onPeerLeave`,
`HostAck` the capability acknowledgement, `HostReservationExpires` the timer,
`HostLeave`, `HostRejoin` and `HostGone` the host's own Leave, Rejoin and end of
the rejoin window.  Which ids a Leave keeps is left open (`Savable`): the module
is also the abstract specification that `HostStore` implements.

### HostStore: what the host's store makes of it

Composes `HostAdmission` with the tiles (`peers` in insertion order), stubs
(`reconnecting`), their grace timers, bindings of hellos, open intervals per
identity, and the hello cache.  Its `Leave` passes exactly the ids the code
passes, `Object.keys(peers)`, cut to the cap; property `HostSpec` says that
every step of it is one of `HostAdmission` or none.

### GuestHandlers and GuestAdmission: the guest's branch

`GuestHandlers` has each callback of a guest as a function from its record to
its next record (the fields are explained at its head), so that both modules
that use it run the same code.  `GuestAdmission` puts one guest into an
environment that does whatever the wire allows: transports at any time, rosters
that overtake each other, a hello or a notice that arrives before the join
callback, a host that restarts with revision 0, its own Leave and Rejoin with
the frozen roster.  Assumption `AheadOfJoin`: a transport that delivers actions
gets its join callback before its leave callback.

### SessionMesh: a whole session

`HostAdmission`, one `GuestHandlers` record per guest, and wires.  A wire comes
up and breaks as one thing, but each end hears of it on its own time.  Rosters
travel in order; the hello, the notice and the acknowledgement are in flight or
not; whatever is under way on a wire is lost with it.  Messages are handled
after the join callback here (the other order is in `GuestAdmission`).  A guest that
ends on hearing a hello breaks the wires it has cut, whoever has not heard of it yet.

### Pomodoro: the shared timer

One controller per member.  A member is its place in the order `joined_at`, then
key, that all agree on; the end of a phase is a number drawn when it begins, so
an old timer can be told from a new one.  `driving` are the members whose
broadcast and phase timers run, `silence` those whose ten seconds run, `knows`
the bound hellos.  `Silent` says when ten seconds without a word are possible:
the followed member drives no more, or has only just begun to and its first word
is still on its way.

### InviteRetry: invitations and retries

One friend, as friends share no entries.  An entry carries the number of the
send that left it, which stands for the object identity `isCurrent` compares
after each await.  Direct sends have no signal and settle after the session;
retries are aborted with it.

### SessionSave: leaving, saving, recovering

One session (topic), entered again and again by its user; each stay is a stint.
The row holds how often each stint is counted in it: the sums of minutes and
presences that `mergeSessionStints` computes are right exactly when each stint is
in them once.  A save attempt is at one step of `performSave` (`attempt`), and
every call of the backend commits or not, and is answered or rejected,
independently.  `Down` may come between any two steps and keeps what is on disk;
`Launch` adopts the audit of an unsaved stint as a row that counts none
(`synthesize_from_orphaned_audit_events`) and loads the recovery record.  The
model takes it that a confirmed quit ends the process, and its user is a guest
(hosts have no recovery record).

### Sidecar and OneServer: the engine process and its locks

Every command of `sidecar.rs` is a task (`job`): what it does while it holds
`SidecarInner` (`guard`) is one action, and anything may happen between two
awaits.  The steps of a start follow `sidecar_start`: the
gates of its models in the order of their ids, the epoch taken before the first
await and compared after each, the engine gate, the spawn.  `modelGate` and
`engineGate` are the operation gates, which a removal and a download
(`models.rs`) and an installation (`engine.rs`) take, too; a watcher per spawned
process has its generation, its streak and its total of respawns.  `stop_now`
kills after it has released the lock, so a killed process may still live: it is
some task's `victim`, and the invariants exempt exactly those.  `OneServer` is
the abstract promise, one process at a time and only by a permission that no
stop has taken back; `Sidecar` implements it under the mapping at its end
(property `OneServer`).

### SidecarClient: the store of the webview

`startSidecar`, `stopSidecar`, `refreshStatus` and the two-second probe.
`scGen` is `lifecycleGeneration`, `scOwner` the generation of `inFlightStart`;
a port stands for one process.  The shell's answers come whenever they like, and
a probe may answer for a port the store has given up.

### EngineInstall and ModelDownload: files on disk

`EngineInstall` has each rename and removal of `promote_staged_engine` and
`recover_interrupted_promotion` as a step that may fail or be the last before a
crash; a removal that fails may leave a part.  `ModelDownload` has a file as
its length and the edition it is a prefix of; the server may replace the edition
between two attempts, ignore the range or refuse it, and the stream may be cut.
What the hasher was seeded with is kept (`mdSeed`), because the digest is right
only for that.

### PushToTalk: from the key to the track

The operating system's edges (lost, repeated), the levels of the macOS watcher
(20 ms, resent while unacknowledged), `createPttEdgeReconciler`, `usePttStore`
with its 120 s failsafe and the acquisition of the track.  Bounds of time: what is under
way arrives long before 120 s, and the watcher polls between any two presses.
Repeats that the X server sends after the shortcut was bound anew in the middle
of a hold are left out.

### SampleLoop and FocusScore: the focus pipeline

`SampleLoop`: one loop per mount; `boot` walks through preflight, pickers and
the engine, `tick` through capture, question and report, each raced against its
deadline; the stall timer runs beside them.  A picker that answers after the
loop was torn down grants a stream nobody waits for (`DroppedStops`).
`fetch` is taken to honour its abort signal.  `FocusScore` is `step` of
`scoreMachine.ts` with the tallies of `focusStore.ts`; the reference definition
beside it (`BoutUpTo`, `AlertedAt`, `Lost`) reads the score off the whole
history.

### Breaks, ScreenShare, Updater, PendingInvites

`Breaks`: the queue of `requestBreak`, whose judgment and audit are awaited, the
rules of `evaluateBreak`, and the timer, across sessions; quota and cool-down
belong to `startedAt`, so a rejoin begins with fresh ones.  `ScreenShare`: one
sharer and one viewer; connections are replaced with or without a leave, streams
arrive later than the announcement that precedes them on the same connection.
`Updater`: attempts with their handles; `upActive` is the attempt in charge.
`PendingInvites`: one list, many identities, a queue of writes whose commands
the shell handles in order; tombstones are by invitation.

### TurnBroker and ManagedTurn: the relay from both ends

`TurnBroker` is the Durable Object of one user: storage survives a restart,
`brHandler` and `brCalls` do not.  A credential the provider minted but whose
answer was lost is never recorded (the broker cannot know of it).
`ManagedTurn` is the client; a request carries, instead of its captured
generations, the set of generations that are still current (`Outdate` takes them
out), which is what every comparison in the code asks and keeps the state finite.

### Mirror: a browser as camera and screen

`mrSlot` is `MirrorSlot` (the server, its session and the request that owns it),
`mrTasks` the `mirror_start` commands that wait for `starting` or for their
server, `mrConn` the `connection_id` of the controller; `pg` is the page
(`createMirrorHost` with `useSessionMirror`), `dc` one document of the browser.
The number of a request stands for the generation, the password and the token of
the server it starts.  Assumptions: commands take effect up to their first await
in the order they are invoked, and the listeners are registered at once; the
server acts at once on a close it asks for and on the first frame of a socket,
which is `ready`; the 15 s of the browser's heartbeat are longer than anything
that is in flight; media exist only after the snapshot, as the offer follows it
in the same queue; a pairing request is one step, which may have been abandoned;
camera and screen are one capture.  Another document of the same browser is an
action of the environment (`OtherDocument`): it takes the connection over and may
go.  The content of snapshots and reports, talk, controls, notifications and
certificates are left out.

### Shortcuts: the global keys, from the settings to the system

`scShown` are the values of the store, `scCache` and `scDisk` what the plugin's
store holds and what is in the file, `scBound` and `scHeld` the bindings and the
grabs of the shell.  `scOp` is the operation at the head of `shortcutQueue`;
`setAiFeaturesEnabled` (`scToggle`) stands for every other setting, because each
save writes the whole cache.  A release, a write or a save may fail, and other
programs take keys.  A command of the shell and its answer are one step: commands
run on its main thread, and nothing else changes the shown shortcuts meanwhile.

### Presence: one friend, watched

Time goes in ticks of a quarter of a minute: `Beat`, `Window`, `Sweep` and `Unsettled`
are those of the code, `Settled` is shortened from twelve ticks to five to fit the
run; what is under way arrives within `MaxDelay` or is lost.  Both legs
may work, or one; beats and farewells overtake each other; the friend's
application may end without a farewell.  Edits of the list come at any time, the
effect that follows them runs before the next tick, and a room that is being left
still delivers.  `prNotify` is what `InboxBoot` remembers of the friend.  Two things
that happen within an instant, and that nothing later makes good for, are recorded in
the ghost `stray` and excepted by what is said of notifications: a message from a room
that is being left, and a friend taken off the list and put back before the effect ran.
Identity and relay pools stay as they are.

### AuditTrail: the log against the end of its session

An event is signed (a task, which may hang), appended to the panel and written
(`adPending`); `adLeave` is how far `performLeave` has come.  A peer's hello, its
signed `joined` and its admission come in any order.  Alerts stand for every event
that nobody waits for (warnings, stalls, breaks).  Signatures are perfect; a write
that is answered has happened.

## 3. The runs

Twelve runs; states are distinct states.  Parts of the application that have no
state in common are checked side by side in one run: its variable `part` says
which of them runs, and `Alone` keeps the others still, so the state space is the
sum of theirs and not the product.  Each has its own fairness.

| Run | Instance | What it checks and shows | States |
|---|---|---|---|
| `host_store` | store: 3 transports, 2 remote places, 2 identities, 1 rejoin; companion: 2 sessions, 2 starts, 2 documents opened, 1 upset, 3 sockets at a time | `RosterSound` (the roster is the mesh and the held places, fits, and both can be reached), `StoreFollowsMesh` (shared time among it), `IncumbentsKeepPlaces`; refinement `HostSpec`; `MirrorIsSound` (the companion is the page's own, and the camera is used with consent), liveness `BrowserReturns` | 587,818 |
| `reserved_incumbents` | the store alone | expected violation of `LiveIncumbentsReserved` (section 5) | - |
| `bound_stub` | the store alone | expected violation of `OnlyAdmittedAreBound` (section 5) | - |
| `guest_admission` | admission: 1 guest, 2 others (symmetric), 2 places, 2 revisions, 2 lifecycles; log: 2 sessions, 1 alert, 1 failure; friend: 12 ticks, 2 events, a delay of 1 | every order of callbacks, messages and timers: `MeshIsTheRoster`; `HostDecides`: a host that vanished lets nobody in and turns nobody away; `AuditIsSound`; `PresenceIsSound` | 2,170,000 |
| `mesh_faults` | 2 settled guests, 1 newcomer, one broken wire or quitter, the host may leave, slow rosters | `NoStrangers`: the mesh that survives the host is closed and symmetric; `EdgesStay`: the host's word never ends a guest it holds (but for the legacy timer of a crowded newcomer whose roster is slow) nor an edge both ends were told to keep | 286,220 |
| `mesh_turned_away` | 1 settled guest, 1 newcomer, 1 place | liveness `TurnedAwayLeaves`: who is rejected leaves, gets a place, or the host is gone | 604 |
| `mesh_forms` | 2 guests, room for both, 1 return of the host, slow rosters | liveness `MeshForms` | 47,557 |
| `pomodoro_frozen` | 3 members, 1 phase, 1 departure | expected violation of `CountdownNeverFrozen` (section 5) | - |
| `session_clocks` | timer: 3 members, 2 phases, 2 departures; key: 2 presses, 1 lost event, 2 repeats, 1 upset, with and without the watcher; loop: 1 loop, 2 pickers, 2 ports | `NobodyStranded`, `StopIsFinal`, liveness `TimersSettle`; liveness `KeyIsFollowed` (with `MicHasOwner` and `FailsafeIsFinal`); liveness `LoopAnswers` | 363,000 |
| `application` | retries: 2 sessions, 3 invitations; inbox: 2 identities, 3 invitations, 1 fault; save: 3 stints, 1 change; updates: 4 checks; loop: 2 loops; score: 5 samples, 1 slider move; breaks: 2 stints, 3 requests; screens: 3 shares, 2 connections; shortcuts: 2 changes, 1 mishap, 2 edges of a session, 1 launch | `RetriesAreSound`, `InboxIsSound`, `NeverCountedTwice`, `NothingForgotten`, `RecoveryIsOwn`, `UpdatesAreSound`, `SamplingIsSound`, `ReportIsExplained`, `BreaksAreSound`, `SharingIsSound`, `ShortcutsAreSound` | 1,438,524 |
| `inference` | sidecar: 2 starts, a stop, a removal, a download, an installation, 2 processes, 2 crashes; engine: 2 crashes, 2 faults; model: 2 files, 2 editions, 2 faults; client: 2 processes, 4 calls | `ProcessesAreSound`, refinement `OneServer`, liveness `CallsReturn`; `EngineNeverLost`; `InstalledIsVerified`, liveness `ModelComes`; `ClientFollowsServer` | 466,000 |
| `relay` | broker: 2 accounts (one linked elsewhere), 2 handlers, 2 credentials, 2 logins, 1 restart; client: 3 requests out, 4 acts, 1 failure | `UnlinkCondemns`, `RevocationsAreDone`; liveness `LeaseComesBack` (with `LeaseIsHonoured`) | 175,000 |

Each property of a passing run has a mutant in `PROJECT.json`, a slip of the kind
the code could have (marked `slip` in the modules), that breaks it.  The
properties of the table are conjunctions of named parts, each explained at its
definition.

Bounds of admission.  Three transports for two remote places (`host_store`) are
the least with which two fill the room while the tile of a third waits for its
reconnection and its new transport is turned away; two of them share an identity,
so an interval has two reasons to stay open.  One rejoin suffices: a lifecycle
depends on the one before it only through `hSaved`.  The guest's run has two
others and two revisions per lifecycle, the least of which one can be stale, and
two lifecycles of host and guest.  The meshes have two settled guests and a
newcomer; there the network does not connect one pair (`AllButBC`), without which
the state space is out of reach, and the wires that exist still have the newcomer
meet a settled guest and the host.  `MaxQueue` bounds unread rosters only when a
wire comes up.

Bounds of the rest.  Timer: a driver, the one whose turn it is and one who waits
for it.  Retries: two sends can be under way while a third is pressed.  Save: a
row to merge with, the stint whose save goes wrong and one after it.  Key: a hold
and the one after it, between which one event is lost; the watcher says each
level twice (`Copies`), so one loss cannot hide it.  Sidecar: two starts of one model
that overtake each other while everything that can stop them is called once; a
process, and the one that replaces it after a crash.  Download: an attempt that
goes wrong, the one that resumes it and a third; two editions, of different
length.  Score: `ReportIsExplained` was also checked once with seven samples
(378,000 states of that part).  Breaks: the clock has six ticks, enough for two breaks, the time
between them and the next session.  Log: a session and the one that begins while a
signature of the first is still awaited.  Friend: twelve ticks are a run of the
friend that ends, the window and the sweep after it, and the beginning of the next.
Shortcuts: an operation and the setting whose save falls into it, one mishap, which
sends a reset into its rollback.  Companion: two sessions, so that a consent can
outlast its own, and two starts, the later of which overtakes the earlier or adopts
its server; a document and the one that takes over or is loaded again; one reload,
broken wire, failed peer or lease that ends in each of their states.  Relay: a credential that is condemned and the
one after it.

Fairness.  `SessionMesh`: callbacks that are owed run, data channels deliver, and
Trystero keeps connecting members of the room (weak fairness of `Connect`: its
announce interval never ends); the 3 s timer of a waiting transport has strong
fairness: that it waits while something is on its way is a bound of the model, and
the real timer runs on.  `Pomodoro`: intervals and timers fire, wires that stay up
deliver.  `PushToTalk`: events under way are heard, the watcher polls, effects
run, and where there is no watcher the failsafe fires; nobody has to let go of a
key.  `SampleLoop`: what has a deadline or a timer of its own, and the frame
grabber; the picker, the engine and the callback may stay silent for ever.
`Sidecar`: a task that can proceed does.  `EngineInstall`, `ModelDownload`: an
installation or download under way proceeds, and a launch asks for the engine
again.  `SidecarClient`: the interval ticks and a server that runs answers.
`TurnBroker`: an alarm that is set rings (Durable Objects promise it) and
revocations are answered.  `ManagedTurn`: requests are answered, timers fire, and
the application becomes visible or gets online again now and then (`Resume`).
`Mirror`: the page hears its events and renders, the server notices a socket that
has ended, and the document runs its timers and takes its frames; that any of it
stays undisturbed is not assumed, `BrowserReturns` says how far it comes.
Nothing else asks users to do anything: `TimersSettle` assumes only that they
stop pressing Stop.

Timers against messages.  In `SessionMesh` the timers of a second or more (3 s of
a waiting transport, the flush of a rejection, reservations) run out only when
what was sent has arrived: on a network slower than that, guests part by
design.  The 350 ms fallback of a guest is not held back (`SlowRosters`): it may
take a modern host for a legacy one.  What that does to the mesh is within the
properties, with one exception that `EdgesStay` names (`TakenForLegacy`): a newcomer
that has seen more transports than a legacy session has, and no roster yet, takes
itself for the one too many and leaves, though the host has admitted it.
`GuestAdmission` lets every timer fire at any time.  In `Pomodoro`, `SlowNetwork`
would let silence timers run out at any time, and `Orderly` has members press one
button at a time; the run of the liveness property sets them FALSE and TRUE, the
violation run sets `Orderly` FALSE, and the proof of `NobodyStranded` covers every
value of both.

Deadlock is not checked: sessions whose members are gone, and parts whose bounds
are used up, really stop.  That nobody waits for ever is said by the liveness
properties instead (`CallsReturn` for the gates of the sidecar).

## 4. The proofs

Eight modules hold the theorems.  A module of proofs extends the modules it is
about; `GuestHandlerProofs` is used twice, by `GuestProofs` for a guest alone and,
instantiated, by `AdmissionProofs` for the guests of the mesh.

| Module | About | Theorems | What they state for every value of the constants |
|---|---|---|---|
| `AdmissionProofs` | `HostAdmission` | `RosterAlwaysSound` | `RosterSound`: the roster is accounted for, fits, and can be delivered |
| | `HostStore` | `StoreImplementsAdmission` | refinement `HostSpec`, step by step |
| | | `StoreAlwaysFollowsMesh`, `IncumbentsAlwaysKeepPlaces` | `StoreFollowsMesh`, `IncumbentsKeepPlaces` |
| | `SessionMesh` | `NoStrangersEver`, `EdgesAlwaysStay` | `NoStrangers`, for any number of guests and whatever wires break; `EdgesStay`, whatever is slow |
| `GuestProofs` | `GuestAdmission` | `MeshAlwaysTheRoster`, `HostAlwaysDecides` | `MeshIsTheRoster`, `HostDecides` |
| `Folding` | folds over sets | `FoldMeets` | what a fold over a finite set ends in, for any operator |
| `NetworkProofs` | `InviteRetry` | `InvitesSafe` | `RetriesAreSound` |
| | `PendingInvites` | `InboxAlwaysSound` | `InboxIsSound` |
| | `Presence` | `PresenceAlwaysSound` | `PresenceIsSound`, for any intervals, delays and number of events |
| | `TurnBroker` | `UnlinkAlwaysCondemns`, `UnlinkSettlesFirst` | `UnlinkCondemns`, and the safety half of `RevocationsAreDone`: nothing is handed out while a credential of before an unlink still works, and only a login started after it links an account again |
| `SessionProofs` | `Pomodoro` | `NobodyEverStranded`, `StopIsAlwaysFinal` | `NobodyStranded`; `StopIsFinal`, where members act one at a time (`Orderly`) and the silence timer does not outrun the network |
| | `SessionSave` | `StintsCountedOnce`, `StintsNeverForgotten`, `RecoveryAlwaysOwn` | `NeverCountedTwice`, `NothingForgotten`, `RecoveryIsOwn` |
| | `Breaks` | `BreaksAlwaysSound` | `BreaksAreSound` |
| | `AuditTrail` | `AuditAlwaysSound` | `AuditIsSound` |
| | `ScreenShare` | `SharingAlwaysSound` | `SharingIsSound` |
| | `Shortcuts` | `ShortcutsAlwaysSound` | `ShortcutsAreSound` |
| `DesktopProofs` | `EngineInstall` | `EngineIsNeverLost` | `EngineNeverLost` |
| | `ModelDownload` | `InstalledIsAlwaysVerified` | `InstalledIsVerified` |
| | `Updater` | `UpdatesAlwaysSound` | `UpdatesAreSound` |
| | `Mirror` | `MirrorAlwaysSound` | `MirrorIsSound` |
| `InferenceProofs` | `Sidecar` | `ProcessesAlwaysSound` | `ProcessesAreSound` |
| | | `SidecarImplementsOneServer` | refinement `OneServer` |
| | `SampleLoop` | `SamplingAlwaysSound` | `SamplingIsSound` |
| | `FocusScore` | `ReportAlwaysExplained` | `ReportIsExplained` |

Assumptions: finitely many `Peers` and `Guests`, and a positive `MaxRemote`;
`None` distinct from sessions, entries, models and tasks; finitely many `Members`
with numbers as places for the timer; finitely many tasks of the sidecar, one kind
for each; editions of a model that are numbered from 1; no handler of the broker
called `"none"`; intervals of presence ordered as those of the code are, with messages
that take at most `MaxDelay`; the bounds are naturals.  TLC evaluates each of them in a run.
None of the theorems assumes an instance, a fair network or an order of delivery
that the models do not say.

An invariant is seldom inductive.  What each proof had to add says why the code is
right, more than the invariant does:

*Host.*  `RosterDeliverable` is not inductive: whether the next admission keeps
it depends on how the roster is made up.  `HostInv` adds that the roster is the
mesh and the held places, disjointly, that a held place's owner has no transport,
and that no more than the cap is saved at a Leave.  An admission onto a held place
leaves the roster as it is; one onto a free place happens only when no place is
held, so the mesh is the roster and has room.

*Store.*  Every step of `HostStore` is one of `HostAdmission` or leaves it alone;
the refinement is the identity on the variables they share.  `StoreInv` adds what
stands behind a tile: one that is bound keeps the interval of its identity open,
until its peer departs or its stub's timer fires, and a stub is a held place.

*Guest.*  The handlers go through sets of transports with `FoldSet`.  The
induction theorems of the library take a predicate as a parameter, which the
provers cannot instantiate; `Folding` turns the induction into a first-order one:
the sizes for which a claim fails are a set of naturals, and its least member
(`LeastNatural`, from the well-foundedness of `<`) cannot exist.  `FoldMeets` says
what a fold ends in when its every step keeps `J`, one step reaches `K` and the later
ones keep `K`; the proofs about rosters take `K` to be "the host is in the mesh".
`Sound` says of a live guest that every transport it knows is in the mesh, waits or
is being closed; that the mesh is within the roster and the cap; that while the host
is gone only those of the frozen roster may come back; and that a revision is held
only while the verified host is there.  `GuestInv` adds that what is under way is of
the host's present lifecycle, so that a guest is never ahead of its host.

*Mesh.*  `MeshInv` joins `HostInv`, `Sound` of each guest, and the wires: a wire
has two ends that are both in the room, a transport that either end is closing has
none, messages travel on wires only, and every roster under way fits.  The proof
found an error in the model: a guest that had cut a transport whose other end had not
heard of it yet kept the wire (`GuestSeesHello`), which no bounded run had noticed.

That what is formed stays is about what is under way.  `WordInv` says that the host's
word is true: while a guest's wire to the host is up, every roster it has not applied,
on the wire or kept until the host is verified, lists it if it is in the host's mesh,
and none lists it if it was turned away; a guest of the mesh has had a roster or one is
coming, is not told that the session is full, and is verified or a hello is coming; and
nothing is kept of an earlier transport.  Each action of a guest then only has to keep
itself and what is listed (`GoesOn`, `KeepsListed`), which follows from what its handler
does with a roster that lists it (`Heeded`).  The attempt failed on `EdgesStay` as it
was first stated, without `TakenForLegacy`: of two newcomers that a session with one
free place lets knock, the one that is admitted has seen too many transports, and the
350 ms timer ends it before its slow roster comes.  The run had not shown it, for its
newcomer cannot reach more guests than the cap.

*Invitations.*  `InviteInv` adds `WaitingIsYoung`: an invitation that still
waits has a young entry and was not delivered.  The lemmas say what aborting
does to the set of active retries and what a heartbeat adds to it; each settling
send then changes the retries of one session only.

*Inbox.*  `InboxInv` says of each record, on disk or in the queue of writes, that its
entries are of its owner and that what was dismissed since is covered by a tombstone
in it, unless a clear has not been saved yet; and that the last job in the queue
writes what is shown.

*Broker.*  `UnlinkCondemns` speaks of the credentials the client was given, an
unlink knows those in its tables.  `BrokerInv` adds that a credential given and
alive is in one of the two (`GivenAreRecorded`), and that the issuance which may
still be handed out is the latest one and was asked for after the unlink
(`TokenIsLatest`).

*Timer.*  `PomodoroInv` adds that members outside the room show nothing and that
wires carry words only between members in it.  Each step then changes the timers
of one member, and of a member that takes over, `NextDriver` shows that it is
not the one it waited for.

That a stop is final is about what is under way.  `FinalInv` adds that one member
speaks at a time: it drives, or has words of its own on the wires (`OneSpeaks`);
that the stop is the last word of one who drives no more (`LastWordIsStop`); and
that who follows a member of the room will hear of it again, and who follows one
that left will hear of the one that took over and stands behind it in the order of
succession (`FollowersWillHear`).  The next in the order is the least of a set of
natural numbers (`LeastNatural`).  As in the run, it is assumed that members act one
at a time (`Orderly`) and that the silence timer does not outrun the network: with
either dropped the property is false.

*Row.*  That no stint is counted twice is not inductive: whether the next write
keeps it depends on what is frozen and on whether an earlier attempt committed.
`RowInv` adds that stints to come are not in the row (`FutureUncounted`); that
before a row is frozen the pending stint is not in the row unless its fallback is
the whole row, and afterwards the frozen row is the row with it (`PendingRow`);
and what each step of an attempt relies on (`AttemptStep`).  Writing the frozen
row is therefore idempotent, and an insert that went unnoticed is recognised.

*Recovery.*  `RecoveryInv` says of the queue of operations on the record that the
last one queued is what should be last on disk (`QueueLast`); that a record is
retained only in a quit; and that a quit that ends a live session has begun to
leave it.  The lemma `QueueEnds` says what an operation appended, and one that is
over, do to the last one.

*Breaks.*  The rules judge by the store, the property by the history.  `BreaksInv`
says that the store remembers: its count is the number of breaks of the stint, it is
on a break exactly while the last of them lasts, and otherwise it knows when that one
ended; and that a request waiting for its audit was made before.

*Log.*  `AuditInv` follows an event from its signature to the report: what the panel
shows has been written, is being written, or failed to be; a task that may still do
something is of the present session, a farewell only while leaving waits for it; and
what a peer said before it was admitted waits for its promotion.

*Screens.*  `ScreenInv`: a stream that may arrive as a screen was announced before, or
its announcement is ahead of it on the same connection; the last thing the viewer was
told, or will be, is what is published; and its tile follows what it was told.

*Shortcuts.*  `ShortInv` says at each step of a rebind and of a reset what is shown,
bound, cached and in the file; that one operation at a time writes shortcuts, while
saves of other settings write the whole cache with them; and that a key is grabbed exactly
while some action that is on has it, also when an old file lets two share it.

*Presence.*  What is right about the list follows from the beats leaving no gap: of every
stretch of time as long as `Beat`, since the watch began and the friend came, a beat is
under way or was heard, unless one was lost (`BeatInv`).  With the clocks (`ClockInv`) this
dates the entry of a friend that is up; `NoTale` concludes that a watch which has not
heard of a friend that is there is younger than `Settled`, which is why the assumption
relates `Settled` and `Window` to `Beat` and `MaxDelay`.  The attempt to prove `BeatsWake`
as it was stated before, of every sweep, failed on a state that the two events of the run
hide and four reach: a friend taken off the list and put back within an instant is passed
over by a beat, and a second time by the sweep that should have made good for it.  `stray`
now says so, and with it `BeatsWake` holds at once and not only after a sweep.

*Engine.*  `EngineInv` says what the rollback directory may hold: nothing while
a new engine is prepared; the old engine while the new one is renamed into place,
if there was one; a torn directory only beside a whole engine.

*Model.*  What a finished download hashed is the file only if what the hasher
was seeded with is the `.tmp` the stream appends to, which every branch of the
resumption has to re-establish.

*Updates.*  `UpdaterInv`: a handle belongs to one check, which has it from the time it
found one and before it is staged; and the status is the one that the await of the
check in charge implies.

*Companion.*  That a camera shows only to whom it was granted depends on what is still
under way.  `MirrorInv` says on the one side that a request has one task or one answer,
that the slot is left alone while the page waits for the answer of its host, and that a
task which owns the slot finds no server in it (`ShellInv`); on the other, that the page
hears of a socket once and has sent nothing on it before, so that whatever comes to a
document through the page's client is of the companion the page shows (`SocketIsFresh`,
`SocketIsOwn`), and that a permission is asked for, given and used for the session the
document shows (`DocIsSafe`).

*Sidecar.*  `SidecarInv` says for each point a command can be at which gates it has,
which process it is about to kill, and what it knows of the guard.  A command that may
write has the gate of its model; what serves got its gates from a start that had
them; a respawn only serves again what the guard still names; the engine gate keeps a
swap apart from every spawn.  For the refinement, `Permits` of `OneServer` are the
starts whose epoch still stands, its server is the child of the guard, and a child
that somebody has taken to kill it is no server any more.  `SidecarInv` makes the mapping
step by step (`SidecarMaps`).

*Loop.*  `SampleInv` says of every attempt, from the moment the picker is opened, who
waits for it or will stop it: the stash, a boot, a drop, or a running loop; a loop
that was started and runs is the view's, so a teardown reaches it.  That a chain of
ticks is alive and the notice is true then follow loop by loop.

*Score.*  `FocusInv` says what the machine remembers of the history of samples: its
streak is the number of samples of the bout under way, and its flags say whether a
sample of that bout has crossed a threshold.  A sample that comes in changes no bout
before it (`ToldGrows`), so what was marked stays marked (`MarksGrow`), and the new one
crosses a threshold exactly when the step of the machine warns or alerts; what an
alert costs is then that of its severity (`LostGrows`).  A warning threshold is below
the alert threshold whatever the sliders say (`ThresholdsAre`), hence `WarnedFirst`.

Only model-checked: everything about liveness (fairness and `ENABLED` are outside the
provers' reach): `MeshForms`, `TurnedAwayLeaves`, `TimersSettle`, `KeyIsFollowed`,
`LoopAnswers`, `CallsReturn`, `ModelComes`, `ClientFollowsServer`, `LeaseComesBack`,
`BrowserReturns`, and the liveness half of `RevocationsAreDone`.  Every safety
invariant of the passing runs is stated by a theorem.

## 5. Where code and comments disagree

* `reserved_incumbents`: the comment in `performLeave` (`lifecycle.ts:563-566`)
  says the live incumbents' slots are kept.  The ids passed also contain stubs,
  oldest first, and the store keeps the first three: a stub may take the place of
  a live incumbent, who is then turned away when the host returns.
* `bound_stub`: `SessionView.tsx:1354-1356` says an unadmitted transport is never
  promoted.  Promotion asks for a tile of that id only, and a stub is one: its
  hello is bound, and its interval opens, although its new transport is being
  rejected because the room has filled up.
* `pomodoro_frozen`: `ARCHITECTURE.md:1256` says that the next-oldest peer takes
  over rather than anyone staring at a frozen countdown.  A member that pressed
  Stop in its own view has no silence timer, but the others wait for its turn
  again and again.

Seen while modelling, and shown by no run: two starts (or a start and a takeover)
that cross on the wire make each side yield to the other, and the same may
happen again ten seconds later; a newcomer that its host has admitted ends as one too
many when other newcomers knock as well and the host's roster takes more than 350 ms
(`lifecycle.ts:1743`, whose comment speaks of legacy sessions); a direct send
acknowledged after the session ended marks the invitation delivered for the next
lifecycle of the same session
(`invite.ts:433`), which suppresses only retries of what was acknowledged; an
update can be installed, or the application quit, while a save is pending
(`updaterStore.ts:312` asks for an active session only), and that stint is lost
with the process; Retry writes a session again that was deleted from the history
while its save was pending; `retainedForQuit` stays set when `app_quit` fails; `refreshStatus`
changes the port of the sidecar's store and leaves `healthy` as it was until the
next probe (`sidecar.ts`); after a stop that failed, a later start is given the
old child and records the new model; a break's quota and cool-down begin anew
with a rejoin, as they are keyed on `startedAt`; an invitation that was validated
before its sender was removed may join the list after the reconciliation; a
desktop that was loaded again and has adopted its companion may send the browser
an empty snapshot before its first render (`runtime.ts:185`), which the browser
takes for an incompatible host and gives up its captures (`browserConnection.ts:231`),
though the resumption was to keep them; and a browser that has taken the report of
a companion ignores its snapshots for good (`browserConnection.ts:232`), so that,
if the desktop is loaded again during Leave and resumes, it stays "connecting"
(`BrowserReturns` excepts it: `dc.done # pg.gen`).

Shortcuts: a microphone toggle that collides at a launch is moved in the store and
in the shell but not in the file; when two actions of an old file share a key,
rebinding one leaves the key grabbed under no owner (`SharedKey`), and a reset is
then refused if that key is a default; and the rollback of a reset to such a pair is
refused by the shell, so that what is shown is not what is bound (`split`).

Presence: a beat sent out of turn that arrives after the farewell announces a friend
as coming online while they quit; the receiver of the direct leg does not ask whether
the friend is still followed, so a room that is being left can create the entry
of a removed friend anew (`stray`); and a friend taken off the list and put back before
the effect ran is passed over by what was heard in between.

Log: `aiAlerts.ts:235-239` passes no signal to `emitAudit`, so an alert whose
signature outlives its session is appended to the panel of the next one, which the
comment at `SessionView.tsx:1407-1408` rules out; and `finishMirrorReport`, which
comes after the last flush (`lifecycle.ts:866-877`), is awaited while the sample loop
still runs, so an alert of that moment may be missing from the report.

## 6. What is not modelled, and why

Capture, codecs, rendering, wording, formatting, logging and statistics have no
protocol state.  Signing, sealing and topic derivation are taken as perfect.
The figures of a stint (minutes, focus, presences) are abstracted to whether the
stint is counted.  The roster probe's bounded repetitions are one announcement:
they say the same again.  The waiting room overflows only with more transports
at a newcomer than an instance has.  The Trystero runtime and relays are the
environment.

Of the parts that have a module: the broker's rate limits, `LIMIT` of twenty
credentials and the rotation of `TURN_KEY_ID`; the browser companion of push to talk; the
back-off, prompts and parsing of the sample loop, its engine supervision through
`refreshSidecarStatus`, the takeover by a mirror; the
controls and talk of the companion and what its certificates and pairing limits do; the
probing of hardware and the log readers of the sidecar; the limit of sixteen
pending invitations; pairing; the deletion of history rows; the schedule of
automatic update checks; changes of identity and of relay pools in presence; a
second release that fails within one command, and the push of the AI flag at a
launch, in the shortcuts; the journal and the images of the log.

The user interface, strings, statistics, most settings and most of the native shell
are the larger part of the code: preferences and rendering, whose state is copied to
the disk and to the screen.  The share of lines the map covers is small for that reason.
`PROJECT.json` gives the reason for each part.

## 7. Plan

What would come next, the most important first.

1. Composition of `Mirror` with `SampleLoop` and `ScreenShare`: the captures of
   the browser take the place of the desktop's own.
2. Composition of `SidecarClient` with `Sidecar` in place of its own small shell,
   and of `ManagedTurn` with `TurnBroker`.
3. Proofs: the safety half of the client of the relay and of push to talk.
