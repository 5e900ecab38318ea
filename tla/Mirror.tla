------------------------------- MODULE Mirror -------------------------------
(***************************************************************************)
(* A browser of the same network as camera and screen of a session: the     *)
(* server in the shell (src-tauri/src/mirror.rs, commands/mirror.rs), the   *)
(* page that starts it and talks to the browser through it (runtime.ts,     *)
(* useSessionMirror.ts), and a document of the browser                      *)
(* (browserConnection.ts, MirrorSession.tsx of src/features/mirror).        *)
(*                                                                          *)
(* A server has the number of the request that started it, which stands for *)
(* its generation, its password and its token; the cookie of the browser is *)
(* the number of the server it is paired with.  Sockets have numbers that   *)
(* are used again when nobody knows them any more.  Commands of the page    *)
(* begin in the order they are invoked, so what they do before their first  *)
(* await is part of the step that invokes them.  Camera and screen are one  *)
(* capture, which carries the generation it was granted for.                *)
(***************************************************************************)
EXTENDS Naturals, Sequences, FiniteSets

CONSTANTS
  MaxSessions,  \* bound: sessions of the desktop
  MaxRequests,  \* bound: starts of the companion
  MaxOpens,     \* bound: documents opened, or loaded again
  MaxUpsets,    \* bound: reloads of the page, broken wires, failed peers, ended leases
  MaxSockets    \* bound: sockets somebody knows

ASSUME MirrorAssumption ==
  /\ {MaxSessions, MaxRequests, MaxOpens, MaxUpsets} \subseteq Nat
  /\ MaxSockets \in Nat \ {0}

VARIABLES
  mrFlag,       \* SessionActiveFlag of the shell
  mrSlot,       \* MirrorSlot: [server, session, owner], 0 for none
  mrTasks,      \* starts that wait for `starting` or for their server
  mrLive,       \* servers that are active
  mrConn,       \* connection_id of the controller: a socket, or 0
  mrEvents,     \* events on their way from the shell to the page
  mrAnswers,    \* answers of mirror_start on their way: [req, server]
  pg,           \* the page, see PageAtRest
  dc,           \* the document, see DocAtRest
  mrIn,         \* frames on their way to it
  mrCookie,     \* the server the browser is paired with, or 0
  mrSession, mrRequests, mrOpens, mrUpsets

shellVars == <<mrFlag, mrSlot, mrTasks, mrLive>>
wireVars == <<mrConn, mrEvents, mrIn>>
browserVars == <<dc, mrCookie>>
mirrorCounts == <<mrSession, mrRequests, mrOpens>>
mirrorBounds == <<mirrorCounts, mrUpsets>>
mirrorVars == <<shellVars, wireVars, mrAnswers, pg, browserVars, mirrorBounds>>

NoServer == [server |-> 0, session |-> 0, owner |-> 0]

(* session, host (the request of hostRef), active and generation of the     *)
(* host, its client, whether the session has been rendered for it,          *)
(* finishing, and whether a companion is there to be resumed.  A snapshot   *)
(* left from an earlier companion of the page has no reader.                *)
PageAtRest ==
  [session |-> 0, host |-> 0, active |-> FALSE, gen |-> 0, client |-> 0,
   shown |-> FALSE, finishing |-> FALSE, resume |-> FALSE]

(* socket (0 while it opens), status ("moved": stopped by code 4001), the    *)
(* session shown, the session whose report is shown, the generation a       *)
(* capture was granted for, the timer of the grace, the session a           *)
(* permission is being asked for.                                           *)
DocAtRest ==
  [sock |-> 0, status |-> "absent", cur |-> 0, done |-> 0, held |-> 0,
   timer |-> FALSE, ask |-> 0]

MirrorInit ==
  /\ mrFlag = FALSE /\ mrSlot = NoServer /\ mrTasks = {} /\ mrLive = {}
  /\ mrConn = 0 /\ mrEvents = <<>> /\ mrIn = <<>>
  /\ mrAnswers = {} /\ pg = PageAtRest
  /\ dc = DocAtRest /\ mrCookie = 0
  /\ mrSession = 0 /\ mrRequests = 0 /\ mrOpens = 0 /\ mrUpsets = 0

Upset == mrUpsets < MaxUpsets /\ mrUpsets' = mrUpsets + 1

----------------------------------------------------------------------------
(* The server.                                                              *)

Frame(kind, n) == [kind |-> kind, n |-> n]

(* What is sent on a socket, which may not be the document's.               *)
Delivered(sock, frame) ==
  IF sock # 0 /\ dc.sock = sock THEN Append(mrIn, frame) ELSE mrIn

Downs == IF mrConn = 0 THEN <<>> ELSE <<[kind |-> "down", conn |-> mrConn]>>

(* The controller's connection is closed with a code.                       *)
Closes(code) ==
  /\ mrIn' = Delivered(mrConn, Frame("close", code))
  /\ mrEvents' = mrEvents \o Downs
  /\ mrConn' = 0

(* Shared::stop of the server in the slot, if it is active.                 *)
Stops ==
  IF mrSlot.server \in mrLive THEN mrLive' = mrLive \ {mrSlot.server} /\ Closes(1001)
                              ELSE UNCHANGED <<mrLive, wireVars>>

Adoptable(session) == mrSlot.session = session /\ mrSlot.server \in mrLive

(* mirror_start up to its first await.  A start that finds the server of     *)
(* its session takes it over, and the browser is asked to come again.       *)
StartCalled(req, session, resume) ==
  \/ /\ ~mrFlag \/ (resume /\ ~Adoptable(session))
     /\ mrAnswers' = mrAnswers \union {[req |-> req, server |-> 0]}
     /\ UNCHANGED <<shellVars, wireVars>>
  \/ /\ mrFlag /\ Adoptable(session)
     /\ mrSlot' = [mrSlot EXCEPT !.owner = req]
     /\ Closes(4002)
     /\ mrAnswers' = mrAnswers \union {[req |-> req, server |-> mrSlot.server]}
     /\ UNCHANGED <<mrFlag, mrTasks, mrLive>>
  \/ /\ mrFlag /\ ~resume /\ ~Adoptable(session)
     /\ mrSlot' = [NoServer EXCEPT !.owner = req]
     /\ Stops
     /\ mrTasks' = mrTasks \union {[req |-> req, session |-> session, at |-> "lock"]}
     /\ UNCHANGED <<mrFlag, mrAnswers>>

Owned(req) == mrSlot.owner = req

(* mirror_stop.                                                             *)
StopCalled(req) ==
  IF Owned(req) THEN mrSlot' = NoServer /\ Stops /\ UNCHANGED <<mrFlag, mrTasks>>
                ELSE UNCHANGED <<shellVars, wireVars>>

(* session_set_active(false): MirrorState::stop.                            *)
Deactivate == mrFlag' = FALSE /\ mrSlot' = NoServer /\ Stops /\ UNCHANGED mrTasks

(* The lock is free: the start goes on, or was cancelled meanwhile.         *)
TaskGoesOn(t) ==
  /\ t.at = "lock" /\ \A u \in mrTasks : u.at = "lock"
  /\ IF Owned(t.req) /\ mrFlag
       THEN /\ mrTasks' = (mrTasks \ {t}) \union {[t EXCEPT !.at = "start"]}
            /\ UNCHANGED mrAnswers
       ELSE /\ mrTasks' = mrTasks \ {t}
            /\ mrAnswers' = mrAnswers \union {[req |-> t.req, server |-> 0]}
  /\ UNCHANGED <<mrFlag, mrSlot, mrLive, wireVars, pg, browserVars, mirrorBounds>>

(* The server has started: it is kept if nothing has changed.               *)
Installs(t) ==
  /\ t.at = "start"
  /\ mrTasks' = mrTasks \ {t}
  /\ IF Owned(t.req) /\ mrFlag
       THEN /\ mrSlot' = [mrSlot EXCEPT !.server = t.req, !.session = t.session]
            /\ mrLive' = mrLive \union {t.req}
            /\ mrAnswers' = mrAnswers \union {[req |-> t.req, server |-> t.req]}
       ELSE /\ mrAnswers' = mrAnswers \union {[req |-> t.req, server |-> 0]}
            /\ UNCHANGED <<mrSlot, mrLive>>
  /\ UNCHANGED <<mrFlag, wireVars, pg, browserVars, mirrorBounds>>

(* The lease of twelve hours is over.                                       *)
LeaseEnds ==
  /\ Upset /\ mrSlot.server \in mrLive
  /\ Stops
  /\ UNCHANGED <<mrFlag, mrSlot, mrTasks, mrAnswers, pg, browserVars, mirrorCounts>>

(* The server notices that nobody is at the other end.                      *)
ConnectionEnds ==
  /\ mrConn # 0 /\ dc.sock # mrConn
  /\ Closes(1006)
  /\ UNCHANGED <<shellVars, mrAnswers, pg, browserVars, mirrorBounds>>

----------------------------------------------------------------------------
(* The page.                                                                *)

Shown == IF pg.shown THEN pg.gen ELSE 0

(* mirror_send: for the connection of the controller only.                  *)
Sent(client, frame, then) ==
  IF client # 0 /\ mrConn = client
    THEN pg' = then /\ mrIn' = Delivered(mrConn, frame)
    ELSE pg' = [then EXCEPT !.client = 0] /\ UNCHANGED mrIn

Hostless(p) ==
  [PageAtRest EXCEPT !.session = p.session, !.resume = p.resume, !.finishing = p.finishing]

Enter(session) ==
  /\ pg.session = 0
  /\ session \in {mrSession, mrSession + 1}
  /\ mrSession' = session
  /\ mrFlag' = TRUE
  /\ pg' = [pg EXCEPT !.session = session, !.resume = Adoptable(session)]
  /\ UNCHANGED <<mrSlot, mrTasks, mrLive, wireVars, mrAnswers, browserVars, mrRequests,
                 mrOpens, mrUpsets>>

(* start(): by the user, or because mirror_resumable said yes.              *)
Start(resume) ==
  /\ pg.session # 0 /\ pg.host = 0 /\ ~pg.finishing
  /\ resume => pg.resume
  /\ mrRequests < MaxRequests /\ mrRequests' = mrRequests + 1
  /\ pg' = [Hostless(pg) EXCEPT !.host = mrRequests + 1, !.resume = pg.resume /\ ~resume]
  /\ StartCalled(mrRequests + 1, pg.session, resume)
  /\ UNCHANGED <<browserVars, mrSession, mrOpens, mrUpsets>>

StartAnswered(a) ==
  /\ mrAnswers' = mrAnswers \ {a}
  /\ \/ /\ a.req = pg.host /\ a.server # 0
        /\ pg' = [pg EXCEPT !.active = TRUE, !.gen = a.server]
        /\ UNCHANGED <<shellVars, wireVars>>
     \/ /\ a.req # pg.host \/ a.server = 0              \* run !== generation, or failed
        /\ pg' = IF a.req = pg.host THEN Hostless(pg) ELSE pg
        /\ StopCalled(a.req)
  /\ UNCHANGED <<browserVars, mirrorBounds>>

StopCompanion ==
  /\ pg.host # 0 /\ ~pg.finishing
  /\ pg' = Hostless(pg)
  /\ StopCalled(pg.host)
  /\ UNCHANGED <<mrAnswers, browserVars, mirrorBounds>>

(* The session shows itself, and the password, once its host is active.     *)
Renders ==
  /\ pg.active /\ ~pg.finishing /\ ~pg.shown
  /\ Sent(pg.client, Frame("snapshot", pg.gen), [pg EXCEPT !.shown = TRUE])
  /\ UNCHANGED <<shellVars, mrConn, mrEvents, mrAnswers, browserVars, mirrorBounds>>

(* The media connection fails for good: the browser is told to reconnect.   *)
HostPeerFails ==
  /\ Upset /\ pg.client # 0
  /\ Sent(pg.client, Frame("reconnect", 0), [pg EXCEPT !.client = 0])
  /\ UNCHANGED <<shellVars, mrConn, mrEvents, mrAnswers, browserVars, mirrorCounts>>

(* The listener of mirror:client.  A browser is sent the snapshot, and the   *)
(* offer after it; while the page finishes it is sent no snapshot.          *)
PageHears ==
  /\ mrEvents # <<>> /\ mrEvents' = Tail(mrEvents)
  /\ LET e == Head(mrEvents) IN
     \/ /\ pg.active /\ e.kind = "up"
        /\ IF pg.finishing
             THEN pg' = [pg EXCEPT !.client = e.conn] /\ UNCHANGED mrIn
             ELSE Sent(e.conn, Frame("snapshot", Shown), [pg EXCEPT !.client = e.conn])
     \/ /\ pg.active /\ e.kind = "down"
        /\ pg' = [pg EXCEPT !.client = IF @ = e.conn THEN 0 ELSE @] /\ UNCHANGED mrIn
     \/ ~pg.active /\ UNCHANGED <<pg, mrIn>>
  /\ UNCHANGED <<shellVars, mrConn, mrAnswers, browserVars, mirrorBounds>>

(* Leave: the report is handed to the browser, which has three seconds to   *)
(* take it; then the session ends, and with it the companion.               *)
LeaveBegins ==
  /\ pg.session # 0 /\ ~pg.finishing
  /\ Sent(pg.client, Frame("report", pg.gen), [pg EXCEPT !.finishing = TRUE])
  /\ UNCHANGED <<shellVars, mrConn, mrEvents, mrAnswers, browserVars, mirrorBounds>>

LeaveEnds ==
  /\ pg.finishing
  /\ pg' = PageAtRest
  /\ Deactivate
  /\ UNCHANGED <<mrAnswers, browserVars, mirrorBounds>>

(* The page is loaded again: what was on its way to it is lost, the shell    *)
(* and the commands it runs are not.                                        *)
Reload ==
  /\ Upset
  /\ pg' = PageAtRest /\ mrEvents' = <<>> /\ mrAnswers' = {}
  /\ UNCHANGED <<shellVars, mrConn, mrIn, browserVars, mirrorCounts>>

(* The interrupted session is not resumed.                                  *)
ReleaseStale ==
  /\ pg.session = 0 /\ mrFlag
  /\ Deactivate
  /\ UNCHANGED <<mrAnswers, pg, browserVars, mirrorBounds>>

----------------------------------------------------------------------------
(* The document.                                                            *)

Stopped(x) == x.status \in {"absent", "pairing", "moved"}
Released(x) == [x EXCEPT !.held = 0, !.timer = FALSE]
Suspended(x) == [x EXCEPT !.timer = x.held # 0]

Connecting(x) == [x EXCEPT !.sock = 0, !.status = "connecting"]

(* onclose with its code: 4001 is final, what else closes is retried.       *)
Dropped(x, code, release) ==
  LET y == IF code = 4001 \/ release THEN Released(x) ELSE Suspended(x) IN
  [y EXCEPT !.sock = 0, !.status = IF code = 4001 THEN "moved" ELSE "disconnected"]

Live(x) == x.status = "connected" /\ x.done = 0

(* A permission asked for is void once the page shows something else.       *)
Unscoped(x, y) == y                                     \* slip
Scoped(x, y) ==
  IF Live(y) /\ x.status = y.status /\ x.cur = y.cur THEN y ELSE [y EXCEPT !.ask = 0]

Becomes(y) == dc' = Scoped(dc, y)

(* The document is opened, or loaded again with what it stored.             *)
OpensDoc ==
  /\ dc.sock = 0
  /\ mrOpens < MaxOpens /\ mrOpens' = mrOpens + 1
  /\ Becomes(Connecting([DocAtRest EXCEPT !.cur = dc.cur, !.done = dc.done]))
  /\ UNCHANGED <<shellVars, wireVars, mrAnswers, pg, mrCookie, mrSession, mrRequests,
                 mrUpsets>>

(* onclose has armed the retry.                                             *)
RetryFires ==
  /\ dc.status = "disconnected"
  /\ Becomes(Connecting(dc))
  /\ UNCHANGED <<shellVars, wireVars, mrAnswers, pg, mrCookie, mirrorBounds>>

FreeSockets ==
  (1..MaxSockets) \
    ({mrConn, pg.client, dc.sock} \union {mrEvents[i].conn : i \in DOMAIN mrEvents})

(* A new socket sends `ready` at once, with which the server makes it the   *)
(* connection of the controller; the one before it is told that the session *)
(* has moved.                                                               *)
NewSocket == CHOOSE s \in FreeSockets : TRUE

TakesOver ==
  /\ mrCookie \in mrLive /\ FreeSockets # {}
  /\ mrConn' = NewSocket
  /\ mrEvents' = mrEvents \o Downs \o <<[kind |-> "up", conn |-> NewSocket]>>
  /\ mrIn' = Delivered(mrConn, Frame("close", 4001))

SocketOpens ==
  /\ dc.status = "connecting" /\ dc.sock = 0
  /\ TakesOver
  /\ dc' = [dc EXCEPT !.sock = NewSocket]
  /\ UNCHANGED <<shellVars, mrAnswers, pg, mrCookie, mirrorBounds>>

(* Another document of the same browser is opened, and may go again.        *)
OtherDocument ==
  /\ mrOpens < MaxOpens /\ mrOpens' = mrOpens + 1
  /\ TakesOver
  /\ UNCHANGED <<shellVars, mrAnswers, pg, browserVars, mrSession, mrRequests, mrUpsets>>

SocketRefused ==
  /\ dc.status = "connecting" /\ dc.sock = 0 /\ mrCookie \notin mrLive
  /\ Becomes(Dropped(dc, 1006, FALSE))
  /\ UNCHANGED <<shellVars, wireVars, mrAnswers, pg, mrCookie, mirrorBounds>>

(* Nothing was heard for 15 s: the page answers no ping of this socket.      *)
NoHeartbeat == FALSE /\ UNCHANGED mirrorVars            \* slip: waits for a close

HeartbeatEnds ==
  /\ dc.sock \notin {0, pg.client} /\ mrIn = <<>>
  /\ \A i \in DOMAIN mrEvents : mrEvents[i].conn # dc.sock
  /\ Becomes(Dropped(dc, 1006, FALSE))
  /\ UNCHANGED <<shellVars, wireVars, mrAnswers, pg, mrCookie, mirrorBounds>>

(* The wire breaks, or the media fail.                                      *)
LosesSocket ==
  /\ Upset /\ dc.sock # 0
  /\ Becomes(Dropped(dc, 1006, FALSE)) /\ mrIn' = <<>>
  /\ UNCHANGED <<shellVars, mrConn, mrEvents, mrAnswers, pg, mrCookie, mirrorCounts>>

(* A snapshot of another session ends the consent, one of the same session   *)
(* ends the grace.                                                          *)
Followed(x, gen) ==
  LET y == IF gen = x.cur THEN [x EXCEPT !.timer = FALSE] ELSE Released(x) IN
  [y EXCEPT !.cur = gen, !.done = 0, !.status = "connected"]

Taken(x, f) ==
  CASE f.kind = "snapshot" /\ f.n = 0 -> Dropped(x, 1000, TRUE)      \* incompatible
    [] f.kind = "snapshot" /\ f.n = x.done /\ f.n # 0 -> x
    [] f.kind = "snapshot" /\ f.n \notin {0, x.done} -> Followed(x, f.n)
    [] f.kind = "report" ->
         [Released(x) EXCEPT !.cur = 0, !.done = f.n, !.status = "connected"]
    [] f.kind \in {"reconnect", "close"} -> Dropped(x, f.n, FALSE)

TakesFrame ==
  /\ mrIn # <<>>
  /\ LET y == Taken(dc, Head(mrIn)) IN
     /\ Becomes(y)
     /\ mrIn' = IF y.sock = 0 THEN <<>> ELSE Tail(mrIn)
  /\ UNCHANGED <<shellVars, mrConn, mrEvents, mrAnswers, pg, mrCookie, mirrorBounds>>

Asks ==
  /\ Live(dc) /\ dc.ask = 0 /\ dc.held = 0
  /\ dc' = [dc EXCEPT !.ask = dc.cur]
  /\ UNCHANGED <<shellVars, wireVars, mrAnswers, pg, mrCookie, mirrorBounds>>

(* The permission is given; a void one stops its stream.                    *)
Granted ==
  /\ dc.ask # 0
  /\ dc' = [dc EXCEPT !.held = dc.ask, !.ask = 0]
  /\ UNCHANGED <<shellVars, wireVars, mrAnswers, pg, mrCookie, mirrorBounds>>

(* The user ends it, or thirty seconds without a host do.                   *)
StopsCapture ==
  /\ (dc.held # 0 /\ Live(dc)) \/ dc.timer
  /\ dc' = Released(dc)
  /\ UNCHANGED <<shellVars, wireVars, mrAnswers, pg, mrCookie, mirrorBounds>>

(* pair(): with a cookie that still serves any password will do; otherwise  *)
(* the user reads it off the desktop, which shows it with the render that   *)
(* publishes its first snapshot.  An attempt that was abandoned has paired  *)
(* all the same, but connects nothing.                                      *)
Pairs ==
  /\ dc.sock = 0 /\ dc.status # "absent"
  /\ \/ mrCookie \in mrLive /\ UNCHANGED mrCookie
     \/ mrCookie \notin mrLive /\ pg.shown /\ pg.gen \in mrLive /\ mrCookie' = pg.gen
  /\ Becomes(Connecting(Released(dc))) \/ UNCHANGED dc
  /\ UNCHANGED <<shellVars, wireVars, mrAnswers, pg, mirrorBounds>>

Disconnects ==
  /\ ~Stopped(dc)
  /\ Becomes([DocAtRest EXCEPT !.status = "pairing"]) /\ mrIn' = <<>>
  /\ UNCHANGED <<shellVars, mrConn, mrEvents, mrAnswers, pg, mrCookie, mirrorBounds>>

(* What a document does by itself to be connected.                          *)
Reconnects ==
  RetryFires \/ SocketOpens \/ SocketRefused \/ HeartbeatEnds \/ TakesFrame

----------------------------------------------------------------------------
PageStep ==
  \/ \E session \in 1..MaxSessions : Enter(session)
  \/ \E resume \in BOOLEAN : Start(resume)
  \/ StopCompanion \/ LeaveBegins \/ LeaveEnds \/ Reload \/ ReleaseStale
  \/ \E a \in mrAnswers : StartAnswered(a)
  \/ Renders \/ HostPeerFails \/ PageHears

ShellStep ==
  \/ \E t \in mrTasks : TaskGoesOn(t) \/ Installs(t)
  \/ LeaseEnds \/ ConnectionEnds

DocStep ==
  \/ OpensDoc \/ OtherDocument \/ Reconnects \/ LosesSocket
  \/ Asks \/ Granted \/ StopsCapture \/ Pairs \/ Disconnects

MirrorNext == PageStep \/ ShellStep \/ DocStep

MirrorSpec == MirrorInit /\ [][MirrorNext]_mirrorVars

----------------------------------------------------------------------------
(* What the page shows as its companion is the live server of its session,  *)
(* until the lease ends: no older request, whose cleanup comes late, no      *)
(* other page and no other session stops or takes it; and there is never    *)
(* more than one server.                                                    *)
CompanionIsOwn ==
  /\ pg.active => mrSlot = [server |-> pg.gen, session |-> pg.session, owner |-> pg.host]
  /\ mrLive \subseteq {mrSlot.server} /\ (mrLive # {} => mrFlag)

(* What a camera shows reaches only the session it was granted for.         *)
ConsentIsKept ==
  dc.status = "connected" /\ dc.held # 0 /\ dc.sock = pg.client
      => dc.held = pg.gen

(* A camera that is on has a desktop, or a timer that turns it off.         *)
CameraHasReason ==
  dc.held # 0 => ~Stopped(dc) /\ (dc.status = "connected" \/ dc.timer)

(* The companion is the page's own, and the camera is used with consent.    *)
MirrorIsSound == CompanionIsOwn /\ ConsentIsKept /\ CameraHasReason

(* A browser that is paired with the companion the page shows, and has not  *)
(* had its report, is connected to it sooner or later, whatever broke or    *)
(* was loaded again.                                                        *)
Expected ==
  /\ ~Stopped(dc) /\ pg.active /\ ~pg.finishing /\ dc.done # pg.gen
  /\ mrCookie = pg.gen /\ mrCookie \in mrLive
Together == dc.status = "connected" /\ dc.sock = pg.client
BrowserReturns == Expected ~> (Together \/ ~Expected)
=============================================================================
