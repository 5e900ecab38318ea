----------------------------- MODULE ScreenShare -----------------------------
(***************************************************************************)
(* Screen sharing between two members (features/session/screenShare.ts and  *)
(* the stream binding of SessionView): one shares, one after the other,     *)
(* fresh screen streams; the other decides of every stream that arrives     *)
(* whether it is the sharer's face, its screen or a leftover.               *)
(*                                                                         *)
(* The transport is external.  On one connection announces arrive in order, *)
(* media later than the announce of its stream (which is written to the     *)
(* data channel before the renegotiation begins) but in any order among     *)
(* itself, and stream metadata is paired with media first in, first out.    *)
(* A connection may be replaced without a leave; nothing is delivered to a  *)
(* side, or sent by it, before it has seen the join.                        *)
(***************************************************************************)
EXTENDS Naturals, FiniteSets, Sequences, SequencesExt

CONSTANTS MaxShares,  \* streams the sharer publishes
          MaxWires,   \* connections of the two, one after the other
          MaxAnnounces \* announces of the viewer on their way

ASSUME ScreenAssumption == {MaxShares, MaxWires, MaxAnnounces} \subseteq Nat

Screens == 1..MaxShares
Camera == 0
NoScreen == MaxShares + 1

VARIABLES
  scLocal,    \* localStream of the sharer: NoScreen or a screen
  scNext,     \* screens captured so far
  scSharer,   \* sharer: [joined, announced, published]
  scViewer,   \* viewer: [joined, screenId, announced, retired]
  scWires,    \* connections so far
  scToViewer, \* announces on their way: NoScreen or a screen
  scToSharer, \* the viewer's announces on their way
  scMedia,    \* streams added to the connection that have not arrived
  scMeta,     \* pendingStreamMetas: NoScreen for the camera, else the tagged screen
  scAdded,    \* streams added to this connection, oldest first
  scFace, scTile  \* what the viewer's two tiles of the sharer are bound to

screenVars == <<scLocal, scNext, scSharer, scViewer, scWires, scToViewer, scToSharer,
                scMedia, scMeta, scAdded, scFace, scTile>>

FreshSharer == [joined |-> FALSE, announced |-> FALSE, published |-> FALSE]
FreshViewer == [joined |-> FALSE, screenId |-> NoScreen, announced |-> FALSE, retired |-> {}]

ScreenInit ==
  /\ scLocal = NoScreen /\ scNext = 0
  /\ scSharer = FreshSharer /\ scViewer = FreshViewer
  /\ scWires = 1
  /\ scToViewer = <<>> /\ scToSharer = <<>>
  /\ scMedia = {} /\ scMeta = <<>> /\ scAdded = <<>>
  /\ scFace = NoScreen /\ scTile = NoScreen
-----------------------------------------------------------------------------
(* The sharer *)

(* publishTo: once for every stream and connection, and only to a viewer
   that has shown it speaks the protocol *)
MayPublishAgain(s) == s.announced \* slip
MayPublish(s) == s.announced /\ ~s.published

Publishes(s, stream) ==
  IF stream # NoScreen /\ MayPublish(s)
  THEN /\ scSharer' = [s EXCEPT !.published = TRUE]
       /\ scToViewer' = Append(scToViewer, stream)
       /\ scMedia' = scMedia \cup {stream}
       /\ scMeta' = Append(scMeta, stream)
       /\ scAdded' = Append(scAdded, stream)
  ELSE /\ scSharer' = s
       /\ UNCHANGED <<scToViewer, scMedia, scMeta, scAdded>>

(* publish replaces whatever was shared before; a side that has not seen the
   join of a replaced connection reaches nobody *)
Publish ==
  LET stream == scNext + 1
  IN /\ stream \in Screens
     /\ scNext' = stream
     /\ scLocal' = stream
     /\ IF scSharer.joined
        THEN Publishes([scSharer EXCEPT !.published = FALSE], stream)
        ELSE /\ scSharer' = [scSharer EXCEPT !.published = scSharer.announced]
             /\ UNCHANGED <<scToViewer, scMedia, scMeta, scAdded>>
     /\ UNCHANGED <<scViewer, scWires, scToSharer, scFace, scTile>>

(* unpublish *)
Unpublish ==
  /\ scLocal # NoScreen
  /\ scLocal' = NoScreen
  /\ scSharer' = [scSharer EXCEPT !.published = FALSE]
  /\ scToViewer' = IF scSharer.joined THEN Append(scToViewer, NoScreen) ELSE scToViewer
  /\ UNCHANGED <<scNext, scViewer, scWires, scToSharer, scMedia, scMeta, scAdded, scFace, scTile>>

(* onPeerJoin: a new transport knows nothing of the old one; the camera is
   published by publishLocalStream, which hears of the join as well *)
ForgetsWire(s) == [FreshSharer EXCEPT !.joined = TRUE]

SharerSeesJoin ==
  /\ ~scSharer.joined
  /\ scSharer' = ForgetsWire(scSharer)
  /\ scToViewer' = Append(scToViewer, scLocal)
  /\ scMedia' = scMedia \cup {Camera}
  /\ scMeta' = Append(scMeta, NoScreen)
  /\ scAdded' = Append(scAdded, Camera)
  /\ UNCHANGED <<scLocal, scNext, scViewer, scWires, scToSharer, scFace, scTile>>

(* The viewer's announce proves that it can show a screen *)
SharerHears ==
  /\ scSharer.joined /\ scToSharer # <<>>
  /\ scToSharer' = Tail(scToSharer)
  /\ Publishes([scSharer EXCEPT !.announced = TRUE], scLocal)
  /\ UNCHANGED <<scLocal, scNext, scViewer, scWires, scFace, scTile>>
-----------------------------------------------------------------------------
(* The viewer *)

ViewerSeesJoin ==
  /\ ~scViewer.joined
  /\ scViewer' = [FreshViewer EXCEPT !.joined = TRUE]
  /\ scTile' = NoScreen
  /\ scToSharer' = Append(scToSharer, NoScreen)
  /\ UNCHANGED <<scLocal, scNext, scSharer, scWires, scToViewer, scMedia, scMeta, scAdded, scFace>>

(* The viewer starts or stops a share of its own, and announces it *)
ViewerAnnounces ==
  /\ scViewer.joined /\ Len(scToSharer) < MaxAnnounces
  /\ scToSharer' = Append(scToSharer, NoScreen)
  /\ UNCHANGED <<scLocal, scNext, scSharer, scViewer, scWires, scToViewer, scMedia, scMeta,
                 scAdded, scFace, scTile>>

(* An announce names the screen of now and retires the one before it *)
Retired(v, id) ==
  (v.retired \cup IF v.screenId = NoScreen THEN {} ELSE {v.screenId}) \ {id}

ViewerHears ==
  LET id == Head(scToViewer)
  IN /\ scViewer.joined /\ scToViewer # <<>>
     /\ scToViewer' = Tail(scToViewer)
     /\ scViewer' = [scViewer EXCEPT !.announced = TRUE, !.screenId = id,
                                     !.retired = Retired(scViewer, id)]
     /\ scTile' = IF id = NoScreen THEN NoScreen ELSE scTile
     /\ UNCHANGED <<scLocal, scNext, scSharer, scWires, scToSharer, scMedia, scMeta, scAdded, scFace>>

(* classify: the announced id decides, then the retired ones, and only then
   the metadata, which may have been meant for another stream *)
Classify(v, stream, meta) ==
  CASE v.screenId = stream -> "screen"
    [] v.screenId # stream /\ stream \in v.retired -> "ignore"
    [] v.screenId # stream /\ stream \notin v.retired /\ v.screenId = NoScreen /\ meta = stream -> "screen"
    [] OTHER -> "camera"

StreamArrives(stream) ==
  /\ scViewer.joined
  /\ stream \in scMedia
  /\ stream \notin Range(scToViewer)
  /\ scMeta # <<>>
  /\ scMedia' = scMedia \ {stream}
  /\ scMeta' = Tail(scMeta)
  /\ LET kind == Classify(scViewer, stream, Head(scMeta))
     IN /\ scTile' = IF kind = "screen" THEN stream ELSE scTile
        /\ scFace' = IF kind = "camera" THEN stream ELSE scFace
  /\ UNCHANGED <<scLocal, scNext, scSharer, scViewer, scWires, scToViewer, scToSharer, scAdded>>

(* A stream that was removed again may never arrive; its metadata stays *)
StreamVanishes(stream) ==
  /\ stream \in scMedia \ {Camera, scLocal}
  /\ scMedia' = scMedia \ {stream}
  /\ UNCHANGED <<scLocal, scNext, scSharer, scViewer, scWires, scToViewer, scToSharer,
                 scMeta, scAdded, scFace, scTile>>

(* The connection is replaced, with or without a leave before it *)
WireReplaced(left) ==
  /\ scWires < MaxWires
  /\ scWires' = scWires + 1
  /\ scSharer' = IF left THEN FreshSharer ELSE [scSharer EXCEPT !.joined = FALSE]
  /\ scViewer' = IF left THEN FreshViewer ELSE [scViewer EXCEPT !.joined = FALSE]
  /\ scTile' = IF left THEN NoScreen ELSE scTile
  /\ scFace' = IF left THEN NoScreen ELSE scFace
  /\ scToViewer' = <<>> /\ scToSharer' = <<>>
  /\ scMedia' = {} /\ scMeta' = <<>> /\ scAdded' = <<>>
  /\ UNCHANGED <<scLocal, scNext>>

ScreenNext ==
  \/ Publish \/ Unpublish \/ SharerSeesJoin \/ SharerHears
  \/ ViewerSeesJoin \/ ViewerHears \/ ViewerAnnounces
  \/ \E stream \in Screens \cup {Camera} : StreamArrives(stream) \/ StreamVanishes(stream)
  \/ \E left \in BOOLEAN : WireReplaced(left)

ScreenSpec == ScreenInit /\ [][ScreenNext]_screenVars
-----------------------------------------------------------------------------
(* The face tile never shows a screen, not even one that arrives after its
   share was stopped or replaced, or with the metadata of another stream
   (screenShare.ts:254-279). *)
FaceIsAFace == scFace \in {NoScreen, Camera}

(* A stream is handed to a connection once: a second time would shift the
   metadata of every later stream (screenShare.ts:132-139, 166-178). *)
AddedOnce == \A i, j \in DOMAIN scAdded : scAdded[i] = scAdded[j] => i = j

(* When nothing is on its way the viewer sees what the sharer shares *)
TileIsTheScreen ==
  (scSharer.joined /\ scViewer.joined /\ scToViewer = <<>> /\ scToSharer = <<>> /\ scMedia = {})
    => scTile = scLocal

SharingIsSound == FaceIsAFace /\ AddedOnce /\ TileIsTheScreen
=============================================================================
