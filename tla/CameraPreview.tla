----------------------------- MODULE CameraPreview -----------------------------
(***************************************************************************)
(* One camera of a weighing PC between its users: the previews that the    *)
(* browsers of the operator ask for, the full frame, the probe for the     *)
(* heartbeat, the reader of its RTSP stream, and the settings of the       *)
(* center that replace it while all of them run in threads of their own.   *)
(* Cameras are numbered by the snapshot of settings they came with.        *)
(***************************************************************************)
EXTENDS Naturals, FiniteSets

CONSTANTS
  Viewer,         \* threads that serve a browser
  MaxCameraSets,  \* bound: snapshots of settings applied
  CameraKinds     \* the ways the cameras of the snapshots are read, to choose from

ASSUME CameraBounds == MaxCameraSets \in Nat \ {0}
ASSUME ViewerAssumption == {"free", "probe"} \cap Viewer = {}
ASSUME KindsAssumption == CameraKinds \subseteq [1 .. MaxCameraSets -> {"none", "snap", "stream"}]

FrameOf == 0 .. MaxCameraSets        \* the camera a frame was taken from; 0: no frame
NoCache == [of |-> 0, fresh |-> FALSE]

VARIABLES
  camsOf,        \* what each part takes for the camera: [health, streams, preview] -> snapshot
  cameraKind,    \* snapshot -> how its camera is read
  camChange,     \* SettingsManager._apply: the step it is at
  previewMemo,   \* _preview_cache, _preview_last_ok, _preview_generation of the role
  streamBuffer,  \* whether CameraStream._latest of the stream in use is fresh
  streamReader,  \* the reader threads, by snapshot
  camLock,       \* preview_lock(role): who holds it
  viewer,        \* per viewer: where camera_snapshot is
  camProbe,      \* CameraHealth: the probe under way, the status it reports
  camMarks       \* history: changes complete, races with them, an old camera shown

cameraVars == <<camsOf, cameraKind, camChange, previewMemo, streamBuffer, streamReader, camLock, viewer, camProbe, camMarks>>

Asleep  == [at |-> "idle", cam |-> 0, gen |-> 0, took |-> 0, since |-> 0]
ReaderState  == [at : {"off", "top", "spawn", "read", "ended"}, stop : BOOLEAN]
NoProbe == [at |-> "idle", cam |-> 0, status |-> 0]

CameraInit ==
  /\ camsOf = [part \in {"health", "streams", "preview"} |-> 1]
  /\ cameraKind \in CameraKinds
  /\ camChange = [at |-> "done", n |-> 1]
  /\ previewMemo = [cache |-> NoCache, last |-> 0, gen |-> 1]
  /\ streamBuffer = FALSE
  /\ streamReader = [n \in 1 .. MaxCameraSets |->
                 [at |-> IF n = 1 /\ cameraKind[1] = "stream" THEN "top" ELSE "off", stop |-> FALSE]]
  /\ camLock = "free"
  /\ viewer = [v \in Viewer |-> Asleep]
  /\ camProbe = NoProbe
  /\ camMarks = [done |-> 1, raced |-> FALSE, lateProbe |-> FALSE, oldShown |-> FALSE]

(***************************************************************************)
(* Settings of the center, in the order of _apply and set_cameras          *)
(***************************************************************************)
ViewersCaught == \E v \in Viewer : viewer[v].at \in {"stream", "keep", "cache", "memo"}

StatusForgotten == [camProbe EXCEPT !.status = 0]

ChangeBegins ==
  /\ camChange.at = "done" /\ camChange.n < MaxCameraSets
  /\ camChange' = [at |-> "streams", n |-> camChange.n + 1]
  /\ camsOf' = [camsOf EXCEPT !.health = camChange.n + 1]
  /\ camProbe' = StatusForgotten
  /\ UNCHANGED <<cameraKind, previewMemo, streamBuffer, streamReader, camLock, viewer, camMarks>>

(* CameraStreams.set_cameras: the old stream leaves the table and is       *)
(* stopped; the new one starts.                                            *)
ChangeStreams ==
  /\ camChange.at = "streams"
  /\ camChange' = [camChange EXCEPT !.at = "cameras"]
  /\ camsOf' = [camsOf EXCEPT !.streams = camChange.n]
  /\ streamReader' = [n \in 1 .. MaxCameraSets |->
       IF n = camsOf.streams /\ streamReader[n].at # "off"
       THEN [streamReader[n] EXCEPT !.stop = TRUE, !.at = IF @ = "read" THEN "top" ELSE @]
       ELSE IF n = camChange.n /\ cameraKind[n] = "stream" THEN [streamReader[n] EXCEPT !.at = "top"]
       ELSE streamReader[n]]
  /\ streamBuffer' = FALSE
  /\ UNCHANGED <<cameraKind, previewMemo, camLock, viewer, camProbe, camMarks>>

NextGeneration == previewMemo.gen + 1

(* Mutant: the last good frame is not thrown away. *)
LastStays == previewMemo.last

NoLast == 0

(* AgentRuntime.set_cameras, statement by statement. *)
ChangePreview ==
  /\ \/ /\ camChange.at = "cameras"
        /\ camChange' = [camChange EXCEPT !.at = "generation"]
        /\ camsOf' = [camsOf EXCEPT !.preview = camChange.n]
        /\ UNCHANGED <<previewMemo, camMarks>>
     \/ /\ camChange.at = "generation"
        /\ camChange' = [camChange EXCEPT !.at = "cache"]
        /\ previewMemo' = [previewMemo EXCEPT !.gen = NextGeneration]
        /\ camMarks' = [camMarks EXCEPT !.raced = @ \/ ViewersCaught]
        /\ UNCHANGED camsOf
     \/ /\ camChange.at = "cache"
        /\ camChange' = [camChange EXCEPT !.at = "last"]
        /\ previewMemo' = [previewMemo EXCEPT !.cache = NoCache]
        /\ camMarks' = [camMarks EXCEPT !.raced = @ \/ ViewersCaught]
        /\ UNCHANGED camsOf
     \/ /\ camChange.at = "last"
        /\ camChange' = [camChange EXCEPT !.at = "done"]
        /\ previewMemo' = [previewMemo EXCEPT !.last = NoLast]
        /\ camMarks' = [camMarks EXCEPT !.done = camChange.n,
                                  !.raced = @ \/ ViewersCaught]
        /\ UNCHANGED camsOf
  /\ UNCHANGED <<cameraKind, streamBuffer, streamReader, camLock, viewer, camProbe>>

(***************************************************************************)
(* camera_snapshot                                                         *)
(***************************************************************************)
ViewerMoves(v, new) == viewer' = [viewer EXCEPT ![v] = new]
ViewerAt(v, place) == viewer[v].at = place

(* The browser gets a frame, or none (0).                                  *)
ShowsFrame(v, shot) ==
  /\ ViewerMoves(v, Asleep)
  /\ camMarks' = [camMarks EXCEPT !.oldShown = @ \/ (shot # 0 /\ shot < viewer[v].since)]

(* _preview_result: a failure shows the last good frame while it is kept.  *)
PreviewResult(shot, last) == IF shot # 0 THEN shot ELSE last

AskPreview(v) ==
  /\ ViewerAt(v, "idle")
  /\ cameraKind[camsOf.preview] # "none"
  /\ ViewerMoves(v, [Asleep EXCEPT !.at = IF cameraKind[camsOf.preview] = "stream" THEN "stream" ELSE "cache",
                             !.cam = camsOf.preview, !.since = camMarks.done])
  /\ UNCHANGED <<camsOf, cameraKind, camChange, previewMemo, streamBuffer, streamReader, camLock, camProbe, camMarks>>

(* The frame of the buffer, if it is fresh, whoever's stream it is by now. *)
FromStream(v) ==
  /\ ViewerAt(v, "stream")
  /\ ViewerMoves(v, IF streamBuffer
              THEN [viewer[v] EXCEPT !.at = "keep", !.cam = 0, !.took = camsOf.streams]
              ELSE [viewer[v] EXCEPT !.at = "cache"])
  /\ UNCHANGED <<camsOf, cameraKind, camChange, previewMemo, streamBuffer, streamReader, camLock, camProbe, camMarks>>

(* _preview_last_ok[role] = the frame of the stream *)
KeepStreamFrame(v) ==
  /\ ViewerAt(v, "keep")
  /\ previewMemo' = [previewMemo EXCEPT !.last = viewer[v].took]
  /\ ShowsFrame(v, viewer[v].took)
  /\ UNCHANGED <<camsOf, cameraKind, camChange, streamBuffer, streamReader, camLock, camProbe>>

(* The cache while fresh; else the lock, without waiting for it.           *)
FromCache(v) ==
  /\ ViewerAt(v, "cache")
  /\ IF previewMemo.cache.fresh \/ camLock # "free"
     THEN ShowsFrame(v, PreviewResult(previewMemo.cache.of, previewMemo.last)) /\ UNCHANGED camLock
     ELSE /\ ViewerMoves(v, [viewer[v] EXCEPT !.at = "shoot", !.gen = previewMemo.gen])
          /\ camLock' = v
          /\ UNCHANGED camMarks
  /\ UNCHANGED <<camsOf, cameraKind, camChange, previewMemo, streamBuffer, streamReader, camProbe>>

(* The shot, seconds later; a frame of a camera replaced meanwhile is      *)
(* shown once and not kept.                                                *)
ShootPreview(v) ==
  /\ ViewerAt(v, "shoot")
  /\ \E shot \in {viewer[v].cam, 0} :
       IF viewer[v].gen # previewMemo.gen
       THEN ShowsFrame(v, shot) /\ camLock' = "free"
       ELSE /\ ViewerMoves(v, [Asleep EXCEPT !.at = "memo", !.took = shot, !.since = viewer[v].since])
            /\ UNCHANGED <<camLock, camMarks>>
  /\ UNCHANGED <<camsOf, cameraKind, camChange, previewMemo, streamBuffer, streamReader, camProbe>>

KeepFrame(v) ==
  /\ ViewerAt(v, "memo")
  /\ LET last == PreviewResult(viewer[v].took, previewMemo.last)
     IN /\ previewMemo' = [previewMemo EXCEPT !.cache = [of |-> viewer[v].took, fresh |-> TRUE],
                                !.last = last]
        /\ ShowsFrame(v, last)
  /\ camLock' = "free"
  /\ UNCHANGED <<camsOf, cameraKind, camChange, streamBuffer, streamReader, camProbe>>

(***************************************************************************)
(* CameraHealth: one probe under the lock; its status is written whatever  *)
(* cameras there are by then.                                              *)
(***************************************************************************)
ProbeBegins ==
  /\ camProbe.at = "idle"
  /\ cameraKind[camsOf.health] # "none"
  /\ camProbe' = [camProbe EXCEPT !.at = "lock", !.cam = camsOf.health]
  /\ UNCHANGED <<camsOf, cameraKind, camChange, previewMemo, streamBuffer, streamReader, camLock, viewer, camMarks>>

ProbeLocks ==
  /\ camProbe.at = "lock" /\ camLock = "free"
  /\ camLock' = "probe"
  /\ camProbe' = [camProbe EXCEPT !.at = "shoot"]
  /\ UNCHANGED <<camsOf, cameraKind, camChange, previewMemo, streamBuffer, streamReader, viewer, camMarks>>

ProbeEnds ==
  /\ camProbe.at = "shoot"
  /\ camLock' = "free"
  /\ camProbe' = [NoProbe EXCEPT !.status = camProbe.cam]
  /\ camMarks' = [camMarks EXCEPT !.lateProbe = camProbe.cam # camsOf.health]
  /\ UNCHANGED <<camsOf, cameraKind, camChange, previewMemo, streamBuffer, streamReader, viewer>>

(***************************************************************************)
(* The readers of the streams                                              *)
(***************************************************************************)
ReaderMoves(n, place, next) ==
  /\ streamReader[n].at = place
  /\ streamReader' = [streamReader EXCEPT ![n].at = next]
  /\ UNCHANGED <<camsOf, cameraKind, camChange, previewMemo, camLock, viewer, camProbe, camMarks>>

(* Mutant: the flag is not looked at. *)
ReaderGoesOn(n) == ReaderMoves(n, "top", "spawn") /\ UNCHANGED streamBuffer

(* The flag is looked at between two processes of ffmpeg, not in the       *)
(* middle of the start of one.                                             *)
ReaderTop(n) ==
  /\ ReaderMoves(n, "top", IF streamReader[n].stop THEN "ended" ELSE "spawn")
  /\ UNCHANGED streamBuffer
ReaderSpawns(n) == ReaderMoves(n, "spawn", "read") /\ UNCHANGED streamBuffer

ReaderFrame(n) ==
  /\ ReaderMoves(n, "read", IF streamReader[n].stop THEN "top" ELSE "read")
  /\ streamBuffer' = (streamBuffer \/ n = camsOf.streams)

(* The camera falls silent; ffmpeg ends by its own timeout.                *)
ReaderEof(n) == ReaderMoves(n, "read", "top") /\ UNCHANGED streamBuffer

(* Time: a frame of the buffer, of the cache, the last good one grow old.  *)
CameraTime ==
  /\ \/ /\ streamBuffer /\ streamBuffer' = FALSE
        /\ UNCHANGED previewMemo
     \/ /\ previewMemo.cache.fresh
        /\ previewMemo' = [previewMemo EXCEPT !.cache.fresh = FALSE]
        /\ UNCHANGED streamBuffer
     \/ /\ previewMemo.last # 0 /\ ~previewMemo.cache.fresh
        /\ previewMemo' = [previewMemo EXCEPT !.last = 0]
        /\ UNCHANGED streamBuffer
  /\ UNCHANGED <<camsOf, cameraKind, camChange, streamReader, camLock, viewer, camProbe, camMarks>>

Reading(n) ==
  \/ ReaderTop(n) \/ ReaderSpawns(n) \/ ReaderFrame(n) \/ ReaderEof(n)

CameraNext ==
  \/ ChangeBegins \/ ChangeStreams \/ ChangePreview
  \/ \E v \in Viewer :
       \/ AskPreview(v) \/ FromStream(v) \/ KeepStreamFrame(v) \/ FromCache(v)
       \/ ShootPreview(v) \/ KeepFrame(v)
  \/ ProbeBegins \/ ProbeLocks \/ ProbeEnds
  \/ \E n \in 1 .. MaxCameraSets : Reading(n)
  \/ CameraTime

(* The threads of the readers run on; a silent camera ends by the timeout. *)
CameraFairness == \A n \in 1 .. MaxCameraSets : WF_cameraVars(Reading(n))

CameraSpec == CameraInit /\ [][CameraNext]_cameraVars /\ CameraFairness

-----------------------------------------------------------------------------
(* The memos and threads have the shapes main.py and stream.py give them. *)
CameraTypeOK ==
  /\ camsOf \in [{"health", "streams", "preview"} -> 1 .. MaxCameraSets]
  /\ previewMemo.cache.of \in FrameOf /\ previewMemo.last \in FrameOf
  /\ previewMemo.gen = camsOf.preview - (IF camChange.at = "generation" THEN 1 ELSE 0)
  /\ streamReader \in [1 .. MaxCameraSets -> ReaderState]
  /\ \A v \in Viewer : viewer[v].took \in FrameOf

(* At most one request at a time goes to the camera for previews and       *)
(* probes: the threads between the lock and the end of their shot.         *)
OneShotAtATime ==
  Cardinality({v \in Viewer : viewer[v].at \in {"shoot", "memo"}}
              \cup (IF camProbe.at = "shoot" THEN {"probe"} ELSE {})) <= 1

(* Once the settings are applied, a preview asked for after that shows no  *)
(* camera of before: neither the cache, nor the last good frame, nor the   *)
(* buffer kept it.  The exception is a thread the change caught between    *)
(* its reading of the camera and of the generation, or of either and its   *)
(* memo.                                                                   *)
OldCameraLeavesScreen ==
  camMarks.oldShown => camMarks.raced

(* The status reported for the camera is of the camera configured now,     *)
(* unless a probe was under way when the settings came.                    *)
StatusOfConfigured ==
  camProbe.status \notin {0, camsOf.health} => camMarks.lateProbe

(* The reader of a stream that was replaced comes to its end, and its      *)
(* process of ffmpeg with it.                                              *)
StoppedReaderEnds ==
  \A n \in 1 .. MaxCameraSets - 1 : streamReader[n].stop ~> streamReader[n].at = "ended"

(* The cameras under a change of settings: one shot at a time, and neither *)
(* the screen nor the status is of a camera replaced.                      *)
CameraInv == CameraTypeOK /\ OneShotAtATime /\ OldCameraLeavesScreen /\ StatusOfConfigured
===============================================================================
