----------------------------- MODULE PhotoDelivery -----------------------------
(***************************************************************************)
(* The photos of the operations: the queue of the weighing PC with its     *)
(* pauses, the upload to the center and the answer that may be lost, the   *)
(* retention that frees the disk of the PC, and the files of the center.   *)
(* Time is what is left of a pause; the clock of the PC may jump.          *)
(***************************************************************************)
EXTENDS Naturals, FiniteSets, FiniteSetsExt

CONSTANTS
  Photo,
  Damaged,          \* photos whose local file was lost or changed on the disk
  PhotoBatch,       \* photos of one round
  MaxPause,         \* retry_max_s, in units of retry_base_s
  MaxPhotoTroubles  \* bound: crashes, jumps of the clock, timeouts, torn files

ASSUME DamagedAssumption == Damaged \subseteq Photo /\ IsFiniteSet(Photo)
ASSUME PhotoBounds == {PhotoBatch, MaxPause} \subseteq Nat \ {0} /\ MaxPhotoTroubles \in Nat

VARIABLES
  photoRow,       \* weighing_photos_local with the synced mark of its record
  photoDisk,      \* photos whose file is on the PC
  photoRound,     \* PhotoUploader: what is left of the round, its request
  purge,          \* PhotoRetention: the portion under way
  photoAtCenter,  \* the file of a photo in the center: "none", "whole", "torn"
  strayUpload,    \* requests the uploader gave up and the center has still to handle
  photoTroubles

photoVars == <<photoRow, photoDisk, photoRound, purge, photoAtCenter, strayUpload, photoTroubles>>

RetryHorizon == 2 * MaxPause       \* max_pause_s of upload_once
BeyondHorizon  == RetryHorizon + 1        \* a mark only a clock ahead can have written

UploadRequest == {"none", "sent", "accepted", "refused"}
NoRound == [left |-> {}, now |-> {}, request |-> "none"]
NoPurge == [left |-> {}, unlinked |-> {}]

NewRow  == [synced |-> FALSE, attempts |-> 0, pause |-> 0, uploaded |-> FALSE, removed |-> FALSE]

PhotoInit ==
  /\ photoRow = [p \in Photo |-> NewRow]
  /\ photoDisk = Photo
  /\ photoRound = NoRound
  /\ purge = NoPurge
  /\ photoAtCenter = [p \in Photo |-> "none"]
  /\ strayUpload = {}
  /\ photoTroubles = 0

(* mark_synced, after the center has saved the record with its photo rows. *)
RecordSynced(p) ==
  /\ ~photoRow[p].synced
  /\ photoRow' = [photoRow EXCEPT ![p].synced = TRUE]
  /\ UNCHANGED <<photoDisk, photoRound, purge, photoAtCenter, strayUpload, photoTroubles>>

(***************************************************************************)
(* The uploader                                                            *)
(***************************************************************************)

(* Mutant: every pause is waited for, whatever clock wrote its mark. *)
PauseOver(p) == photoRow[p].synced /\ ~photoRow[p].uploaded /\ photoRow[p].pause = 0

(* photos_to_upload: a mark too far ahead is one of a clock gone wrong. *)
PhotoDue(p) ==
  /\ photoRow[p].synced /\ ~photoRow[p].uploaded
  /\ photoRow[p].pause = 0 \/ photoRow[p].pause > RetryHorizon

UploadPortion(due) ==
  {s \in SUBSET due : /\ Cardinality(s) = Min({PhotoBatch, Cardinality(due)})
                      /\ \A p \in s, q \in due \ s : photoRow[p].attempts <= photoRow[q].attempts}

(* upload_once: a portion, those with the fewest failures first. *)
RoundBegins ==
  /\ photoRound = NoRound
  /\ \E s \in UploadPortion({p \in Photo : PhotoDue(p)}) :
       /\ s # {}
       /\ photoRound' = [NoRound EXCEPT !.left = s]
  /\ UNCHANGED <<photoRow, photoDisk, purge, photoAtCenter, strayUpload, photoTroubles>>

(* _upload_photo: without its file there is nothing to send. *)
SendPhoto(p) ==
  /\ photoRound.now = {} /\ p \in photoRound.left
  /\ photoRound' = [left |-> photoRound.left \ {p}, now |-> {p},
               request |-> IF p \in photoDisk THEN "sent" ELSE "refused"]
  /\ UNCHANGED <<photoRow, photoDisk, purge, photoAtCenter, strayUpload, photoTroubles>>

(* 2 ^ (attempts - 1), at most retry_max_s *)
RetryPause(attempts) ==
  IF 2 ^ (attempts - 1) \in 1 .. MaxPause THEN 2 ^ (attempts - 1) ELSE MaxPause

(* mark_photo_uploaded for 204, mark_photo_failed for anything else.  The  *)
(* count goes on in the code; past the cap it orders nothing new here, since   *)
(* a sound photo fails only by one of the troubles.                        *)
AttemptCap == MaxPhotoTroubles + 1

MarkUploaded(row) == [row EXCEPT !.uploaded = TRUE, !.pause = 0]
MarkFailed(row) ==
  [row EXCEPT !.attempts = Min({@ + 1, AttemptCap}), !.pause = RetryPause(row.attempts + 1)]

RoundMarks ==
  /\ photoRound.request \in {"accepted", "refused"}
  /\ \E p \in photoRound.now :
       photoRow' = [photoRow EXCEPT ![p] =
         IF photoRound.request = "accepted" THEN MarkUploaded(@) ELSE MarkFailed(@)]
  /\ photoRound' = [photoRound EXCEPT !.now = {}, !.request = "none"]
  /\ UNCHANGED <<photoDisk, purge, photoAtCenter, strayUpload, photoTroubles>>

(***************************************************************************)
(* The center                                                              *)
(***************************************************************************)

(* upload_photo: the hash decides, a whole file is left alone, a torn one  *)
(* is written again; a temporary file and a rename, no half of a file.     *)
PhotoReceived(p) ==
  /\ photoAtCenter' = IF p \in Damaged \/ photoAtCenter[p] = "whole" THEN photoAtCenter
               ELSE [photoAtCenter EXCEPT ![p] = "whole"]

CenterHandles ==
  /\ photoRound.request = "sent"
  /\ \E p \in photoRound.now :
       /\ PhotoReceived(p)
       /\ photoRound' = [photoRound EXCEPT !.request = IF p \in Damaged THEN "refused" ELSE "accepted"]
  /\ UNCHANGED <<photoRow, photoDisk, purge, strayUpload, photoTroubles>>

(* What the uploader has given up is handled all the same. *)
CenterHandlesStray(p) ==
  /\ p \in strayUpload
  /\ PhotoReceived(p)
  /\ strayUpload' = strayUpload \ {p}
  /\ UNCHANGED <<photoRow, photoDisk, photoRound, purge, photoTroubles>>

(***************************************************************************)
(* The retention                                                           *)
(***************************************************************************)

(* Mutant: the record has been delivered, so its photos may go. *)
Delivered(p) == photoRow[p].synced /\ ~photoRow[p].removed

Purgeable(p) == photoRow[p].uploaded /\ ~photoRow[p].removed

(* purge_once, cleanup_now: photos_to_purge, older than the term or all;   *)
(* one at a time under the lock.                                           *)
PurgeBegins ==
  /\ purge = NoPurge
  /\ \E s \in SUBSET {p \in Photo : Purgeable(p)} :
       /\ s # {}
       /\ purge' = [NoPurge EXCEPT !.left = s]
  /\ UNCHANGED <<photoRow, photoDisk, photoRound, photoAtCenter, strayUpload, photoTroubles>>

StaysOnDisk(p) == [purge EXCEPT !.left = @ \ {p}]

(* _purge_portion: a file that is held stays, without its mark. *)
PurgeUnlinks(p) ==
  /\ purge.unlinked = {} /\ p \in purge.left
  /\ \/ /\ photoDisk' = photoDisk \ {p}
        /\ purge' = [left |-> purge.left \ {p}, unlinked |-> {p}]
     \/ /\ purge' = StaysOnDisk(p)
        /\ UNCHANGED photoDisk
  /\ UNCHANGED <<photoRow, photoRound, photoAtCenter, strayUpload, photoTroubles>>

PurgeMarks ==
  /\ purge.unlinked # {}
  /\ photoRow' = [p \in Photo |-> IF p \in purge.unlinked
                              THEN [photoRow[p] EXCEPT !.removed = TRUE] ELSE photoRow[p]]
  /\ purge' = [purge EXCEPT !.unlinked = {}]
  /\ UNCHANGED <<photoDisk, photoRound, photoAtCenter, strayUpload, photoTroubles>>

(***************************************************************************)
(* Time and troubles                                                       *)
(***************************************************************************)
PauseLater(pause) == IF pause \in 1 .. RetryHorizon THEN pause - 1 ELSE pause

(* A round begins every five seconds, well before the shortest pause ends. *)
PhotoTime ==
  /\ photoRound = NoRound => \A p \in Photo : ~PhotoDue(p)
  /\ \E p \in Photo : PauseLater(photoRow[p].pause) # photoRow[p].pause
  /\ photoRow' = [p \in Photo |-> [photoRow[p] EXCEPT !.pause = PauseLater(@)]]
  /\ UNCHANGED <<photoDisk, photoRound, purge, photoAtCenter, strayUpload, photoTroubles>>

PhotoTrouble ==
  /\ photoTroubles < MaxPhotoTroubles
  /\ photoTroubles' = photoTroubles + 1

(* The clock of the PC jumps: a mark of a failure comes near or goes away. *)
ClockJumps ==
  /\ PhotoTrouble
  /\ \E far \in 0 .. BeyondHorizon :
       photoRow' = [p \in Photo |-> IF photoRow[p].attempts > 0 /\ ~photoRow[p].uploaded
                                THEN [photoRow[p] EXCEPT !.pause = far] ELSE photoRow[p]]
  /\ UNCHANGED <<photoDisk, photoRound, purge, photoAtCenter, strayUpload>>

(* The answer does not come in time, or not at all. *)
RequestTimesOut ==
  /\ PhotoTrouble
  /\ photoRound.request \in {"sent", "accepted"}
  /\ strayUpload' = IF photoRound.request = "sent" THEN strayUpload \cup photoRound.now ELSE strayUpload
  /\ photoRound' = [photoRound EXCEPT !.request = "refused"]
  /\ UNCHANGED <<photoRow, photoDisk, purge, photoAtCenter>>

PhotoAgentCrash ==
  /\ PhotoTrouble
  /\ photoRound' = NoRound
  /\ purge' = NoPurge
  /\ strayUpload' = IF photoRound.request = "sent" THEN strayUpload \cup photoRound.now ELSE strayUpload
  /\ UNCHANGED <<photoRow, photoDisk, photoAtCenter>>

(* Photos whose file the center may be writing when it stops. *)
BeingWritten(hand) == {p \in hand \ Damaged : photoAtCenter[p] = "none"}

(* The center stops before it answers, and may tear the file it writes.    *)
(* What it has answered for is taken to be on its disk.                    *)
PhotoCenterCrash ==
  /\ PhotoTrouble
  /\ LET inHand == strayUpload \cup IF photoRound.request = "sent" THEN photoRound.now ELSE {}
     IN photoAtCenter' \in {photoAtCenter} \cup {[photoAtCenter EXCEPT ![p] = "torn"] :
                                           p \in BeingWritten(inHand)}
  /\ photoRound' = IF photoRound.request = "sent" THEN [photoRound EXCEPT !.request = "refused"] ELSE photoRound
  /\ strayUpload' = {}
  /\ UNCHANGED <<photoRow, photoDisk, purge>>

Uploader == RoundBegins \/ (\E p \in Photo : SendPhoto(p)) \/ RoundMarks \/ CenterHandles

PhotoNext ==
  \/ \E p \in Photo : RecordSynced(p) \/ CenterHandlesStray(p) \/ PurgeUnlinks(p)
  \/ Uploader
  \/ PurgeBegins \/ PurgeMarks
  \/ PhotoTime \/ ClockJumps \/ RequestTimesOut \/ PhotoAgentCrash \/ PhotoCenterCrash

(* The uploader's loop goes on and time passes.                            *)
PhotoSpec ==
  /\ PhotoInit /\ [][PhotoNext]_photoVars
  /\ WF_photoVars(Uploader) /\ WF_photoVars(PhotoTime)
  /\ \A p \in Photo : WF_photoVars(SendPhoto(p))

(* PhotoLibrary, download_photo: the file of the PC, else the center's. *)
ShownFrom(p) ==
  IF p \in photoDisk THEN "local" ELSE IF photoAtCenter[p] = "whole" THEN "center" ELSE "nowhere"

-----------------------------------------------------------------------------
(* The rows of weighing_photos_local. *)
PhotoTypeOK ==
  /\ photoRow \in [Photo -> [synced : BOOLEAN, attempts : 0 .. AttemptCap, pause : 0 .. BeyondHorizon,
                         uploaded : BOOLEAN, removed : BOOLEAN]]
  /\ photoDisk \subseteq Photo
  /\ photoRound.request \in UploadRequest
  /\ photoAtCenter \in [Photo -> {"none", "whole", "torn"}]

(* The PC gives up its file of a photo only when the center has it whole,  *)
(* whatever was lost, answered late or interrupted: the journal can always *)
(* show it.                                                                *)
EvidenceKept ==
  \A p \in Photo : ShownFrom(p) # "nowhere" /\ (p \notin photoDisk => photoRow[p].uploaded)

(* A photo marked as removed has no file left on the PC: nothing the       *)
(* retention lost track of fills the disk.                                 *)
NoFileForgotten == \A p \in Photo : photoRow[p].removed => p \notin photoDisk

(* A file of the center is never written over once whole. *)
WholeStaysWhole ==
  [][\A p \in Photo : photoAtCenter[p] = "whole" => photoAtCenter'[p] = "whole"]_photoVars

(* Damaged photos, which fail for ever, and jumps of the clock keep no     *)
(* other photo of a delivered record from the center.                      *)
EveryPhotoArrives ==
  \A p \in Photo \ Damaged : photoRow[p].synced ~> photoRow[p].uploaded

(* The photos of a weighing, of the PC and of the center together: the     *)
(* file outlives every fault until the center has it, and the retention    *)
(* forgets none.                                                           *)
PhotoInv == PhotoTypeOK /\ EvidenceKept /\ NoFileForgotten

(* What the uploads promise over time: photos arrive, and once there they  *)
(* are not spoilt by a repeat.                                             *)
PhotosMove == WholeStaysWhole /\ EveryPhotoArrives
===============================================================================
