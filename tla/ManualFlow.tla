------------------------------ MODULE ManualFlow ------------------------------
(***************************************************************************)
(* The manual mode of a weighing PC: several browsers of the operator      *)
(* press "weigh" or "tare" while commands of the AIS run on the same       *)
(* scales.  One operation goes through prepare (the weight, the shots, the *)
(* files, the tare, the preview) and commit; the disk may fail, the        *)
(* service may be restarted, which clears the files no record owns.        *)
(***************************************************************************)
EXTENDS Naturals, FiniteSets

CONSTANTS
  Tab,             \* browsers signed in on the PC
  ShotCamera,
  MaxStands,       \* bound: vehicles that come onto the scales
  MaxOrders,       \* bound: manual operations begun
  MaxManualFaults  \* bound: failures of the disk, restarts of the service

ASSUME ManualBounds == {MaxStands, MaxOrders, MaxManualFaults} \subseteq Nat
ASSUME CameraAssumption == IsFiniteSet(ShotCamera) /\ ShotCamera # {}

VARIABLES
  platform,        \* the indicator: the vehicle that stands (0: none), whether stable
  manualSite,      \* the link to the center and its permission
  ais,             \* the operation of an AIS command under way (runner.busy)
  manualOrder,     \* per browser: the manual operation it waits for
  pendingPreview,  \* ManualOperationFlow._pending: the number of an operation, 0
  shotFiles,       \* files of the photos: <<number of the operation, camera>>
  manualJournal,   \* manual records of weighings_local
  ghosts           \* history: numbers whose files a failure left; counters

manualVars == <<platform, manualSite, ais, manualOrder, pendingPreview, shotFiles, manualJournal, ghosts>>

TareFound   == {"none", "valid", "heavy", "expired"}   \* heavy: not below the gross
ManualKind   == {"weighing", "taring"}
NoOrder   == [id |-> 0, at |-> "idle", kind |-> "weighing", stand |-> 0, netto |-> "none",
           old |-> 0, answer |-> "none"]
OrderNumber == 1 .. MaxOrders
FilesOf(n) == {n} \X ShotCamera

ManualInit ==
  /\ platform = [stand |-> 0, stable |-> TRUE]
  /\ manualSite = [link |-> FALSE, permit |-> FALSE]
  /\ ais = FALSE
  /\ manualOrder = [t \in Tab |-> NoOrder]
  /\ pendingPreview = 0
  /\ shotFiles = {}
  /\ manualJournal = {}
  /\ ghosts = [ids |-> {}, stands |-> 0, orders |-> 0, faults |-> 0]

(***************************************************************************)
(* Around the operator                                                     *)
(***************************************************************************)
VehicleMoves ==
  /\ \/ /\ platform.stand = 0 /\ ghosts.stands < MaxStands
        /\ platform' = [stand |-> ghosts.stands + 1, stable |-> FALSE]
        /\ ghosts' = [ghosts EXCEPT !.stands = @ + 1]
     \/ /\ platform.stand # 0
        /\ \E new \in {[stand |-> 0, stable |-> TRUE],
                       [platform EXCEPT !.stable = TRUE]} \ {platform} : platform' = new
        /\ UNCHANGED ghosts
  /\ UNCHANGED <<manualSite, ais, manualOrder, pendingPreview, shotFiles, manualJournal>>

(* The link comes and goes; over it the center permits the manual mode.    *)
Surroundings ==
  /\ \/ manualSite' = [manualSite EXCEPT !.link = ~@]
     \/ manualSite.link /\ manualSite' = [manualSite EXCEPT !.permit = ~@]
  /\ UNCHANGED <<platform, ais, manualOrder, pendingPreview, shotFiles, manualJournal, ghosts>>

(* A command of the AIS looks at nothing the operator does. *)
AisCommand ==
  /\ IF ais THEN ais' = FALSE
     ELSE /\ manualSite.link /\ platform.stand # 0 /\ platform.stable
          /\ ais' = TRUE
  /\ UNCHANGED <<platform, manualSite, manualOrder, pendingPreview, shotFiles, manualJournal, ghosts>>

(***************************************************************************)
(* prepare and commit                                                      *)
(***************************************************************************)
ManualAllowed == ~manualSite.link \/ manualSite.permit

LoadStands == platform.stand # 0 /\ platform.stable

(* The checks of prepare up to the shots, in one go; the weight is taken   *)
(* here.  A tare above the limit is refused before anything is shot.       *)
Prepare(t, kind, loaded) ==
  /\ manualOrder[t].at \in {"idle", "told"}
  /\ ghosts.orders < MaxOrders
  /\ ManualAllowed /\ ~ais
  /\ LoadStands
  /\ ~(kind = "taring" /\ loaded)
  /\ ghosts' = [ghosts EXCEPT !.orders = @ + 1]
  /\ manualOrder' = [manualOrder EXCEPT ![t] = [NoOrder EXCEPT !.id = ghosts.orders + 1, !.at = "shots",
                                                !.kind = kind, !.stand = platform.stand]]
  /\ UNCHANGED <<platform, manualSite, ais, pendingPreview, shotFiles, manualJournal>>

AtStep(t, place) == manualOrder[t].at = place
OrderMoves(t, new) == manualOrder' = [manualOrder EXCEPT ![t] = new]
AnswersPage(t, what) == OrderMoves(t, [manualOrder[t] EXCEPT !.at = "told", !.answer = what])

ManualFault ==
  /\ ghosts.faults < MaxManualFaults
  /\ ghosts' = [ghosts EXCEPT !.faults = @ + 1]
DiskFaultOf(n) ==
  /\ ghosts.faults < MaxManualFaults
  /\ ghosts' = [ghosts EXCEPT !.faults = @ + 1, !.ids = @ \cup {n}]

(* shots_or_capture_all: without the frames of all cameras no operation    *)
(* and no file.                                                            *)
ShootAll(t) ==
  /\ AtStep(t, "shots")
  /\ \/ OrderMoves(t, [manualOrder[t] EXCEPT !.at = "files"])
     \/ AnswersPage(t, "refused")
  /\ UNCHANGED <<platform, manualSite, ais, pendingPreview, shotFiles, manualJournal, ghosts>>

(* store_shots: file after file; one the disk refuses ends the request.    *)
StoreShots(t) ==
  /\ AtStep(t, "files")
  /\ \/ /\ shotFiles' = shotFiles \cup FilesOf(manualOrder[t].id)
        /\ OrderMoves(t, [manualOrder[t] EXCEPT !.at = "tare"])
        /\ UNCHANGED ghosts
     \/ /\ DiskFaultOf(manualOrder[t].id)
        /\ \E part \in SUBSET FilesOf(manualOrder[t].id) :
             part # FilesOf(manualOrder[t].id) /\ shotFiles' = shotFiles \cup part
        /\ AnswersPage(t, "refused")
  /\ UNCHANGED <<platform, manualSite, ais, pendingPreview, manualJournal>>

(* find_active_tare of the pair, whatever the registry holds by now; one   *)
(* that is not below the gross is dropped.                                 *)
LookUpTare(t) ==
  /\ AtStep(t, "tare")
  /\ \E tare \in TareFound :
       OrderMoves(t, [manualOrder[t] EXCEPT !.at = "swap",
                   !.netto = IF manualOrder[t].kind = "weighing" /\ tare = "valid"
                             THEN "counted" ELSE "none"])
  /\ UNCHANGED <<platform, manualSite, ais, pendingPreview, shotFiles, manualJournal, ghosts>>

(* Under the lock the new preview takes the place of the old one.          *)
SwapPreview(t) ==
  /\ AtStep(t, "swap")
  /\ OrderMoves(t, [manualOrder[t] EXCEPT !.at = IF pendingPreview # 0 THEN "remove" ELSE "commit",
                               !.old = pendingPreview])
  /\ pendingPreview' = manualOrder[t].id
  /\ UNCHANGED <<platform, manualSite, ais, shotFiles, manualJournal, ghosts>>

(* _remove_files of the preview replaced; a file that is held stays.       *)
RemoveOld(t) ==
  /\ AtStep(t, "remove")
  /\ OrderMoves(t, [manualOrder[t] EXCEPT !.at = "commit"])
  /\ \/ /\ shotFiles' = shotFiles \ FilesOf(manualOrder[t].old)
        /\ UNCHANGED ghosts
     \/ /\ DiskFaultOf(manualOrder[t].old)
        /\ UNCHANGED shotFiles
  /\ UNCHANGED <<platform, manualSite, ais, pendingPreview, manualJournal>>

(* Mutant: any preview pending will do. *)
SomePending(t) == pendingPreview # 0

IsPending(t) == pendingPreview = manualOrder[t].id

(* commit: only the pending preview; cleared after the journal has it.  A  *)
(* failed save leaves it pending, and the page without a way to save it.   *)
Committed(t) ==
  {[id |-> manualOrder[t].id, stand |-> manualOrder[t].stand, netto |-> manualOrder[t].netto]}

CommitPreview(t) ==
  /\ AtStep(t, "commit")
  /\ \/ /\ IsPending(t)
        /\ manualJournal' = manualJournal \cup Committed(t)
        /\ pendingPreview' = 0
        /\ AnswersPage(t, "saved")
        /\ UNCHANGED ghosts
     \/ /\ IsPending(t)
        /\ ManualFault
        /\ AnswersPage(t, "refused")
        /\ UNCHANGED <<manualJournal, pendingPreview>>
     \/ /\ ~IsPending(t)
        /\ AnswersPage(t, "refused")
        /\ UNCHANGED <<manualJournal, pendingPreview, ghosts>>
  /\ UNCHANGED <<platform, manualSite, ais, shotFiles>>

(* The service stops; the next start, before anything else runs, removes   *)
(* every file that no row of the journal names (cleanup_orphan_photos).    *)
Owned == {f \in shotFiles : \E r \in manualJournal : r.id = f[1]}

ManualRestart ==
  /\ ManualFault
  /\ manualOrder' = [t \in Tab |-> IF manualOrder[t].at \in {"idle", "told"} THEN manualOrder[t]
                             ELSE [manualOrder[t] EXCEPT !.at = "told", !.answer = "lost"]]
  /\ pendingPreview' = 0
  /\ ais' = FALSE
  /\ shotFiles' = Owned
  /\ UNCHANGED <<platform, manualSite, manualJournal>>

ManualNext ==
  \/ VehicleMoves \/ Surroundings \/ AisCommand \/ ManualRestart
  \/ \E t \in Tab :
       \/ \E kind \in ManualKind, loaded \in BOOLEAN : Prepare(t, kind, loaded)
       \/ ShootAll(t) \/ StoreShots(t) \/ LookUpTare(t) \/ SwapPreview(t) \/ RemoveOld(t) \/ CommitPreview(t)

ManualSpec == ManualInit /\ [][ManualNext]_manualVars

-----------------------------------------------------------------------------
(* The preview, the files and the journal have the fields of manual.py. *)
ManualTypeOK ==
  /\ platform \in [stand : 0 .. MaxStands, stable : BOOLEAN]
  /\ manualSite \in [link : BOOLEAN, permit : BOOLEAN]
  /\ ais \in BOOLEAN
  /\ pendingPreview \in {0} \cup OrderNumber
  /\ shotFiles \subseteq OrderNumber \X ShotCamera
  /\ manualJournal \subseteq [id : OrderNumber, stand : 1 .. MaxStands, netto : {"none", "counted"}]

(* A record of the journal keeps the photos it was saved with, whatever    *)
(* other browsers prepare meanwhile and whatever a restart clears away.    *)
RecordKeepsItsPhotos == \A r \in manualJournal : FilesOf(r.id) \subseteq shotFiles

(* A file belongs to a record, to the preview or to an operation under     *)
(* way; only a failure of the disk leaves others, until the next start.    *)
FilesHaveOwners ==
  \A f \in shotFiles :
    \/ f \in Owned
    \/ f[1] = pendingPreview
    \/ \E t \in Tab : manualOrder[t].at \in {"tare", "swap", "remove", "commit"} /\ f[1] \in {manualOrder[t].id, manualOrder[t].old}
    \/ f[1] \in ghosts.ids

(* What the page tells the operator is true of the journal: saved is       *)
(* there, once; refused is not there and never will be.                    *)
PageTellsJournal ==
  \A t \in Tab : AtStep(t, "told") =>
    /\ manualOrder[t].answer = "saved" => \E r \in manualJournal : r.id = manualOrder[t].id /\ r.stand = manualOrder[t].stand
    /\ manualOrder[t].answer = "refused" => \A r \in manualJournal : r.id # manualOrder[t].id

(* The manual mode with several tabs, failures of the disk and restarts:   *)
(* photos, files and the words of the page go with the journal.            *)
ManualInv == ManualTypeOK /\ RecordKeepsItsPhotos /\ FilesHaveOwners /\ PageTellsJournal
===============================================================================
