--------------------------- MODULE Station_proofs ---------------------------
(***************************************************************************)
(* Theorems about the weighing PC: the one-shot automaton of a weighing    *)
(* (WeighingCycle), manual mode (ManualFlow), the photos of an operation   *)
(* on their way to the center (PhotoDelivery) and the cameras under a      *)
(* change of settings (CameraPreview).                                     *)
(***************************************************************************)
EXTENDS WeighingCycle, ManualFlow, PhotoDelivery, CameraPreview, FiniteSetTheorems, TLAPS

-----------------------------------------------------------------------------
(***************************************************************************)
(* CycleInv of WeighingCycle for all weights, thresholds and intervals     *)
(* between ticks.                                                          *)
(***************************************************************************)

(* What the automaton remembers of the ticks before is what was shown: the *)
(* candidate for as long as it counts, the silence to the tick.            *)
Memory ==
  /\ cstate = "wait_stable" /\ steadyWeight \in Load =>
       shownBefore.weight = steadyWeight /\ shownBefore.steady >= steadyFor
  /\ cstate \in WaitingState \cup {"idle"} => shownBefore.quiet = noDataFor
  /\ noDataFor # 0 => steadyWeight = "none" \/ cstate \notin WaitingState

ShownType ==
  shownBefore \in [weight : {"none", "empty", "part"} \cup Load,
                   steady : 0 .. LongestWait, quiet : 0 .. LongestWait]

CycleIInv == CycleInv /\ ShownType /\ Memory

(* The cap of the counters is longer than every wait, and caps.            *)
LEMMA CapFacts ==
  /\ LongestWait \in Nat
  /\ StableDuration <= LongestWait /\ NoDataTimeout + MaxGap <= LongestWait
  /\ \A n \in Nat : CappedTime(n) \in 0 .. LongestWait /\ CappedTime(n) <= n
  /\ \A n, k \in Nat : n <= k => CappedTime(n) <= CappedTime(k)
  /\ \A n \in Nat, k \in 0 .. LongestWait : k <= n => k <= CappedTime(n)
BY CycleBounds DEF LongestWait, CappedTime

(* The invariant of the one-shot automaton holds before its first tick.    *)
THEOREM CycleStarts == CycleInit => CycleIInv
BY CapFacts DEF CycleInit, CycleIInv, CycleInv, CycleTypeOK, CapturedWeightStood, VerdictIsJust,
     Memory, ShownType, WaitingState

(* What a tick leaves in the history. *)
LEMMA Seen ==
  ASSUME ShownType, NEW s \in ScaleShown, NEW d \in 1 .. MaxGap, CycleSees(s, d)
  PROVE  /\ ShownType'
         /\ shownBefore'.weight = IF s.stable THEN s.weight ELSE "none"
         /\ s.ok => shownBefore'.quiet = 0
         /\ ~s.ok => shownBefore'.quiet =
              IF shownBefore.quiet = 0 THEN 1 ELSE CappedTime(shownBefore.quiet + d)
         /\ s.stable /\ s.weight = shownBefore.weight =>
              shownBefore'.steady = CappedTime(shownBefore.steady + d)
<1> DEFINE w == IF s.stable THEN s.weight ELSE "none"
           t == IF s.stable /\ s.weight = shownBefore.weight
                THEN CappedTime(shownBefore.steady + d) ELSE 0
           q == IF s.ok THEN 0
                ELSE IF shownBefore.quiet = 0 THEN 1 ELSE CappedTime(shownBefore.quiet + d)
<1>1. shownBefore' = [weight |-> w, steady |-> t, quiet |-> q]  BY DEF CycleSees
<1>2. w \in {"none", "empty", "part"} \cup Load  BY DEF ScaleShown
<1>3. d \in Nat /\ d # 0 /\ 1 <= LongestWait /\ LongestWait \in Nat
  BY CycleBounds, CapFacts
<1>4. t \in 0 .. LongestWait /\ q \in 0 .. LongestWait
  <2>1. shownBefore.steady \in Nat /\ shownBefore.quiet \in Nat  BY <1>3 DEF ShownType
  <2> QED  BY <1>3, <2>1, CapFacts
<1> HIDE DEF w, t, q
<1>5. ShownType'  BY <1>1, <1>2, <1>4 DEF ShownType
<1>6. shownBefore'.weight = w /\ shownBefore'.steady = t /\ shownBefore'.quiet = q  BY <1>1
<1> QED  BY <1>5, <1>6 DEF w, t, q

(* A tick with data, one phase each.                                       *)
LEMMA DataTick ==
  ASSUME CycleIInv, NEW s \in ScaleShown, NEW d \in 1 .. MaxGap, cstate \in WaitingState,
         s.ok, DataCome, WaitZero(s, d) \/ WaitVehicle(s, d) \/ WaitStable(s, d), CycleSees(s, d)
  PROVE  CycleIInv'
<1>1. /\ d \in Nat /\ noDataFor' = 0 /\ LongestWait \in Nat
      /\ inPhase \in Nat /\ steadyFor \in Nat /\ StableDuration \in Nat
      /\ "none" \notin Load /\ "empty" \notin Load /\ "part" \notin Load
  BY CycleBounds, CapFacts, LoadAssumption DEF DataCome, CycleIInv, CycleInv, CycleTypeOK
<1>a. /\ s.weight \in {"none", "empty", "part"} \cup Load
      /\ s.stable => s.weight # "none" /\ ~s.overload
  BY LoadAssumption DEF ScaleShown
<1>2. /\ ShownType' /\ shownBefore'.quiet = 0
      /\ shownBefore'.weight = IF s.stable THEN s.weight ELSE "none"
      /\ s.stable /\ s.weight = shownBefore.weight =>
           shownBefore'.steady = CappedTime(shownBefore.steady + d)
      /\ shownBefore.steady \in Nat /\ shownBefore'.steady \in Nat
  BY <1>1, Seen DEF CycleIInv, ShownType
<1>3. CappedTime(inPhase + d) \in 0 .. LongestWait /\ CappedTime(steadyFor + d) \in 0 .. LongestWait
  BY <1>1, CapFacts
<1>4. CASE WaitZero(s, d)
  <2>1. /\ CycleTypeOK' /\ CapturedWeightStood' /\ VerdictIsJust'
    BY <1>a, <1>1, <1>2, <1>3, <1>4 DEF WaitZero, EnterPhase, FinishCycle, StayFor, CycleIInv, CycleInv,
         CycleTypeOK, CapturedWeightStood, VerdictIsJust, WaitingState
  <2>2. Memory'
    BY <1>a, <1>1, <1>2, <1>4 DEF WaitZero, EnterPhase, FinishCycle, StayFor, Memory, WaitingState
  <2> QED  BY <1>2, <2>1, <2>2 DEF CycleIInv, CycleInv
<1>5. CASE WaitVehicle(s, d)
  <2>1. /\ CycleTypeOK' /\ CapturedWeightStood' /\ VerdictIsJust'
    BY <1>a, <1>1, <1>2, <1>3, <1>5 DEF WaitVehicle, EnterPhase, FinishCycle, StayFor, CycleIInv, CycleInv,
         CycleTypeOK, CapturedWeightStood, VerdictIsJust, WaitingState
  <2>2. Memory'
    BY <1>a, <1>1, <1>2, <1>5 DEF WaitVehicle, EnterPhase, FinishCycle, StayFor, Memory, WaitingState
  <2> QED  BY <1>2, <2>1, <2>2 DEF CycleIInv, CycleInv
<1>6. CASE WaitStable(s, d)
  <2>a. s.stable /\ ~(s.weight \notin Load /\ ~s.overload) => s.weight \in Load  BY <1>a
  <2>1. CycleTypeOK' /\ VerdictIsJust'
    BY <2>a, <1>1, <1>2, <1>3, <1>6 DEF WaitStable, EnterPhase, FinishCycle, StayFor, CycleIInv,
         CycleInv, CycleTypeOK, VerdictIsJust, WaitingState
  <2>2. s.stable /\ s.weight = steadyWeight /\ s.weight \in Load =>
          /\ shownBefore'.weight = steadyWeight
          /\ shownBefore'.steady = CappedTime(shownBefore.steady + d)
          /\ shownBefore.steady >= steadyFor
    BY <1>2, <1>6 DEF WaitStable, CycleIInv, Memory
  <2>3. /\ s.stable /\ s.weight = steadyWeight /\ s.weight \in Load =>
             shownBefore'.steady >= CappedTime(steadyFor + d)
        /\ StableDuration <= steadyFor + d => StableDuration <= CappedTime(steadyFor + d)
    BY <1>1, <1>2, <2>2, CapFacts
  <2>4. CapturedWeightStood'
    BY <1>a, <1>1, <1>2, <1>3, <1>6, <2>2, <2>3 DEF WaitStable, EnterPhase, FinishCycle, StayFor,
         CycleIInv, CycleInv, CycleTypeOK, CapturedWeightStood, ScaleShown
  <2>5. Memory'
    BY <1>a, <1>1, <1>2, <1>3, <1>6, <2>2, <2>3 DEF WaitStable, EnterPhase, FinishCycle, StayFor,
         Memory, WaitingState
  <2> QED  BY <1>2, <2>1, <2>4, <2>5 DEF CycleIInv, CycleInv
<1> QED  BY <1>4, <1>5, <1>6

(* A tick without data: the candidate is lost, the silence grows.          *)
LEMMA SilentTick ==
  ASSUME CycleIInv, NEW s \in ScaleShown, NEW d \in 1 .. MaxGap, cstate \in WaitingState,
         ~s.ok, CycleNoData(d), CycleSees(s, d)
  PROVE  CycleIInv'
<1> DEFINE since == IF noDataFor = 0 THEN 1 ELSE CappedTime(noDataFor + d)
<1>1. /\ d \in Nat /\ d # 0 /\ 1 <= LongestWait /\ LongestWait \in Nat /\ NoDataTimeout \in Nat
      /\ noDataFor \in Nat /\ inPhase \in Nat /\ steadyFor \in Nat
      /\ noDataFor + 1 <= noDataFor + d
  BY CycleBounds, CapFacts DEF CycleIInv, CycleInv, CycleTypeOK
<1>2. since \in 0 .. LongestWait /\ since # 0
  BY <1>1, CapFacts DEF CappedTime
<1>3. ShownType' /\ shownBefore'.quiet = since
  BY <1>1, Seen DEF CycleIInv, Memory
<1>4. "none" \notin Load  BY LoadAssumption
<1> HIDE DEF since
<1>5. CASE since > NoDataTimeout + 1
  <2>1. /\ cstate' = "done" /\ cycleResult' = "offline"
        /\ UNCHANGED <<inPhase, steadyWeight, steadyFor, noDataFor>>
    BY <1>5 DEF CycleNoData, FinishCycle, since
  <2> QED
    BY <1>1, <1>3, <1>5, <2>1 DEF CycleIInv, CycleInv, CycleTypeOK, CapturedWeightStood,
         VerdictIsJust, Memory, WaitingState
<1>6. CASE ~(since > NoDataTimeout + 1)
  <2>1. /\ noDataFor' = since /\ UNCHANGED <<cstate, cycleResult>>
        /\ steadyWeight' = IF noDataFor = 0 THEN "none" ELSE steadyWeight
        /\ inPhase' = CappedTime(inPhase + d) /\ steadyFor' = CappedTime(steadyFor + d)
    BY <1>6 DEF CycleNoData, StayFor, CandidateAfterGap, since
  <2>2. steadyWeight' = "none"  BY <2>1 DEF CycleIInv, Memory
  <2>3. inPhase' \in 0 .. LongestWait /\ steadyFor' \in 0 .. LongestWait
    BY <1>1, <2>1, CapFacts
  <2>4. cstate # "done" /\ cycleResult = "none"
    BY DEF WaitingState, CycleIInv, CycleInv, CycleTypeOK
  <2>5. CycleTypeOK'
    BY <1>2, <2>1, <2>2, <2>3 DEF CycleIInv, CycleInv, CycleTypeOK
  <2> QED
    BY <1>2, <1>3, <1>4, <2>1, <2>2, <2>4, <2>5 DEF CycleIInv, CycleInv, CapturedWeightStood,
         VerdictIsJust, Memory, WaitingState
<1> QED  BY <1>5, <1>6

(* Every tick of the automaton keeps it, whatever the indicator gave since *)
(* the last one.                                                           *)
THEOREM CycleKeeps == CycleIInv /\ [CycleNext]_cycleVars => CycleIInv'
<1> SUFFICES ASSUME CycleIInv, [CycleNext]_cycleVars PROVE CycleIInv'
  OBVIOUS
<1> USE DEF CycleIInv
<1>1. CASE CycleStart
  BY <1>1, CapFacts DEF CycleStart, CycleInv, CycleTypeOK, CapturedWeightStood, VerdictIsJust,
       Memory, ShownType, WaitingState
<1>2. CASE CompleteCapture
  BY <1>2 DEF CompleteCapture, FinishCycle, CycleInv, CycleTypeOK, CapturedWeightStood,
       VerdictIsJust, Memory, ShownType, WaitingState
<1>3. CASE AbortCycle
  BY <1>3 DEF AbortCycle, FinishCycle, CycleInv, CycleTypeOK, CapturedWeightStood,
       VerdictIsJust, Memory, ShownType, WaitingState
<1>4. ASSUME NEW s \in ScaleShown, NEW d \in 1 .. MaxGap, CycleTick(s, d)
      PROVE  CycleIInv'
  BY <1>4, DataTick, SilentTick DEF CycleTick
<1>5. CASE UNCHANGED cycleVars
  BY <1>5 DEF cycleVars, CycleInv, CycleTypeOK, CapturedWeightStood, VerdictIsJust, Memory,
       ShownType
<1> QED  BY <1>1, <1>2, <1>3, <1>4, <1>5 DEF CycleNext

(* A weight that is captured stood for stable_duration_s at every tick,    *)
(* and an error blames what the ticks showed (the phases of tick).                     *)
THEOREM CycleInvariant == CycleSpec => []CycleInv
<1>1. CycleIInv => CycleInv  BY DEF CycleIInv
<1> QED  BY <1>1, CycleStarts, CycleKeeps, PTL DEF CycleSpec

-----------------------------------------------------------------------------
(***************************************************************************)
(* ManualInv of ManualFlow for any tabs, cameras, operations and faults.   *)
(***************************************************************************)

OrderPlace == {"idle", "shots", "files", "tare", "swap", "remove", "commit", "told"}
Order ==
  [id : 0 .. MaxOrders, at : OrderPlace, kind : ManualKind, stand : 0 .. MaxStands,
   netto : {"none", "counted"}, old : 0 .. MaxOrders,
   answer : {"none", "saved", "refused", "lost"}]

Ghosts ==
  [ids : SUBSET (0 .. MaxOrders), stands : 0 .. MaxStands, orders : 0 .. MaxOrders, faults : Nat]

NoPreviewYet(t)  == manualOrder[t].at \in {"shots", "files", "tare", "swap"}
PreviewTaken(t)  == manualOrder[t].at \in {"remove", "commit"}
HasRecord(n)     == \E r \in manualJournal : r.id = n
HasAllFiles(n)   == FilesOf(n) \subseteq shotFiles
FilesGoneOf(n)   == n \in ghosts.ids \/ \A f \in shotFiles : f[1] # n

ManualTypes ==
  /\ ManualTypeOK
  /\ manualOrder \in [Tab -> Order]
  /\ ghosts \in Ghosts

(* A number is given once; everything under a number came after it.        *)
NumbersOnce ==
  /\ pendingPreview <= ghosts.orders
  /\ \A r \in manualJournal : r.id <= ghosts.orders
  /\ \A t \in Tab : manualOrder[t].at # "idle" =>
       manualOrder[t].id \in 1 .. ghosts.orders /\ manualOrder[t].stand # 0
  /\ \A t \in Tab : manualOrder[t].old <= ghosts.orders
  /\ \A t, u \in Tab : t # u /\ manualOrder[t].at # "idle" /\ manualOrder[u].at # "idle" =>
       manualOrder[t].id # manualOrder[u].id

(* What may still be saved or thrown away is not in the journal.           *)
NotSavedYet ==
  /\ ~HasRecord(pendingPreview)
  /\ \A t \in Tab :
       /\ NoPreviewYet(t) \/ PreviewTaken(t) => ~HasRecord(manualOrder[t].id)
       /\ AtStep(t, "remove") => ~HasRecord(manualOrder[t].old)

(* The preview that was replaced is neither the pending one nor one to be. *)
ReplacedForGood ==
  \A t \in Tab :
    /\ NoPreviewYet(t) => manualOrder[t].id # pendingPreview /\ manualOrder[t].old = 0
    /\ AtStep(t, "remove") => manualOrder[t].old # 0 /\ manualOrder[t].old # pendingPreview
    /\ PreviewTaken(t) =>
         \A u \in Tab : NoPreviewYet(u) => manualOrder[u].id # manualOrder[t].old

PreviewHasFiles ==
  /\ pendingPreview # 0 => HasAllFiles(pendingPreview)
  /\ \A t \in Tab : manualOrder[t].at \in {"tare", "swap"} => HasAllFiles(manualOrder[t].id)

(* Files of a replaced preview wait for the one who replaced it.           *)
ReplacedIsCleared ==
  \A t \in Tab :
    /\ AtStep(t, "commit") => FilesGoneOf(manualOrder[t].old)
    /\ PreviewTaken(t) /\ ~IsPending(t) =>
         \/ FilesGoneOf(manualOrder[t].id)
         \/ \E u \in Tab : AtStep(u, "remove") /\ manualOrder[u].old = manualOrder[t].id

ManualIInv ==
  /\ ManualTypes /\ NumbersOnce /\ NotSavedYet /\ ReplacedForGood /\ PreviewHasFiles
  /\ ReplacedIsCleared /\ RecordKeepsItsPhotos /\ FilesHaveOwners /\ PageTellsJournal

LEMMA FileFacts ==
  ASSUME NEW n \in 0 .. MaxOrders
  PROVE  /\ \A f \in OrderNumber \X ShotCamera : f \in FilesOf(n) <=> f[1] = n
         /\ n # 0 => FilesOf(n) \subseteq OrderNumber \X ShotCamera
BY ManualBounds DEF FilesOf, OrderNumber

LEMMA OrderMoved ==
  ASSUME ManualTypes, NEW t \in Tab, NEW new \in Order, OrderMoves(t, new)
  PROVE  /\ manualOrder' \in [Tab -> Order]
         /\ manualOrder'[t] = new
         /\ \A u \in Tab : u # t => manualOrder'[u] = manualOrder[u]
BY DEF ManualTypes, OrderMoves

(* One field of an operation at a time.                                    *)
LEMMA OrderUpdates ==
  ASSUME NEW o \in Order
  PROVE  /\ \A n \in 0 .. MaxOrders : [o EXCEPT !.id = n] \in Order /\ [o EXCEPT !.old = n] \in Order
         /\ \A p \in OrderPlace : [o EXCEPT !.at = p] \in Order
         /\ \A k \in ManualKind : [o EXCEPT !.kind = k] \in Order
         /\ \A s \in 0 .. MaxStands : [o EXCEPT !.stand = s] \in Order
         /\ \A w \in {"none", "counted"} : [o EXCEPT !.netto = w] \in Order
         /\ \A a \in {"none", "saved", "refused", "lost"} : [o EXCEPT !.answer = a] \in Order
<1>1. \A n \in 0 .. MaxOrders : [o EXCEPT !.id = n] \in Order /\ [o EXCEPT !.old = n] \in Order
  BY DEF Order
<1>2. \A p \in OrderPlace : [o EXCEPT !.at = p] \in Order
  BY DEF Order
<1>3. \A k \in ManualKind : [o EXCEPT !.kind = k] \in Order
  BY DEF Order
<1>4. \A s \in 0 .. MaxStands : [o EXCEPT !.stand = s] \in Order
  BY DEF Order
<1>5. \A w \in {"none", "counted"} : [o EXCEPT !.netto = w] \in Order
  BY DEF Order
<1>6. \A a \in {"none", "saved", "refused", "lost"} : [o EXCEPT !.answer = a] \in Order
  BY DEF Order
<1> QED  BY <1>1, <1>2, <1>3, <1>4, <1>5, <1>6

(* The invariant of the manual mode holds when no tab has an operation.    *)
THEOREM ManualStarts == ManualInit => ManualIInv
<1> SUFFICES ASSUME ManualInit PROVE ManualIInv
  OBVIOUS
<1>1. /\ NoOrder \in Order /\ NoOrder.at = "idle" /\ NoOrder.old = 0
      /\ 0 \in 0 .. MaxOrders /\ 0 \in 0 .. MaxStands
  BY ManualBounds DEF NoOrder, Order, OrderPlace, ManualKind
<1>2. /\ manualOrder \in [Tab -> Order]
      /\ \A t \in Tab : manualOrder[t].at = "idle" /\ manualOrder[t].old = 0
  BY <1>1 DEF ManualInit
<1>3. ManualTypes
  BY <1>1, <1>2, ManualBounds DEF Ghosts, ManualInit, ManualTypes, ManualTypeOK, OrderNumber
<1>4. NumbersOnce /\ NotSavedYet /\ ReplacedForGood /\ PreviewHasFiles /\ ReplacedIsCleared
  BY <1>2 DEF ManualInit, NumbersOnce, NotSavedYet, ReplacedForGood, PreviewHasFiles,
    ReplacedIsCleared, NoPreviewYet, PreviewTaken, AtStep, HasRecord
<1>5. RecordKeepsItsPhotos /\ FilesHaveOwners /\ PageTellsJournal
  BY <1>2 DEF ManualInit, RecordKeepsItsPhotos, FilesHaveOwners, PageTellsJournal, AtStep
<1> QED  BY <1>3, <1>4, <1>5 DEF ManualIInv

(* What goes on around the operator.                                       *)
LEMMA SurroundingsKeep ==
  ASSUME ManualIInv, VehicleMoves \/ Surroundings \/ AisCommand
  PROVE  ManualIInv'
<1>1. /\ UNCHANGED <<manualOrder, pendingPreview, shotFiles, manualJournal>>
      /\ ghosts'.ids = ghosts.ids /\ ghosts'.orders = ghosts.orders
  BY DEF Ghosts, VehicleMoves, Surroundings, AisCommand, ManualIInv, ManualTypes
<1>2. ManualTypes'
  <2>1. /\ platform \in [stand : 0 .. MaxStands, stable : BOOLEAN]
        /\ manualSite \in [link : BOOLEAN, permit : BOOLEAN]
        /\ ghosts \in Ghosts
        /\ {0, MaxStands} \subseteq Nat
    BY ManualBounds DEF ManualIInv, ManualTypes, ManualTypeOK
  <2>2. CASE VehicleMoves
    <3>1. ghosts.stands < MaxStands => ghosts.stands + 1 \in 0 .. MaxStands
      BY <2>1 DEF Ghosts
    <3>2. platform' \in [stand : 0 .. MaxStands, stable : BOOLEAN]
      <4>1. [platform EXCEPT !.stable = TRUE] \in [stand : 0 .. MaxStands, stable : BOOLEAN]
        BY <2>1
      <4>2. [stand |-> 0, stable |-> TRUE] \in [stand : 0 .. MaxStands, stable : BOOLEAN]
        BY <2>1
      <4>3. ghosts.stands < MaxStands =>
              [stand |-> ghosts.stands + 1, stable |-> FALSE] \in [stand : 0 .. MaxStands, stable : BOOLEAN]
        BY <3>1
      <4> QED  BY <2>2, <4>1, <4>2, <4>3, Zenon DEF VehicleMoves
    <3>3. ghosts' \in Ghosts
      BY <2>1, <2>2, <3>1 DEF Ghosts, VehicleMoves
    <3> QED
      BY <2>2, <3>2, <3>3 DEF VehicleMoves, ManualIInv, ManualTypes, ManualTypeOK
  <2>3. CASE Surroundings
    <3>1. manualSite' \in [link : BOOLEAN, permit : BOOLEAN]
      BY <2>1, <2>3 DEF Surroundings
    <3> QED
      BY <2>3, <3>1 DEF Surroundings, ManualIInv, ManualTypes, ManualTypeOK
  <2>4. CASE AisCommand
    BY <2>4 DEF AisCommand, ManualIInv, ManualTypes, ManualTypeOK
  <2> QED  BY <2>2, <2>3, <2>4
<1>3. NumbersOnce' /\ NotSavedYet' /\ ReplacedForGood' /\ PreviewHasFiles'
  BY <1>1 DEF ManualIInv, NumbersOnce, NotSavedYet, ReplacedForGood, PreviewHasFiles,
    NoPreviewYet, PreviewTaken, AtStep, HasRecord, HasAllFiles
<1>4. ReplacedIsCleared' /\ RecordKeepsItsPhotos' /\ FilesHaveOwners' /\ PageTellsJournal'
  BY <1>1 DEF ManualIInv, ReplacedIsCleared, RecordKeepsItsPhotos, FilesHaveOwners, PageTellsJournal,
    PreviewTaken, AtStep, IsPending, FilesGoneOf, Owned
<1> QED  BY <1>2, <1>3, <1>4 DEF ManualIInv

LEMMA PrepareKeeps ==
  ASSUME ManualIInv, NEW t \in Tab, NEW kind \in ManualKind, NEW loaded \in BOOLEAN,
         Prepare(t, kind, loaded)
  PROVE  ManualIInv'
<1> USE DEF ManualIInv
<1> DEFINE n == ghosts.orders + 1
           new == [NoOrder EXCEPT !.id = n, !.at = "shots", !.kind = kind, !.stand = platform.stand]
<1>1. /\ ghosts.orders \in 0 .. MaxOrders /\ ghosts.orders < MaxOrders
      /\ n \in 1 .. MaxOrders /\ n > ghosts.orders
      /\ platform.stand \in 1 .. MaxStands /\ platform.stand \in 0 .. MaxStands
      /\ 0 \in 0 .. MaxOrders /\ n \in 0 .. MaxOrders
  BY ManualBounds DEF Ghosts, ManualTypes, ManualTypeOK, Prepare, LoadStands
<1>2. /\ new \in Order /\ new.id = n /\ new.at = "shots" /\ new.old = 0
      /\ new.stand # 0
  <2>0. NoOrder \in Order
    BY <1>1, ManualBounds DEF NoOrder, Order, OrderPlace, ManualKind
  <2> DEFINE o1 == [NoOrder EXCEPT !.id = n]
             o2 == [o1 EXCEPT !.at = "shots"]
             o3 == [o2 EXCEPT !.kind = kind]
  <2>1. o1 \in Order  BY <1>1, <2>0, OrderUpdates
  <2>2. o2 \in Order  BY <2>1, OrderUpdates DEF OrderPlace
  <2>3. o3 \in Order  BY <2>2, OrderUpdates
  <2>4. new \in Order  BY <1>1, <2>3, OrderUpdates
  <2> QED  BY <1>1, <2>4 DEF NoOrder
<1>3. /\ manualOrder' = [manualOrder EXCEPT ![t] = new]
      /\ ghosts' = [ghosts EXCEPT !.orders = n]
      /\ UNCHANGED <<platform, manualSite, ais, pendingPreview, shotFiles, manualJournal>>
      /\ manualOrder[t].at \in {"idle", "told"}
  BY DEF Prepare
<1> HIDE DEF new
<1>4. /\ manualOrder' \in [Tab -> Order] /\ manualOrder'[t] = new
      /\ \A u \in Tab : u # t => manualOrder'[u] = manualOrder[u]
      /\ ghosts'.ids = ghosts.ids /\ ghosts'.orders = n
  BY <1>2, <1>3 DEF ManualTypes
<1>5. ManualTypes'
  BY <1>1, <1>3, <1>4, ManualBounds DEF Ghosts, ManualTypes, ManualTypeOK
<1>6. /\ manualOrder \in [Tab -> Order]
      /\ pendingPreview \in 0 .. MaxOrders
      /\ manualJournal \subseteq [id : OrderNumber, stand : 1 .. MaxStands, netto : {"none", "counted"}]
      /\ \A u \in Tab : manualOrder[u].id \in Nat /\ manualOrder[u].old \in Nat
  BY ManualBounds DEF ManualTypes, ManualTypeOK, Order, OrderNumber
<1>7. ~HasRecord(n) /\ pendingPreview # n /\ \A u \in Tab : manualOrder[u].old # n
  BY <1>1, <1>6 DEF HasRecord, NumbersOnce, OrderNumber
<1>8. \A u \in Tab : u # t /\ manualOrder[u].at # "idle" => manualOrder[u].id # n
  BY <1>1, <1>6 DEF NumbersOnce
<1>9. NumbersOnce'
  <2>1. \A r \in manualJournal' : r.id <= n
    BY <1>1, <1>3, <1>6 DEF NumbersOnce, OrderNumber
  <2>2. \A u \in Tab : manualOrder'[u].at # "idle" =>
           manualOrder'[u].id \in 1 .. n /\ manualOrder'[u].stand # 0
    BY <1>1, <1>2, <1>4, <1>6 DEF NumbersOnce
  <2>3. pendingPreview' <= n /\ \A u \in Tab : manualOrder'[u].old <= n
    BY <1>1, <1>2, <1>3, <1>4, <1>6 DEF NumbersOnce
  <2>4. \A u, v \in Tab : u # v /\ manualOrder'[u].at # "idle" /\ manualOrder'[v].at # "idle" =>
           manualOrder'[u].id # manualOrder'[v].id
    BY <1>2, <1>4, <1>8 DEF NumbersOnce
  <2> QED  BY <1>4, <2>1, <2>2, <2>3, <2>4 DEF NumbersOnce
<1>10. NotSavedYet'
  BY <1>2, <1>3, <1>4, <1>7 DEF NotSavedYet, HasRecord, NoPreviewYet, PreviewTaken, AtStep
<1>11. ReplacedForGood'
  BY <1>2, <1>3, <1>4, <1>7 DEF ReplacedForGood, NoPreviewYet, PreviewTaken, AtStep
<1>12. PreviewHasFiles'
  BY <1>2, <1>3, <1>4 DEF PreviewHasFiles, HasAllFiles
<1>13. ReplacedIsCleared'
  BY <1>2, <1>3, <1>4 DEF ReplacedIsCleared, AtStep, PreviewTaken, IsPending, FilesGoneOf
<1>14. RecordKeepsItsPhotos' /\ FilesHaveOwners'
  BY <1>2, <1>3, <1>4 DEF RecordKeepsItsPhotos, FilesHaveOwners, Owned
<1>15. PageTellsJournal'
  BY <1>2, <1>3, <1>4 DEF PageTellsJournal, AtStep
<1> QED  BY <1>5, <1>9, <1>10, <1>11, <1>12, <1>13, <1>14, <1>15

(* A tab that goes on with its operation, or ends it.                      *)
SameOperation(t) ==
  /\ manualOrder' \in [Tab -> Order]
  /\ manualOrder'[t].id = manualOrder[t].id
  /\ manualOrder'[t].stand = manualOrder[t].stand
  /\ \A u \in Tab : u # t => manualOrder'[u] = manualOrder[u]

LEMMA GoesOn ==
  ASSUME ManualTypes, NEW t \in Tab, NEW place \in OrderPlace,
         OrderMoves(t, [manualOrder[t] EXCEPT !.at = place])
  PROVE  /\ SameOperation(t)
         /\ manualOrder'[t].at = place /\ manualOrder'[t].old = manualOrder[t].old
         /\ manualOrder'[t].netto = manualOrder[t].netto
<1> DEFINE new == [manualOrder[t] EXCEPT !.at = place]
<1>1. manualOrder[t] \in Order  BY DEF ManualTypes
<1>2. new \in Order  BY <1>1, OrderUpdates
<1>3. /\ new.at = place /\ new.id = manualOrder[t].id /\ new.stand = manualOrder[t].stand
      /\ new.old = manualOrder[t].old /\ new.netto = manualOrder[t].netto
  BY <1>1 DEF Order
<1>4. OrderMoves(t, new)  OBVIOUS
<1> HIDE DEF new
<1> QED  BY <1>2, <1>3, <1>4, OrderMoved DEF SameOperation

LEMMA IsTold ==
  ASSUME ManualTypes, NEW t \in Tab, NEW what \in {"saved", "refused"}, AnswersPage(t, what)
  PROVE  /\ SameOperation(t)
         /\ manualOrder'[t].at = "told" /\ manualOrder'[t].old = manualOrder[t].old
         /\ manualOrder'[t].answer = what
<1> DEFINE told == [manualOrder[t] EXCEPT !.at = "told"]
           new == [told EXCEPT !.answer = what]
<1>1. manualOrder[t] \in Order  BY DEF ManualTypes
<1>2. told \in Order  BY <1>1, OrderUpdates DEF OrderPlace
<1>3. new \in Order  BY <1>2, OrderUpdates
<1>4. /\ new.at = "told" /\ new.id = manualOrder[t].id /\ new.stand = manualOrder[t].stand
      /\ new.old = manualOrder[t].old /\ new.answer = what
  BY <1>1 DEF Order
<1>5. OrderMoves(t, new)  BY DEF AnswersPage
<1> HIDE DEF new
<1> QED  BY <1>3, <1>4, <1>5, OrderMoved DEF SameOperation

LEMMA NumbersStay ==
  ASSUME ManualIInv, NEW t \in Tab, SameOperation(t), manualOrder[t].at # "idle",
         manualOrder'[t].old \in {manualOrder[t].old, pendingPreview},
         pendingPreview' \in {0, pendingPreview, manualOrder[t].id},
         \A r \in manualJournal' : r \in manualJournal \/ r.id = manualOrder[t].id,
         ghosts'.orders = ghosts.orders
  PROVE  NumbersOnce'
<1> USE DEF ManualIInv
<1>1. /\ ghosts.orders \in Nat /\ pendingPreview \in Nat
      /\ \A u \in Tab : manualOrder[u].id \in Nat
  BY ManualBounds DEF Ghosts, ManualTypes, ManualTypeOK, Order, OrderNumber
<1>2. manualOrder[t].id \in 1 .. ghosts.orders /\ manualOrder[t].stand # 0
  BY DEF NumbersOnce
<1>3. pendingPreview' <= ghosts.orders
  BY <1>1, <1>2 DEF NumbersOnce
<1>4. \A r \in manualJournal' : r.id <= ghosts.orders
  BY <1>1, <1>2 DEF NumbersOnce
<1>5. \A u \in Tab : manualOrder'[u].at # "idle" =>
         manualOrder'[u].id \in 1 .. ghosts.orders /\ manualOrder'[u].stand # 0
  BY <1>2 DEF NumbersOnce, SameOperation
<1>6. \A u \in Tab : manualOrder'[u].old <= ghosts.orders
  BY DEF NumbersOnce, SameOperation
<1>7. \A u, v \in Tab : u # v /\ manualOrder'[u].at # "idle" /\ manualOrder'[v].at # "idle" =>
         manualOrder'[u].id # manualOrder'[v].id
  BY DEF NumbersOnce, SameOperation
<1> QED  BY <1>3, <1>4, <1>5, <1>6, <1>7 DEF NumbersOnce

LEMMA FaultsCount ==
  ASSUME ghosts \in Ghosts
  PROVE  /\ ManualFault => ghosts' \in Ghosts /\ ghosts'.ids = ghosts.ids /\ ghosts'.orders = ghosts.orders
         /\ \A n \in 0 .. MaxOrders : DiskFaultOf(n) =>
              /\ ghosts' \in Ghosts /\ ghosts'.orders = ghosts.orders
              /\ ghosts'.ids = ghosts.ids \cup {n}
<1> DEFINE more == [ghosts EXCEPT !.faults = @ + 1]
<1>1. /\ more \in Ghosts /\ more.ids = ghosts.ids /\ more.orders = ghosts.orders
  BY DEF Ghosts
<1>2. ASSUME NEW n \in 0 .. MaxOrders, DiskFaultOf(n)
      PROVE  ghosts' \in Ghosts /\ ghosts'.orders = ghosts.orders /\ ghosts'.ids = ghosts.ids \cup {n}
  <2> DEFINE new == [more EXCEPT !.ids = @ \cup {n}]
  <2>1. ghosts' = new  BY <1>2 DEF DiskFaultOf
  <2> HIDE DEF more
  <2>2. new \in Ghosts /\ new.orders = more.orders /\ new.ids = more.ids \cup {n}
    BY <1>1 DEF Ghosts
  <2> QED  BY <1>1, <2>1, <2>2
<1>3. ManualFault => ghosts' = more  BY DEF ManualFault
<1> HIDE DEF more
<1> QED  BY <1>1, <1>2, <1>3

LEMMA ShootAllKeeps ==
  ASSUME ManualIInv, NEW t \in Tab, ShootAll(t)
  PROVE  ManualIInv'
<1> USE DEF ManualIInv
<1>1. /\ SameOperation(t) /\ manualOrder'[t].old = manualOrder[t].old
      /\ \/ manualOrder'[t].at = "files"
         \/ manualOrder'[t].at = "told" /\ manualOrder'[t].answer = "refused"
  <2>1. CASE OrderMoves(t, [manualOrder[t] EXCEPT !.at = "files"])
    BY <2>1, GoesOn DEF OrderPlace
  <2>2. CASE AnswersPage(t, "refused")
    BY <2>2, IsTold
  <2> QED  BY <2>1, <2>2 DEF ShootAll
<1>2. /\ UNCHANGED <<platform, manualSite, ais, pendingPreview, shotFiles, manualJournal, ghosts>>
      /\ manualOrder[t].at = "shots"
  BY DEF ShootAll, AtStep
<1>3. ManualTypes'
  BY <1>1, <1>2 DEF ManualTypes, ManualTypeOK, SameOperation
<1>4. NumbersOnce'
  BY <1>1, <1>2, NumbersStay
<1>5. NotSavedYet' /\ ReplacedForGood'
  BY <1>1, <1>2 DEF NotSavedYet, ReplacedForGood, HasRecord, NoPreviewYet, PreviewTaken, AtStep, SameOperation
<1>6. PreviewHasFiles' /\ ReplacedIsCleared'
  BY <1>1, <1>2 DEF PreviewHasFiles, HasAllFiles, ReplacedIsCleared, AtStep, PreviewTaken, IsPending,
    FilesGoneOf, SameOperation
<1>7. RecordKeepsItsPhotos' /\ FilesHaveOwners'
  BY <1>1, <1>2 DEF RecordKeepsItsPhotos, FilesHaveOwners, Owned, SameOperation
<1>8. PageTellsJournal'
  BY <1>1, <1>2 DEF PageTellsJournal, AtStep, NotSavedYet, NoPreviewYet, HasRecord, SameOperation
<1> QED  BY <1>3, <1>4, <1>5, <1>6, <1>7, <1>8

LEMMA StoreShotsKeeps ==
  ASSUME ManualIInv, NEW t \in Tab, StoreShots(t)
  PROVE  ManualIInv'
<1> USE DEF ManualIInv
<1> DEFINE n == manualOrder[t].id
<1>0. /\ manualOrder[t].at = "files" /\ n \in 1 .. MaxOrders /\ n \in 0 .. MaxOrders
      /\ shotFiles \subseteq OrderNumber \X ShotCamera /\ MaxOrders \in Nat
  <2>1. ghosts.orders \in 0 .. MaxOrders /\ MaxOrders \in Nat  BY ManualBounds DEF Ghosts, ManualTypes
  <2> QED  BY <2>1 DEF StoreShots, AtStep, NumbersOnce, ManualTypes, ManualTypeOK
<1>1. /\ UNCHANGED <<platform, manualSite, ais, pendingPreview, manualJournal>>
      /\ ghosts'.orders = ghosts.orders
      /\ SameOperation(t) /\ manualOrder'[t].old = manualOrder[t].old
      /\ \/ /\ shotFiles' = shotFiles \cup FilesOf(n)
            /\ manualOrder'[t].at = "tare" /\ ghosts' = ghosts
         \/ /\ manualOrder'[t].at = "told" /\ manualOrder'[t].answer = "refused"
            /\ ghosts'.ids = ghosts.ids \cup {n}
            /\ \E part \in SUBSET FilesOf(n) : shotFiles' = shotFiles \cup part
  <2>1. CASE /\ shotFiles' = shotFiles \cup FilesOf(n)
             /\ OrderMoves(t, [manualOrder[t] EXCEPT !.at = "tare"])
             /\ UNCHANGED ghosts
    BY <2>1, GoesOn DEF StoreShots, OrderPlace
  <2>2. CASE /\ DiskFaultOf(n)
             /\ \E part \in SUBSET FilesOf(n) :
                  part # FilesOf(n) /\ shotFiles' = shotFiles \cup part
             /\ AnswersPage(t, "refused")
    BY <1>0, <2>2, IsTold, FaultsCount DEF StoreShots, ManualTypes
  <2> QED  BY <2>1, <2>2 DEF StoreShots
<1>2. /\ shotFiles \subseteq shotFiles' /\ shotFiles' \subseteq OrderNumber \X ShotCamera
      /\ \A f \in shotFiles' : f \in shotFiles \/ f[1] = n
      /\ ghosts.ids \subseteq ghosts'.ids
  BY <1>0, <1>1, FileFacts
<1>3. \A u \in Tab : u # t /\ manualOrder[u].at # "idle" => manualOrder[u].id # n
  BY <1>0 DEF NumbersOnce
<1>4. /\ n # pendingPreview /\ ~HasRecord(n)
      /\ \A u \in Tab : PreviewTaken(u) => manualOrder[u].old # n
  BY <1>0 DEF NotSavedYet, ReplacedForGood, NoPreviewYet
<1>5. ManualTypes'
  <2>1. ghosts' \in Ghosts
    BY <1>0, FaultsCount DEF StoreShots, ManualTypes
  <2> QED  BY <1>1, <1>2, <2>1 DEF ManualTypes, ManualTypeOK, SameOperation
<1>6. NumbersOnce'
  BY <1>0, <1>1, NumbersStay
<1>7. NotSavedYet' /\ ReplacedForGood'
  BY <1>0, <1>1 DEF NotSavedYet, ReplacedForGood, HasRecord, NoPreviewYet, PreviewTaken, AtStep, SameOperation
<1>8. PreviewHasFiles'
  BY <1>0, <1>1, <1>2 DEF PreviewHasFiles, HasAllFiles, SameOperation
<1>9. ReplacedIsCleared'
  BY <1>0, <1>1, <1>2, <1>3, <1>4 DEF ReplacedIsCleared, AtStep, PreviewTaken, IsPending, FilesGoneOf, SameOperation
<1>10. RecordKeepsItsPhotos'
  BY <1>1, <1>2 DEF RecordKeepsItsPhotos
<1>11. FilesHaveOwners'
  BY <1>0, <1>1, <1>2 DEF FilesHaveOwners, Owned, SameOperation
<1>12. PageTellsJournal'
  BY <1>0, <1>1, <1>4 DEF PageTellsJournal, AtStep, HasRecord, SameOperation
<1> QED  BY <1>5, <1>6, <1>7, <1>8, <1>9, <1>10, <1>11, <1>12

LEMMA LookUpTareKeeps ==
  ASSUME ManualIInv, NEW t \in Tab, LookUpTare(t)
  PROVE  ManualIInv'
<1> USE DEF ManualIInv
<1>1. /\ UNCHANGED <<platform, manualSite, ais, pendingPreview, shotFiles, manualJournal, ghosts>>
      /\ manualOrder[t].at = "tare"
  BY DEF LookUpTare, AtStep
<1>2. SameOperation(t) /\ manualOrder'[t].at = "swap" /\ manualOrder'[t].old = manualOrder[t].old
  <2>1. PICK tare \in TareFound :
          OrderMoves(t, [manualOrder[t] EXCEPT !.at = "swap",
                           !.netto = IF manualOrder[t].kind = "weighing" /\ tare = "valid"
                                     THEN "counted" ELSE "none"])
    BY DEF LookUpTare
  <2> DEFINE netto == IF manualOrder[t].kind = "weighing" /\ tare = "valid" THEN "counted" ELSE "none"
             next == [manualOrder[t] EXCEPT !.at = "swap"]
             new == [next EXCEPT !.netto = netto]
  <2>2. OrderMoves(t, new)  BY <2>1
  <2>3. netto \in {"none", "counted"}  OBVIOUS
  <2> HIDE DEF netto
  <2>4. manualOrder[t] \in Order  BY DEF ManualTypes
  <2>5. next \in Order  BY <2>4, OrderUpdates DEF OrderPlace
  <2>6. new \in Order  BY <2>3, <2>5, OrderUpdates
  <2>7. /\ new.id = manualOrder[t].id /\ new.stand = manualOrder[t].stand
        /\ new.old = manualOrder[t].old /\ new.at = "swap"
    BY <2>4 DEF Order
  <2> HIDE DEF new
  <2> QED  BY <2>2, <2>6, <2>7, OrderMoved DEF SameOperation
<1>3. ManualTypes'
  BY <1>1, <1>2 DEF ManualTypes, ManualTypeOK, SameOperation
<1>4. NumbersOnce'
  BY <1>1, <1>2, NumbersStay
<1>5. NotSavedYet' /\ ReplacedForGood'
  BY <1>1, <1>2 DEF NotSavedYet, ReplacedForGood, HasRecord, NoPreviewYet, PreviewTaken, AtStep, SameOperation
<1>6. PreviewHasFiles' /\ ReplacedIsCleared'
  BY <1>1, <1>2 DEF PreviewHasFiles, HasAllFiles, ReplacedIsCleared, AtStep, PreviewTaken, IsPending,
    FilesGoneOf, SameOperation
<1>7. RecordKeepsItsPhotos' /\ FilesHaveOwners'
  BY <1>1, <1>2 DEF RecordKeepsItsPhotos, FilesHaveOwners, Owned, SameOperation
<1>8. PageTellsJournal'
  BY <1>1, <1>2 DEF PageTellsJournal, AtStep, SameOperation
<1> QED  BY <1>3, <1>4, <1>5, <1>6, <1>7, <1>8

LEMMA SwapPreviewKeeps ==
  ASSUME ManualIInv, NEW t \in Tab, SwapPreview(t)
  PROVE  ManualIInv'
<1> USE DEF ManualIInv
<1> DEFINE n == manualOrder[t].id
           place == IF pendingPreview # 0 THEN "remove" ELSE "commit"
<1>1. /\ UNCHANGED <<platform, manualSite, ais, shotFiles, manualJournal, ghosts>>
      /\ pendingPreview' = n
      /\ manualOrder[t].at = "swap"
  BY DEF SwapPreview, AtStep
<1>2. /\ pendingPreview \in 0 .. MaxOrders /\ n \in 1 .. MaxOrders /\ n \in OrderNumber
      /\ shotFiles \subseteq OrderNumber \X ShotCamera
  <2>1. ghosts.orders \in 0 .. MaxOrders /\ MaxOrders \in Nat  BY ManualBounds DEF ManualTypes, Ghosts
  <2> QED  BY <1>1, <2>1 DEF NumbersOnce, ManualTypes, ManualTypeOK, OrderNumber
<1>3. SameOperation(t) /\ manualOrder'[t].at = place /\ manualOrder'[t].old = pendingPreview
  <2>1. place \in {"remove", "commit"}  OBVIOUS
  <2> DEFINE next == [manualOrder[t] EXCEPT !.at = place]
             new == [next EXCEPT !.old = pendingPreview]
  <2>2. OrderMoves(t, new)  BY DEF SwapPreview
  <2> HIDE DEF place
  <2>4. manualOrder[t] \in Order  BY DEF ManualTypes
  <2>5. next \in Order  BY <2>1, <2>4, OrderUpdates DEF OrderPlace
  <2>6. new \in Order  BY <1>2, <2>5, OrderUpdates
  <2>7. /\ new.id = manualOrder[t].id /\ new.stand = manualOrder[t].stand
        /\ new.old = pendingPreview /\ new.at = place
    BY <2>4 DEF Order
  <2> HIDE DEF new
  <2> QED  BY <2>2, <2>6, <2>7, OrderMoved DEF SameOperation
<1>4. ManualTypes'
  BY <1>1, <1>2, <1>3 DEF ManualTypes, ManualTypeOK, SameOperation
<1>5. NumbersOnce'
  BY <1>1, <1>3, NumbersStay
<1>6. \A u \in Tab : u # t /\ manualOrder[u].at # "idle" => manualOrder[u].id # n
  BY <1>1 DEF NumbersOnce
<1>7. ~HasRecord(n) /\ n # pendingPreview /\ \A u \in Tab : PreviewTaken(u) => manualOrder[u].old # n
  BY <1>1 DEF NotSavedYet, ReplacedForGood, NoPreviewYet
<1>8. NotSavedYet'
  BY <1>1, <1>3, <1>7 DEF NotSavedYet, HasRecord, NoPreviewYet, PreviewTaken, AtStep, SameOperation
<1>9. ReplacedForGood'
  <2>1. ASSUME NEW u \in Tab, NoPreviewYet(u)'
        PROVE  /\ manualOrder'[u].id # n /\ manualOrder'[u].id # pendingPreview
               /\ manualOrder'[u].old = 0
    <3>1. u # t /\ NoPreviewYet(u)  BY <1>3, <2>1 DEF NoPreviewYet, SameOperation
    <3> QED  BY <1>3, <1>6, <3>1 DEF SameOperation, NoPreviewYet, ReplacedForGood
  <2>2. ASSUME NEW u \in Tab, AtStep(u, "remove")' PROVE manualOrder'[u].old # 0 /\ manualOrder'[u].old # n
    <3>1. CASE u = t  BY <1>3, <1>7, <2>2, <3>1 DEF AtStep
    <3>2. CASE u # t  BY <1>3, <1>7, <2>2, <3>2 DEF AtStep, SameOperation, ReplacedForGood, PreviewTaken
    <3> QED  BY <3>1, <3>2
  <2>3. ASSUME NEW u \in Tab, PreviewTaken(u)', NEW v \in Tab, NoPreviewYet(v)'
        PROVE  manualOrder'[v].id # manualOrder'[u].old
    <3>1. v # t /\ NoPreviewYet(v) /\ manualOrder'[v] = manualOrder[v]
      BY <1>3, <2>3 DEF NoPreviewYet, SameOperation
    <3>2. CASE u = t  BY <1>3, <2>1, <2>3, <3>2
    <3>3. CASE u # t  BY <1>3, <2>3, <3>1, <3>3 DEF SameOperation, PreviewTaken, ReplacedForGood
    <3> QED  BY <3>2, <3>3
  <2> QED  BY <1>1, <2>1, <2>2, <2>3 DEF ReplacedForGood
<1>10. PreviewHasFiles'
  BY <1>1, <1>3 DEF PreviewHasFiles, HasAllFiles, SameOperation
<1>11. ReplacedIsCleared'
  <2>1. ASSUME NEW u \in Tab, AtStep(u, "commit")' PROVE FilesGoneOf(manualOrder[u].old)' 
    <3>1. CASE u = t
      <4>1. pendingPreview = 0 /\ manualOrder'[t].old = 0  BY <1>3, <2>1, <3>1 DEF AtStep
      <4>2. \A f \in shotFiles : f[1] # 0  BY <1>2 DEF OrderNumber
      <4> QED  BY <1>1, <3>1, <4>1, <4>2 DEF FilesGoneOf
    <3>2. CASE u # t
      BY <1>1, <1>3, <2>1, <3>2 DEF AtStep, SameOperation, FilesGoneOf, ReplacedIsCleared
    <3> QED  BY <3>1, <3>2
  <2>2. ASSUME NEW u \in Tab, PreviewTaken(u)', ~IsPending(u)'
        PROVE  \/ FilesGoneOf(manualOrder[u].id)'
               \/ \E v \in Tab : AtStep(v, "remove")' /\ manualOrder'[v].old = manualOrder'[u].id
    <3>1. u # t /\ manualOrder'[u] = manualOrder[u] /\ PreviewTaken(u)
      BY <1>1, <1>3, <2>2 DEF SameOperation, IsPending, PreviewTaken
    <3>2. CASE IsPending(u)
      BY <1>3, <3>1, <3>2, <1>2, <1>6 DEF IsPending, AtStep, PreviewTaken, NumbersOnce
    <3>3. CASE ~IsPending(u)
      BY <1>1, <1>3, <3>1, <3>3 DEF ReplacedIsCleared, FilesGoneOf, AtStep, SameOperation
    <3> QED  BY <3>2, <3>3
  <2> QED  BY <2>1, <2>2 DEF ReplacedIsCleared
<1>12. RecordKeepsItsPhotos'
  BY <1>1 DEF RecordKeepsItsPhotos
<1>13. FilesHaveOwners'
  <2>1. SUFFICES ASSUME NEW f \in shotFiles, f \notin Owned, f[1] # n, f[1] \notin ghosts.ids
                 PROVE  \E u \in Tab : /\ manualOrder'[u].at \in {"tare", "swap", "remove", "commit"}
                                       /\ f[1] \in {manualOrder'[u].id, manualOrder'[u].old}
    BY <1>1 DEF FilesHaveOwners, Owned
  <2>2. f[1] # 0  BY <1>2 DEF OrderNumber
  <2>3. CASE f[1] = pendingPreview
    BY <1>3, <2>2, <2>3
  <2>4. CASE f[1] # pendingPreview
    <3>1. PICK u \in Tab : /\ manualOrder[u].at \in {"tare", "swap", "remove", "commit"}
                           /\ f[1] \in {manualOrder[u].id, manualOrder[u].old}
      BY <2>1, <2>4 DEF FilesHaveOwners
    <3>2. u # t  BY <1>1, <2>1, <2>2, <3>1 DEF ReplacedForGood, NoPreviewYet
    <3> QED  BY <1>3, <3>1, <3>2 DEF SameOperation
  <2> QED  BY <2>3, <2>4
<1>14. PageTellsJournal'
  BY <1>1, <1>3 DEF PageTellsJournal, AtStep, SameOperation
<1> QED  BY <1>4, <1>5, <1>8, <1>9, <1>10, <1>11, <1>12, <1>13, <1>14

LEMMA RemoveOldKeeps ==
  ASSUME ManualIInv, NEW t \in Tab, RemoveOld(t)
  PROVE  ManualIInv'
<1> USE DEF ManualIInv
<1> DEFINE n == manualOrder[t].old
<1>0. /\ manualOrder[t].at = "remove" /\ n \in 0 .. MaxOrders
      /\ shotFiles \subseteq OrderNumber \X ShotCamera
  BY DEF RemoveOld, AtStep, ManualTypes, ManualTypeOK, Order
<1>1. /\ UNCHANGED <<platform, manualSite, ais, pendingPreview, manualJournal>>
      /\ SameOperation(t) /\ manualOrder'[t].at = "commit" /\ manualOrder'[t].old = n
  BY GoesOn DEF RemoveOld, OrderPlace
<1>2. /\ ghosts' \in Ghosts /\ ghosts'.orders = ghosts.orders /\ ghosts.ids \subseteq ghosts'.ids
      /\ shotFiles' \subseteq shotFiles
      /\ \A f \in shotFiles : f \in shotFiles' \/ f[1] = n
      /\ n \in ghosts'.ids \/ \A f \in shotFiles' : f[1] # n
  <2>0. ghosts \in Ghosts  BY DEF ManualTypes
  <2>1. CASE shotFiles' = shotFiles \ FilesOf(n) /\ UNCHANGED ghosts
    <3>1. \A f \in shotFiles : f \in FilesOf(n) <=> f[1] = n  BY <1>0, FileFacts
    <3>2. \A f \in shotFiles' : f[1] # n  BY <2>1, <3>1
    <3> QED  BY <2>0, <2>1, <3>1, <3>2 DEF FilesGoneOf
  <2>2. CASE DiskFaultOf(n) /\ UNCHANGED shotFiles
    <3>1. /\ ghosts' \in Ghosts /\ ghosts'.orders = ghosts.orders
          /\ ghosts'.ids = ghosts.ids \cup {n}
      BY <1>0, <2>0, <2>2, FaultsCount
    <3> QED  BY <2>2, <3>1 DEF FilesGoneOf
  <2> QED  BY <2>1, <2>2 DEF RemoveOld
<1>3. /\ ~HasRecord(n) /\ n # 0 /\ n # pendingPreview
      /\ \A u \in Tab : NoPreviewYet(u) => manualOrder[u].id # n
  BY <1>0 DEF NotSavedYet, ReplacedForGood, AtStep, PreviewTaken
<1>4. ManualTypes'
  BY <1>0, <1>1, <1>2 DEF ManualTypes, ManualTypeOK, SameOperation
<1>5. NumbersOnce'
  BY <1>0, <1>1, <1>2, NumbersStay
<1>6. NotSavedYet' /\ ReplacedForGood'
  BY <1>0, <1>1 DEF NotSavedYet, ReplacedForGood, HasRecord, NoPreviewYet, PreviewTaken, AtStep, SameOperation
<1>7. \A m \in 0 .. MaxOrders : m # n /\ HasAllFiles(m) => HasAllFiles(m)'
  <2>1. ASSUME NEW m \in 0 .. MaxOrders, m # n, HasAllFiles(m), NEW f \in FilesOf(m) PROVE f \in shotFiles'
    <3>1. f \in shotFiles /\ f[1] = m  BY <1>0, <2>1, FileFacts DEF HasAllFiles
    <3> QED  BY <1>2, <2>1, <3>1
  <2> QED  BY <2>1 DEF HasAllFiles
<1>8. /\ pendingPreview \in 0 .. MaxOrders /\ \A u \in Tab : manualOrder[u].id \in 0 .. MaxOrders
      /\ \A r \in manualJournal : r.id \in 0 .. MaxOrders
  BY ManualBounds DEF ManualTypes, ManualTypeOK, Order, OrderNumber
<1>9. PreviewHasFiles'
  BY <1>0, <1>1, <1>3, <1>7, <1>8 DEF PreviewHasFiles, SameOperation, NoPreviewYet
<1>10. \A m : FilesGoneOf(m) => FilesGoneOf(m)'
  BY <1>2 DEF FilesGoneOf
<1>11. ReplacedIsCleared'
  <2>1. ASSUME NEW u \in Tab, AtStep(u, "commit")' PROVE FilesGoneOf(manualOrder[u].old)'
    <3>1. CASE u = t  BY <1>1, <1>2, <3>1 DEF FilesGoneOf
    <3>2. CASE u # t
      BY <1>1, <1>10, <2>1, <3>2 DEF AtStep, SameOperation, ReplacedIsCleared, FilesGoneOf
    <3> QED  BY <3>1, <3>2
  <2>2. ASSUME NEW u \in Tab, PreviewTaken(u)', ~IsPending(u)'
        PROVE  \/ FilesGoneOf(manualOrder[u].id)'
               \/ \E v \in Tab : AtStep(v, "remove")' /\ manualOrder'[v].old = manualOrder'[u].id
    <3>1. PreviewTaken(u) /\ ~IsPending(u) /\ manualOrder'[u].id = manualOrder[u].id
      BY <1>0, <1>1, <2>2 DEF SameOperation, IsPending, PreviewTaken
    <3>2. CASE FilesGoneOf(manualOrder[u].id)
      BY <1>10, <3>1, <3>2 DEF FilesGoneOf
    <3>3. CASE ~FilesGoneOf(manualOrder[u].id)
      <4>1. PICK v \in Tab : AtStep(v, "remove") /\ manualOrder[v].old = manualOrder[u].id
        BY <3>1, <3>3 DEF ReplacedIsCleared
      <4>2. CASE v = t
        <5>1. manualOrder'[u].id = n  BY <3>1, <4>1, <4>2
        <5> QED  BY <1>2, <5>1 DEF FilesGoneOf
      <4>3. CASE v # t  BY <1>1, <3>1, <4>1, <4>3 DEF SameOperation, AtStep
      <4> QED  BY <4>2, <4>3
    <3> QED  BY <3>2, <3>3
  <2> QED  BY <2>1, <2>2 DEF ReplacedIsCleared
<1>12. RecordKeepsItsPhotos'
  <2>1. ASSUME NEW r \in manualJournal PROVE HasAllFiles(r.id)'
    BY <1>3, <1>7, <1>8 DEF RecordKeepsItsPhotos, HasRecord, HasAllFiles
  <2> QED  BY <1>1, <2>1 DEF RecordKeepsItsPhotos, HasAllFiles
<1>13. FilesHaveOwners'
  BY <1>0, <1>1, <1>2 DEF FilesHaveOwners, Owned, SameOperation
<1>14. PageTellsJournal'
  BY <1>0, <1>1 DEF PageTellsJournal, AtStep, SameOperation
<1> QED  BY <1>4, <1>5, <1>6, <1>9, <1>11, <1>12, <1>13, <1>14

LEMMA CommitPreviewKeeps ==
  ASSUME ManualIInv, NEW t \in Tab, CommitPreview(t)
  PROVE  ManualIInv'
<1> USE DEF ManualIInv
<1> DEFINE n == manualOrder[t].id
           record == [id |-> n, stand |-> manualOrder[t].stand, netto |-> manualOrder[t].netto]
<1>0. /\ manualOrder[t].at = "commit" /\ manualOrder[t] \in Order /\ ghosts \in Ghosts
      /\ n \in OrderNumber /\ manualOrder[t].stand \in 1 .. MaxStands
      /\ shotFiles \subseteq OrderNumber \X ShotCamera
  <2>1. ghosts.orders \in 0 .. MaxOrders /\ {MaxOrders, MaxStands} \subseteq Nat
    BY ManualBounds DEF ManualTypes, Ghosts
  <2>2. manualOrder[t].stand \in 0 .. MaxStands /\ manualOrder[t].stand # 0
    BY DEF CommitPreview, AtStep, ManualTypes, Order, NumbersOnce
  <2>3. n \in 1 .. ghosts.orders
    BY DEF CommitPreview, AtStep, NumbersOnce
  <2> QED  BY <2>1, <2>2, <2>3 DEF CommitPreview, AtStep, ManualTypes, ManualTypeOK, OrderNumber
<1>1. UNCHANGED <<platform, manualSite, ais, shotFiles>>
  BY DEF CommitPreview
<1>2. \E what \in {"saved", "refused"} : AnswersPage(t, what)
  BY DEF CommitPreview
<1>3. SameOperation(t) /\ manualOrder'[t].at = "told" /\ manualOrder'[t].old = manualOrder[t].old
  BY <1>2, IsTold
<1>4. \/ /\ pendingPreview = n /\ manualJournal' = manualJournal \cup {record}
         /\ pendingPreview' = 0 /\ manualOrder'[t].answer = "saved" /\ ghosts' = ghosts
      \/ /\ pendingPreview = n /\ manualOrder'[t].answer = "refused"
         /\ ghosts' \in Ghosts /\ ghosts'.ids = ghosts.ids /\ ghosts'.orders = ghosts.orders
         /\ UNCHANGED <<manualJournal, pendingPreview>>
      \/ /\ pendingPreview # n /\ manualOrder'[t].answer = "refused"
         /\ UNCHANGED <<manualJournal, pendingPreview, ghosts>>
  BY <1>0, IsTold, FaultsCount DEF CommitPreview, IsPending, Committed
<1>5. /\ ghosts' \in Ghosts /\ ghosts'.ids = ghosts.ids /\ ghosts'.orders = ghosts.orders
      /\ manualJournal \subseteq manualJournal'
      /\ \A r \in manualJournal' : r \in manualJournal \/ (r.id = n /\ pendingPreview = n)
      /\ pendingPreview' \in {0, pendingPreview}
      /\ \/ pendingPreview' = pendingPreview
         \/ \E r \in manualJournal' : r.id = n /\ r.stand = manualOrder[t].stand
      /\ manualOrder'[t].answer = "saved" =>
           \E r \in manualJournal' : r.id = n /\ r.stand = manualOrder[t].stand
  <2>1. record.id = n /\ record.stand = manualOrder[t].stand
    OBVIOUS
  <2> HIDE DEF record
  <2>2. ghosts' \in Ghosts /\ ghosts'.ids = ghosts.ids /\ ghosts'.orders = ghosts.orders
    BY <1>0, <1>4
  <2>3. CASE manualJournal' = manualJournal \cup {record} /\ pendingPreview = n /\ pendingPreview' = 0
    <3>1. record \in manualJournal'  BY <2>3
    <3> QED  BY <2>1, <2>2, <2>3, <3>1
  <2>4. CASE /\ manualJournal' = manualJournal /\ pendingPreview' = pendingPreview
             /\ manualOrder'[t].answer = "refused"
    <3>1. manualOrder'[t].answer # "saved"  BY <2>4
    <3> QED  BY <2>2, <2>4, <3>1
  <2> QED  BY <1>4, <2>3, <2>4
<1>6. /\ \A u \in Tab : u # t /\ manualOrder[u].at # "idle" => manualOrder[u].id # n
      /\ ~HasRecord(n) /\ FilesGoneOf(manualOrder[t].old)
  BY <1>0 DEF NumbersOnce, NotSavedYet, PreviewTaken, ReplacedIsCleared, AtStep
<1>7. ManualTypes'
  <2>1. record \in [id : OrderNumber, stand : 1 .. MaxStands, netto : {"none", "counted"}]
    BY <1>0 DEF Order
  <2>2. /\ manualJournal' \subseteq [id : OrderNumber, stand : 1 .. MaxStands, netto : {"none", "counted"}]
        /\ pendingPreview' \in {0} \cup OrderNumber
    <3> HIDE DEF record
    <3> QED  BY <1>4, <2>1 DEF ManualTypes, ManualTypeOK
  <2> QED  BY <1>1, <1>3, <1>5, <2>2 DEF ManualTypes, ManualTypeOK, SameOperation
<1>8. NumbersOnce'
  BY <1>0, <1>3, <1>5, NumbersStay
<1>9. NotSavedYet'
  <2>1. \A m : HasRecord(m)' => HasRecord(m) \/ (m = n /\ pendingPreview = n)
    BY <1>5 DEF HasRecord
  <2>2. ~HasRecord(0)
    BY ManualBounds DEF HasRecord, ManualTypes, ManualTypeOK, OrderNumber
  <2>3. ~HasRecord(pendingPreview)'
    BY <1>0, <1>4, <2>1, <2>2 DEF NotSavedYet, HasRecord, OrderNumber
  <2>4. ASSUME NEW u \in Tab, (NoPreviewYet(u) \/ PreviewTaken(u))' PROVE ~HasRecord(manualOrder[u].id)'
    <3>1. u # t /\ (NoPreviewYet(u) \/ PreviewTaken(u)) /\ manualOrder'[u] = manualOrder[u]
      BY <1>3, <2>4 DEF NoPreviewYet, PreviewTaken, SameOperation
    <3>2. ~HasRecord(manualOrder[u].id) /\ manualOrder[u].id # n
      BY <1>6, <3>1 DEF NotSavedYet, NoPreviewYet, PreviewTaken
    <3> QED  BY <2>1, <3>1, <3>2 DEF HasRecord
  <2>5. ASSUME NEW u \in Tab, AtStep(u, "remove")' PROVE ~HasRecord(manualOrder[u].old)'
    <3>1. u # t /\ AtStep(u, "remove") /\ manualOrder'[u] = manualOrder[u]
      BY <1>3, <2>5 DEF AtStep, SameOperation
    <3>2. ~HasRecord(manualOrder[u].old) /\ manualOrder[u].old # pendingPreview
      BY <3>1 DEF NotSavedYet, ReplacedForGood
    <3> QED  BY <2>1, <3>1, <3>2 DEF HasRecord
  <2> QED  BY <2>3, <2>4, <2>5 DEF NotSavedYet
<1>10. ReplacedForGood'
  <2>1. \A u \in Tab : NoPreviewYet(u) => manualOrder[u].id # 0
    BY DEF NumbersOnce, NoPreviewYet
  <2> QED
    BY <1>0, <1>3, <1>5, <2>1 DEF ReplacedForGood, NoPreviewYet, PreviewTaken, AtStep, SameOperation
<1>11. PreviewHasFiles'
  BY <1>1, <1>3, <1>5 DEF PreviewHasFiles, HasAllFiles, SameOperation
<1>12. ReplacedIsCleared'
  <2>1. ASSUME NEW u \in Tab, AtStep(u, "commit")' PROVE FilesGoneOf(manualOrder[u].old)'
    BY <1>1, <1>3, <1>5, <2>1 DEF AtStep, SameOperation, ReplacedIsCleared, FilesGoneOf
  <2>2. ASSUME NEW u \in Tab, PreviewTaken(u)', ~IsPending(u)'
        PROVE  \/ FilesGoneOf(manualOrder[u].id)'
               \/ \E v \in Tab : AtStep(v, "remove")' /\ manualOrder'[v].old = manualOrder'[u].id
    <3>1. u # t /\ manualOrder'[u] = manualOrder[u] /\ PreviewTaken(u)
      BY <1>3, <2>2 DEF SameOperation, PreviewTaken
    <3>2. ~IsPending(u)
      BY <1>4, <1>6, <2>2, <3>1 DEF IsPending, PreviewTaken
    <3> QED
      BY <1>0, <1>1, <1>3, <1>5, <3>1, <3>2 DEF ReplacedIsCleared, FilesGoneOf, AtStep, SameOperation
  <2> QED  BY <2>1, <2>2 DEF ReplacedIsCleared
<1>13. RecordKeepsItsPhotos'
  BY <1>0, <1>1, <1>5 DEF RecordKeepsItsPhotos, PreviewHasFiles, HasAllFiles, OrderNumber
<1>14. FilesHaveOwners'
  <2>1. SUFFICES ASSUME NEW f \in shotFiles, f \notin Owned', f[1] # pendingPreview', f[1] \notin ghosts.ids
                 PROVE  \E u \in Tab : /\ manualOrder'[u].at \in {"tare", "swap", "remove", "commit"}
                                       /\ f[1] \in {manualOrder'[u].id, manualOrder'[u].old}
    BY <1>1, <1>5 DEF FilesHaveOwners
  <2>2. f \notin Owned /\ f[1] # manualOrder[t].old
    BY <1>1, <1>5, <1>6, <2>1 DEF Owned, FilesGoneOf
  <2>3. CASE f[1] = n
    <3>1. pendingPreview # n
      BY <1>1, <1>5, <2>1, <2>3 DEF Owned
    <3>2. \E u \in Tab : AtStep(u, "remove") /\ manualOrder[u].old = n
      BY <1>0, <2>1, <2>3, <3>1 DEF ReplacedIsCleared, PreviewTaken, IsPending, FilesGoneOf
    <3> QED  BY <1>0, <1>3, <2>3, <3>2 DEF AtStep, SameOperation
  <2>4. CASE f[1] # n
    <3>1. f[1] # pendingPreview
      BY <1>4, <2>1, <2>4
    <3>2. PICK u \in Tab : /\ manualOrder[u].at \in {"tare", "swap", "remove", "commit"}
                           /\ f[1] \in {manualOrder[u].id, manualOrder[u].old}
      BY <2>1, <2>2, <3>1 DEF FilesHaveOwners
    <3>3. u # t  BY <2>2, <2>4, <3>2
    <3> QED  BY <1>3, <3>2, <3>3 DEF SameOperation
  <2> QED  BY <2>3, <2>4
<1>15. PageTellsJournal'
  <2>1. ASSUME NEW u \in Tab, u # t, AtStep(u, "told")'
        PROVE  /\ manualOrder'[u].answer = "saved" =>
                    \E r \in manualJournal' : r.id = manualOrder'[u].id /\ r.stand = manualOrder'[u].stand
               /\ manualOrder'[u].answer = "refused" =>
                    \A r \in manualJournal' : r.id # manualOrder'[u].id
    <3>1. manualOrder'[u] = manualOrder[u] /\ AtStep(u, "told") /\ manualOrder[u].id # n
      BY <1>3, <1>6, <2>1 DEF SameOperation, AtStep
    <3> QED  BY <1>5, <3>1 DEF PageTellsJournal
  <2>2. manualOrder'[t].answer = "saved" =>
          \E r \in manualJournal' : r.id = manualOrder'[t].id /\ r.stand = manualOrder'[t].stand
    BY <1>3, <1>5 DEF SameOperation
  <2>3. manualOrder'[t].answer = "refused" => \A r \in manualJournal' : r.id # manualOrder'[t].id
    BY <1>3, <1>4, <1>6 DEF SameOperation, HasRecord
  <2> QED  BY <2>1, <2>2, <2>3 DEF PageTellsJournal
<1> QED  BY <1>7, <1>8, <1>9, <1>10, <1>11, <1>12, <1>13, <1>14, <1>15

LEMMA ManualRestartKeeps ==
  ASSUME ManualIInv, ManualRestart
  PROVE  ManualIInv'
<1> USE DEF ManualIInv
<1>1. /\ UNCHANGED <<platform, manualSite, manualJournal>>
      /\ pendingPreview' = 0 /\ ais' = FALSE /\ shotFiles' = Owned
      /\ ghosts' \in Ghosts /\ ghosts'.ids = ghosts.ids /\ ghosts'.orders = ghosts.orders
  BY FaultsCount DEF ManualRestart, ManualTypes
<1>2. ASSUME NEW t \in Tab
      PROVE  /\ manualOrder'[t] \in Order /\ manualOrder'[t].at \in {"idle", "told"}
             /\ manualOrder'[t].id = manualOrder[t].id /\ manualOrder'[t].stand = manualOrder[t].stand
             /\ manualOrder'[t].old = manualOrder[t].old
             /\ manualOrder'[t] = manualOrder[t]
                \/ (manualOrder[t].at # "idle" /\ manualOrder'[t].answer = "lost")
  <2> DEFINE told == [manualOrder[t] EXCEPT !.at = "told"]
             lost == [told EXCEPT !.answer = "lost"]
  <2>1. manualOrder[t] \in Order  BY DEF ManualTypes
  <2>2. told \in Order  BY <2>1, OrderUpdates DEF OrderPlace
  <2>3. lost \in Order  BY <2>2, OrderUpdates
  <2>4. /\ lost.at = "told" /\ lost.id = manualOrder[t].id /\ lost.stand = manualOrder[t].stand
        /\ lost.old = manualOrder[t].old /\ lost.answer = "lost"
    BY <2>1 DEF Order
  <2>5. manualOrder'[t] = IF manualOrder[t].at \in {"idle", "told"} THEN manualOrder[t] ELSE lost
    BY DEF ManualRestart
  <2> HIDE DEF lost
  <2>6. CASE manualOrder[t].at \in {"idle", "told"}
    BY <2>1, <2>5, <2>6
  <2>7. CASE manualOrder[t].at \notin {"idle", "told"}
    <3>1. manualOrder'[t] = lost  BY <2>5, <2>7
    <3>2. manualOrder[t].at # "idle"  BY <2>7
    <3> QED  BY <2>3, <2>4, <3>1, <3>2
  <2> QED  BY <2>6, <2>7
<1>3. manualOrder' \in [Tab -> Order]
  <2>1. manualOrder' = [t \in Tab |-> manualOrder'[t]]  BY DEF ManualRestart
  <2> QED  BY <1>2, <2>1
<1>4. Owned \subseteq shotFiles  BY DEF Owned
<1>5. ManualTypes'
  BY <1>1, <1>3, <1>4 DEF ManualTypes, ManualTypeOK
<1>6. NumbersOnce'
  <2>1. ghosts.orders \in Nat  BY ManualBounds DEF ManualTypes, Ghosts
  <2>2. \A t \in Tab : manualOrder'[t].at # "idle" => manualOrder[t].at # "idle"
    BY <1>2
  <2> QED  BY <1>1, <1>2, <2>1, <2>2 DEF NumbersOnce
<1>7. NotSavedYet' /\ ReplacedForGood' /\ PreviewHasFiles' /\ ReplacedIsCleared'
  <2>1. \A t \in Tab : manualOrder'[t].at \in {"idle", "told"}  BY <1>2
  <2>2. ~HasRecord(0)'
    BY <1>1 DEF HasRecord, ManualTypes, ManualTypeOK, OrderNumber
  <2> QED
    BY <1>1, <2>1, <2>2 DEF NotSavedYet, ReplacedForGood, PreviewHasFiles, ReplacedIsCleared, NoPreviewYet,
      PreviewTaken, AtStep, HasRecord
<1>8. RecordKeepsItsPhotos'
  <2>1. ASSUME NEW r \in manualJournal, NEW f \in FilesOf(r.id) PROVE f \in Owned
    <3>1. f \in shotFiles  BY DEF RecordKeepsItsPhotos
    <3>2. f[1] = r.id  BY DEF FilesOf
    <3> QED  BY <3>1, <3>2 DEF Owned
  <2> QED  BY <1>1, <2>1 DEF RecordKeepsItsPhotos
<1>9. FilesHaveOwners'
  BY <1>1, <1>4 DEF FilesHaveOwners, Owned
<1>10. PageTellsJournal'
  BY <1>1, <1>2 DEF PageTellsJournal, AtStep
<1> QED  BY <1>5, <1>6, <1>7, <1>8, <1>9, <1>10

(* Every step of a tab, of a camera, of the journal and every restart      *)
(* keeps it.                                                               *)
THEOREM ManualKeeps == ManualIInv /\ [ManualNext]_manualVars => ManualIInv'
<1> SUFFICES ASSUME ManualIInv, [ManualNext]_manualVars PROVE ManualIInv'
  OBVIOUS
<1>1. CASE UNCHANGED manualVars
  <2>1. UNCHANGED <<platform, manualSite, ais, manualOrder, pendingPreview, shotFiles, manualJournal, ghosts>>
    BY <1>1 DEF manualVars
  <2>2. ManualTypes' /\ NumbersOnce' /\ NotSavedYet' /\ ReplacedForGood' /\ PreviewHasFiles'
    BY <2>1 DEF ManualIInv, ManualTypes, ManualTypeOK, NumbersOnce, NotSavedYet, ReplacedForGood,
      PreviewHasFiles, NoPreviewYet, PreviewTaken, AtStep, HasRecord, HasAllFiles
  <2>3. ReplacedIsCleared' /\ RecordKeepsItsPhotos' /\ FilesHaveOwners' /\ PageTellsJournal'
    BY <2>1 DEF ManualIInv, ReplacedIsCleared, RecordKeepsItsPhotos, FilesHaveOwners, PageTellsJournal,
      PreviewTaken, AtStep, IsPending, FilesGoneOf, Owned
  <2> QED  BY <2>2, <2>3 DEF ManualIInv
<1>2. CASE VehicleMoves \/ Surroundings \/ AisCommand
  BY <1>2, SurroundingsKeep
<1>3. CASE ManualRestart
  BY <1>3, ManualRestartKeeps
<1>4. ASSUME NEW t \in Tab, NEW kind \in ManualKind, NEW loaded \in BOOLEAN, Prepare(t, kind, loaded)
      PROVE  ManualIInv'
  BY <1>4, PrepareKeeps
<1>5. ASSUME NEW t \in Tab, \/ ShootAll(t) \/ StoreShots(t) \/ LookUpTare(t)
                            \/ SwapPreview(t) \/ RemoveOld(t) \/ CommitPreview(t)
      PROVE  ManualIInv'
  BY <1>5, ShootAllKeeps, StoreShotsKeeps, LookUpTareKeeps, SwapPreviewKeeps, RemoveOldKeeps,
     CommitPreviewKeeps
<1> QED  BY <1>1, <1>2, <1>3, <1>4, <1>5 DEF ManualNext

(* However many tabs prepare at once, and whatever the disk refuses or a   *)
(* restart clears away: a record keeps the photos it was saved with, no    *)
(* other file is left over, and the page tells what the journal has        *)
(* (manual.py prepare and commit, cleanup_orphan_photos).                  *)
THEOREM ManualInvariant == ManualSpec => []ManualInv
<1>1. ManualIInv => ManualInv
  BY DEF ManualIInv, ManualTypes, ManualInv
<1> QED  BY <1>1, ManualStarts, ManualKeeps, PTL DEF ManualSpec

-----------------------------------------------------------------------------
(***************************************************************************)
(* PhotoInv of PhotoDelivery for any photos, damaged or not, any pauses,   *)
(* portions and number of troubles.                                        *)
(***************************************************************************)

Row ==
  [synced : BOOLEAN, attempts : 0 .. AttemptCap, pause : 0 .. BeyondHorizon,
   uploaded : BOOLEAN, removed : BOOLEAN]

(* One request at a time.                                                  *)
Rounds ==
  {r \in [left : SUBSET Photo, now : SUBSET Photo, request : UploadRequest] :
     \A p, q \in r.now : p = q}

PhotoType ==
  /\ photoRow \in [Photo -> Row]
  /\ photoDisk \subseteq Photo
  /\ photoRound \in Rounds
  /\ purge \in [left : SUBSET Photo, unlinked : SUBSET Photo]
  /\ photoAtCenter \in [Photo -> {"none", "whole", "torn"}]
  /\ photoTroubles \in Nat

(* What the PC was told of, the center has whole.                          *)
TellingIsTrue ==
  /\ \A p \in Photo : photoRow[p].uploaded => photoAtCenter[p] = "whole"
  /\ photoRound.request = "accepted" =>
       \A p \in photoRound.now : photoAtCenter[p] = "whole"

(* The retention takes what is uploaded; what it has unlinked is gone.     *)
PurgeIsSafe ==
  /\ \A p \in Photo : p \notin photoDisk => photoRow[p].uploaded
  /\ \A p \in purge.left \cup purge.unlinked : photoRow[p].uploaded
  /\ \A p \in purge.unlinked : p \notin photoDisk

PhotoIInv == PhotoType /\ TellingIsTrue /\ PurgeIsSafe /\ NoFileForgotten

LEMMA PauseFacts ==
  /\ AttemptCap \in Nat \ {0} /\ BeyondHorizon \in Nat /\ RetryHorizon \in Nat
  /\ RetryHorizon < BeyondHorizon
  /\ \A a \in 1 .. AttemptCap + 1 : RetryPause(a) \in 0 .. BeyondHorizon
  /\ \A n \in 0 .. BeyondHorizon : PauseLater(n) \in 0 .. BeyondHorizon
<1>1. MaxPause \in Nat \ {0} /\ MaxPhotoTroubles \in Nat
  BY PhotoBounds
<1>2. /\ AttemptCap \in Nat \ {0} /\ BeyondHorizon \in Nat /\ RetryHorizon \in Nat
      /\ RetryHorizon < BeyondHorizon /\ MaxPause \in 0 .. BeyondHorizon
  BY <1>1 DEF AttemptCap, BeyondHorizon, RetryHorizon
<1>3. ASSUME NEW a \in 1 .. AttemptCap + 1 PROVE RetryPause(a) \in 0 .. BeyondHorizon
  <2> DEFINE x == 2 ^ (a - 1)
  <2>1. RetryPause(a) = IF x \in 1 .. MaxPause THEN x ELSE MaxPause
    BY DEF RetryPause
  <2> HIDE DEF x
  <2>2. 1 .. MaxPause \subseteq 0 .. BeyondHorizon
    BY <1>1, <1>2
  <2> QED  BY <1>2, <2>1, <2>2
<1>4. \A n \in 0 .. BeyondHorizon : PauseLater(n) \in 0 .. BeyondHorizon
  BY <1>2 DEF PauseLater
<1> QED  BY <1>2, <1>3, <1>4

LEMMA LesserOfTwo ==
  ASSUME NEW a \in Nat, NEW b \in Nat
  PROVE  Min({a, b}) \in Nat /\ Min({a, b}) <= b /\ Min({a, b}) <= a
<1>1. \E x \in {a, b} : \A y \in {a, b} : x <= y
  BY SMT
<1> QED  BY <1>1, SMT DEF Min

(* The invariant of the photos holds when all of them are taken and new.   *)
THEOREM PhotoStarts == PhotoInit => PhotoIInv
BY PauseFacts DEF PhotoInit, PhotoIInv, PhotoType, TellingIsTrue, PurgeIsSafe, NoFileForgotten, Row,
  Rounds, NewRow, NoRound, NoPurge, UploadRequest

(* The steps that touch neither files nor their marks.                     *)
LEMMA MarksStay ==
  ASSUME PhotoIInv, photoRow' \in [Photo -> Row],
         \A p \in Photo : photoRow'[p].uploaded = photoRow[p].uploaded
                          /\ photoRow'[p].removed = photoRow[p].removed,
         photoTroubles' \in Nat,
         UNCHANGED <<photoDisk, photoRound, purge, photoAtCenter>>
  PROVE  PhotoIInv'
BY DEF PhotoIInv, PhotoType, TellingIsTrue, PurgeIsSafe, NoFileForgotten

(* The steps of a round that change neither rows nor files.                *)
LEMMA RoundSteps ==
  ASSUME PhotoIInv,
         photoRound' \in Rounds,
         photoRound'.request = "accepted" => \A p \in photoRound'.now : photoAtCenter[p] = "whole",
         photoTroubles' \in Nat,
         purge' \in {purge, NoPurge},
         UNCHANGED <<photoRow, photoDisk, photoAtCenter>>
  PROVE  PhotoIInv'
BY DEF PhotoIInv, PhotoType, TellingIsTrue, PurgeIsSafe, NoFileForgotten, NoPurge

(* The center only adds whole files.                                       *)
LEMMA CenterSteps ==
  ASSUME PhotoIInv,
         photoAtCenter' \in [Photo -> {"none", "whole", "torn"}],
         \A p \in Photo : photoAtCenter[p] = "whole" => photoAtCenter'[p] = "whole",
         photoRound' \in Rounds,
         photoRound'.request = "accepted" => \A p \in photoRound'.now : photoAtCenter'[p] = "whole",
         photoTroubles' \in Nat,
         UNCHANGED <<photoRow, photoDisk, purge>>
  PROVE  PhotoIInv'
BY DEF PhotoIInv, PhotoType, TellingIsTrue, PurgeIsSafe, NoFileForgotten

LEMMA ReceivedFacts ==
  ASSUME PhotoIInv, NEW p \in Photo, PhotoReceived(p)
  PROVE  /\ photoAtCenter' \in [Photo -> {"none", "whole", "torn"}]
         /\ \A q \in Photo : photoAtCenter[q] = "whole" => photoAtCenter'[q] = "whole"
         /\ p \notin Damaged => photoAtCenter'[p] = "whole"
BY DEF PhotoIInv, PhotoType, PhotoReceived

LEMMA UploaderKeeps ==
  ASSUME PhotoIInv, Uploader
  PROVE  PhotoIInv'
<1> USE DEF PhotoIInv, PhotoType
<1>0. /\ photoRound \in [left : SUBSET Photo, now : SUBSET Photo, request : UploadRequest]
      /\ \A p, q \in photoRound.now : p = q
  BY DEF Rounds
<1>1. CASE RoundBegins
  <2>1. PICK s \in UploadPortion({p \in Photo : PhotoDue(p)}) :
          photoRound' = [NoRound EXCEPT !.left = s]
    BY <1>1 DEF RoundBegins
  <2>2. s \subseteq Photo  BY DEF UploadPortion
  <2>3. photoRound' = [left |-> s, now |-> {}, request |-> "none"]
    BY <2>1 DEF NoRound
  <2> QED  BY <1>1, <2>2, <2>3, RoundSteps DEF RoundBegins, Rounds, UploadRequest
<1>2. ASSUME NEW p \in Photo, SendPhoto(p) PROVE PhotoIInv'
  <2>1. photoRound' = [left |-> photoRound.left \ {p}, now |-> {p},
                       request |-> IF p \in photoDisk THEN "sent" ELSE "refused"]
    BY <1>2 DEF SendPhoto
  <2> QED  BY <1>2, <2>1, RoundSteps DEF SendPhoto, Rounds, UploadRequest
<1>3. CASE RoundMarks
  <2>1. PICK p \in photoRound.now :
          photoRow' = [photoRow EXCEPT ![p] =
            IF photoRound.request = "accepted" THEN MarkUploaded(@) ELSE MarkFailed(@)]
    BY <1>3 DEF RoundMarks
  <2>2. p \in Photo /\ photoRow[p] \in Row  BY <1>0
  <2>3. /\ photoRound' = [photoRound EXCEPT !.now = {}, !.request = "none"]
        /\ UNCHANGED <<photoDisk, purge, photoAtCenter, photoTroubles>>
    BY <1>3 DEF RoundMarks
  <2>4. photoRound' \in Rounds /\ photoRound'.request = "none"
    BY <2>3 DEF Rounds, UploadRequest
  <2>5. CASE photoRound.request = "accepted"
    <3> DEFINE r == MarkUploaded(photoRow[p])
    <3>1. photoRow' = [photoRow EXCEPT ![p] = r]  BY <2>1, <2>5
    <3>2. r \in Row /\ r.uploaded /\ r.removed = photoRow[p].removed
      <4>1. 0 \in 0 .. BeyondHorizon  BY PauseFacts
      <4> QED  BY <2>2, <4>1 DEF Row, MarkUploaded
    <3> HIDE DEF r
    <3>3. photoAtCenter[p] = "whole"  BY <2>5 DEF TellingIsTrue
    <3>4. /\ photoRow' \in [Photo -> Row]
          /\ \A q \in Photo : /\ photoRow'[q].removed = photoRow[q].removed
                              /\ photoRow[q].uploaded => photoRow'[q].uploaded
                              /\ photoRow'[q].uploaded => photoRow[q].uploaded \/ q = p
      BY <2>2, <3>1, <3>2
    <3>5. PhotoType'  BY <2>3, <2>4, <3>4
    <3>6. TellingIsTrue'  BY <2>3, <2>4, <3>3, <3>4 DEF TellingIsTrue
    <3>7. PurgeIsSafe' /\ NoFileForgotten'
      BY <2>3, <3>4 DEF PurgeIsSafe, NoFileForgotten
    <3> QED  BY <3>5, <3>6, <3>7
  <2>6. CASE photoRound.request # "accepted"
    <3> DEFINE a == photoRow[p].attempts + 1
               r == MarkFailed(photoRow[p])
    <3>1. photoRow' = [photoRow EXCEPT ![p] = r]  BY <2>1, <2>6
    <3>2. a \in Nat /\ a \in 1 .. AttemptCap + 1
      <4>1. photoRow[p].attempts \in 0 .. AttemptCap  BY <2>2 DEF Row
      <4> QED  BY <4>1, PauseFacts
    <3>3. Min({a, AttemptCap}) \in 0 .. AttemptCap  BY <3>2, PauseFacts, LesserOfTwo
    <3>4. RetryPause(a) \in 0 .. BeyondHorizon  BY <3>2, PauseFacts
    <3>5. r \in Row /\ r.removed = photoRow[p].removed /\ r.uploaded = photoRow[p].uploaded
      BY <2>2, <3>3, <3>4 DEF Row, MarkFailed
    <3> HIDE DEF r
    <3> QED  BY <2>2, <2>3, <2>4, <3>1, <3>5 DEF TellingIsTrue, PurgeIsSafe, NoFileForgotten
  <2> QED  BY <2>5, <2>6
<1>4. CASE CenterHandles
  <2>1. PICK p \in photoRound.now :
          /\ PhotoReceived(p)
          /\ photoRound' = [photoRound EXCEPT !.request =
                              IF p \in Damaged THEN "refused" ELSE "accepted"]
    BY <1>4 DEF CenterHandles
  <2>2. p \in Photo /\ photoRound'.now = photoRound.now
    BY <1>0, <2>1
  <2>3. /\ photoRound' \in Rounds
        /\ photoRound'.request = "accepted" => p \notin Damaged
    BY <1>0, <2>1, <2>2 DEF Rounds, UploadRequest
  <2>4. photoRound'.request = "accepted" => \A q \in photoRound'.now : photoAtCenter'[q] = "whole"
    BY <1>0, <2>1, <2>2, <2>3, ReceivedFacts
  <2> QED  BY <1>4, <2>1, <2>2, <2>3, <2>4, ReceivedFacts, CenterSteps DEF CenterHandles
<1> QED  BY <1>1, <1>2, <1>3, <1>4 DEF Uploader

LEMMA RetentionKeeps ==
  ASSUME PhotoIInv, PurgeBegins \/ PurgeMarks \/ (\E p \in Photo : PurgeUnlinks(p))
  PROVE  PhotoIInv'
<1> USE DEF PhotoIInv, PhotoType
<1>1. CASE PurgeBegins
  <2>1. PICK s \in SUBSET {p \in Photo : Purgeable(p)} : purge' = [NoPurge EXCEPT !.left = s]
    BY <1>1 DEF PurgeBegins
  <2>2. purge' = [left |-> s, unlinked |-> {}]  BY <2>1 DEF NoPurge
  <2>3. UNCHANGED <<photoRow, photoDisk, photoRound, photoAtCenter, photoTroubles>>
    BY <1>1 DEF PurgeBegins
  <2> QED  BY <2>2, <2>3 DEF Purgeable, TellingIsTrue, PurgeIsSafe, NoFileForgotten
<1>2. CASE PurgeMarks
  <2>1. /\ photoRow' = [p \in Photo |-> IF p \in purge.unlinked
                          THEN [photoRow[p] EXCEPT !.removed = TRUE] ELSE photoRow[p]]
        /\ purge' = [purge EXCEPT !.unlinked = {}]
        /\ UNCHANGED <<photoDisk, photoRound, photoAtCenter, photoTroubles>>
    BY <1>2 DEF PurgeMarks
  <2>2. /\ photoRow' \in [Photo -> Row]
        /\ \A p \in Photo : /\ photoRow'[p].uploaded = photoRow[p].uploaded
                            /\ photoRow'[p].removed => photoRow[p].removed \/ p \in purge.unlinked
    BY <2>1 DEF Row
  <2> QED  BY <2>1, <2>2 DEF TellingIsTrue, PurgeIsSafe, NoFileForgotten
<1>3. ASSUME NEW p \in Photo, PurgeUnlinks(p) PROVE PhotoIInv'
  <2>1. /\ p \in purge.left /\ purge.unlinked = {}
        /\ \/ /\ photoDisk' = photoDisk \ {p}
              /\ purge' = [left |-> purge.left \ {p}, unlinked |-> {p}]
           \/ /\ purge' = [purge EXCEPT !.left = @ \ {p}]
              /\ photoDisk' = photoDisk
        /\ UNCHANGED <<photoRow, photoRound, photoAtCenter, photoTroubles>>
    BY <1>3 DEF PurgeUnlinks, StaysOnDisk
  <2> QED  BY <2>1 DEF TellingIsTrue, PurgeIsSafe, NoFileForgotten
<1> QED  BY <1>1, <1>2, <1>3

LEMMA TroubleKeeps ==
  ASSUME PhotoIInv, ClockJumps \/ RequestTimesOut \/ PhotoAgentCrash \/ PhotoCenterCrash
  PROVE  PhotoIInv'
<1> USE DEF PhotoIInv, PhotoType
<1>0. /\ photoRound \in [left : SUBSET Photo, now : SUBSET Photo, request : UploadRequest]
      /\ \A p, q \in photoRound.now : p = q
  BY DEF Rounds
<1>1. photoTroubles' \in Nat
  BY DEF PhotoTrouble, ClockJumps, RequestTimesOut, PhotoAgentCrash, PhotoCenterCrash
<1>2. CASE ClockJumps
  <2>1. PICK far \in 0 .. BeyondHorizon :
          photoRow' = [p \in Photo |-> IF photoRow[p].attempts > 0 /\ ~photoRow[p].uploaded
                                      THEN [photoRow[p] EXCEPT !.pause = far] ELSE photoRow[p]]
    BY <1>2 DEF ClockJumps
  <2>2. /\ photoRow' \in [Photo -> Row]
        /\ \A p \in Photo : /\ photoRow'[p].uploaded = photoRow[p].uploaded
                            /\ photoRow'[p].removed = photoRow[p].removed
    BY <2>1 DEF Row
  <2> QED  BY <1>1, <1>2, <2>2, MarksStay DEF ClockJumps
<1>3. CASE RequestTimesOut
  <2>1. photoRound' \in Rounds /\ photoRound'.request = "refused"
    BY <1>0, <1>3 DEF RequestTimesOut, Rounds, UploadRequest
  <2> QED  BY <1>1, <1>3, <2>1, RoundSteps DEF RequestTimesOut
<1>4. CASE PhotoAgentCrash
  <2>1. NoRound \in Rounds /\ NoRound.request = "none"
    BY DEF NoRound, Rounds, UploadRequest
  <2> QED  BY <1>1, <1>4, <2>1, RoundSteps DEF PhotoAgentCrash
<1>5. CASE PhotoCenterCrash
  <2>1. /\ photoAtCenter' \in [Photo -> {"none", "whole", "torn"}]
        /\ \A p \in Photo : photoAtCenter[p] = "whole" => photoAtCenter'[p] = "whole"
    <3> DEFINE hand == strayUpload \cup IF photoRound.request = "sent" THEN photoRound.now ELSE {}
    <3>1. CASE photoAtCenter' = photoAtCenter  BY <3>1
    <3>2. CASE \E p \in BeingWritten(hand) : photoAtCenter' = [photoAtCenter EXCEPT ![p] = "torn"]
      BY <3>2 DEF BeingWritten
    <3> QED  BY <1>5, <3>1, <3>2 DEF PhotoCenterCrash
  <2>2. /\ photoRound' \in Rounds
        /\ photoRound'.request = "accepted" => photoRound' = photoRound
    BY <1>0, <1>5 DEF PhotoCenterCrash, Rounds, UploadRequest
  <2>3. photoRound'.request = "accepted" => \A p \in photoRound'.now : photoAtCenter'[p] = "whole"
    BY <1>0, <2>1, <2>2 DEF TellingIsTrue
  <2> QED  BY <1>1, <1>5, <2>1, <2>2, <2>3, CenterSteps DEF PhotoCenterCrash
<1> QED  BY <1>2, <1>3, <1>4, <1>5

(* Every step of the upload queue, of the retention and of the center      *)
(* keeps it.                                                               *)
THEOREM PhotoKeeps == PhotoIInv /\ [PhotoNext]_photoVars => PhotoIInv'
<1> SUFFICES ASSUME PhotoIInv, [PhotoNext]_photoVars PROVE PhotoIInv'
  OBVIOUS
<1>1. CASE UNCHANGED photoVars
  BY <1>1 DEF photoVars, PhotoIInv, PhotoType, TellingIsTrue, PurgeIsSafe, NoFileForgotten
<1>2. ASSUME NEW p \in Photo, RecordSynced(p) PROVE PhotoIInv'
  <2>1. /\ photoRow' \in [Photo -> Row]
        /\ \A q \in Photo : /\ photoRow'[q].uploaded = photoRow[q].uploaded
                            /\ photoRow'[q].removed = photoRow[q].removed
    BY <1>2 DEF RecordSynced, PhotoIInv, PhotoType, Row
  <2> QED  BY <1>2, <2>1, MarksStay DEF RecordSynced, PhotoIInv, PhotoType
<1>3. ASSUME NEW p \in Photo, CenterHandlesStray(p) PROVE PhotoIInv'
  <2>1. /\ UNCHANGED <<photoRow, photoDisk, photoRound, purge, photoTroubles>> /\ PhotoReceived(p)
    BY <1>3 DEF CenterHandlesStray
  <2>2. photoRound.request = "accepted" => \A q \in photoRound.now : photoAtCenter'[q] = "whole"
    BY <2>1, ReceivedFacts DEF PhotoIInv, PhotoType, Rounds, TellingIsTrue
  <2> QED  BY <2>1, <2>2, ReceivedFacts, CenterSteps DEF PhotoIInv, PhotoType
<1>4. CASE PhotoTime
  <2>1. /\ photoRow' \in [Photo -> Row]
        /\ \A q \in Photo : /\ photoRow'[q].uploaded = photoRow[q].uploaded
                            /\ photoRow'[q].removed = photoRow[q].removed
    BY <1>4, PauseFacts DEF PhotoTime, PhotoIInv, PhotoType, Row
  <2> QED  BY <1>4, <2>1, MarksStay DEF PhotoTime, PhotoIInv, PhotoType
<1> QED
  BY <1>1, <1>2, <1>3, <1>4, UploaderKeeps, RetentionKeeps, TroubleKeeps DEF PhotoNext

(* The PC gives up its file of a photo only when the center has it whole,  *)
(* and forgets no file, whatever is lost, late, torn or cut off between    *)
(* the removal of files and their mark (retention.py, upload_photo).       *)
THEOREM PhotoInvariant == PhotoSpec => []PhotoInv
<1>1. PhotoIInv => PhotoInv
  BY DEF PhotoIInv, PhotoType, TellingIsTrue, PurgeIsSafe, PhotoInv, PhotoTypeOK, EvidenceKept,
       ShownFrom, Row, Rounds
<1> QED  BY <1>1, PhotoStarts, PhotoKeeps, PTL DEF PhotoSpec

-----------------------------------------------------------------------------
(***************************************************************************)
(* CameraInv of CameraPreview for any number of browsers and of changes of *)
(* the settings.                                                           *)
(***************************************************************************)

(* The places of the threads. *)
ChangePlace == {"done", "streams", "cameras", "generation", "cache", "last"}
ViewerState ==
  [at : {"idle", "stream", "keep", "cache", "shoot", "memo"}, cam : FrameOf, gen : FrameOf,
   took : FrameOf, since : FrameOf]

CameraTypes ==
  /\ camsOf \in [{"health", "streams", "preview"} -> 1 .. MaxCameraSets]
  /\ camChange \in [at : ChangePlace, n : 1 .. MaxCameraSets]
  /\ previewMemo \in [cache : [of : FrameOf, fresh : BOOLEAN], last : FrameOf, gen : FrameOf]
  /\ streamReader \in [1 .. MaxCameraSets -> ReaderState]
  /\ viewer \in [Viewer -> ViewerState]
  /\ camProbe \in [at : {"idle", "lock", "shoot"}, cam : FrameOf, status : FrameOf]
  /\ camMarks \in [done : 1 .. MaxCameraSets, raced : BOOLEAN, lateProbe : BOOLEAN,
                   oldShown : BOOLEAN]

(* What each part takes for the camera, by the step the change is at.      *)
ChangeInStep ==
  LET n == camChange.n
      before(places) == IF camChange.at \in places THEN n - 1 ELSE n
  IN /\ camsOf.streams = before({"streams"})
     /\ camsOf.preview = before({"streams", "cameras"})
     /\ previewMemo.gen = before({"streams", "cameras", "generation"})
     /\ camMarks.done = before(ChangePlace \ {"done"})

(* The lock is held by the one who shoots. *)
LockHeld ==
  /\ \A v \in Viewer : viewer[v].at \in {"shoot", "memo"} => camLock = v
  /\ camProbe.at = "shoot" => camLock = "probe"

(* What a browser waits for is of no camera older than it asked for. *)
AskedFor(w) ==
  /\ w.at # "idle" => w.since <= camMarks.done
  /\ w.at \in {"stream", "cache", "shoot"} => w.cam >= w.since
  /\ w.at \in {"keep", "memo"} => w.took = 0 \/ w.took >= w.since

(* And without a race it is of the generation of now, or of the one that   *)
(* it has noted for itself.                                                *)
OfGeneration(w) ==
  /\ w.at \in {"stream", "cache"} => w.cam >= previewMemo.gen
  /\ w.at = "shoot" => w.cam >= w.gen
  /\ w.at \in {"keep", "memo"} => w.took = 0 \/ w.took >= previewMemo.gen

ScreenKept ==
  /\ \A v \in Viewer : AskedFor(viewer[v])
  /\ ~camMarks.raced =>
       /\ \A v \in Viewer : OfGeneration(viewer[v])
       /\ previewMemo.cache.of = 0 \/ previewMemo.cache.of >=
            (IF camChange.at = "last" THEN camChange.n ELSE camMarks.done)
       /\ previewMemo.last = 0 \/ previewMemo.last >= camMarks.done

CameraIInv ==
  CameraTypes /\ ChangeInStep /\ LockHeld /\ ScreenKept /\ OldCameraLeavesScreen
  /\ StatusOfConfigured

(* Frames are numbers. *)
LEMMA FramesAreNumbers ==
  /\ MaxCameraSets \in Nat \ {0}
  /\ \A i \in FrameOf : i \in Nat /\ i <= MaxCameraSets
  /\ \A i \in 1 .. MaxCameraSets : i \in FrameOf /\ i \in Nat /\ i >= 1
  /\ 0 \in FrameOf
BY CameraBounds DEF FrameOf

LEMMA CameraPromises == CameraIInv => CameraInv
<1> SUFFICES ASSUME CameraIInv PROVE CameraInv  OBVIOUS
<1>1. CameraTypeOK
  <2>1. previewMemo.gen = camsOf.preview - (IF camChange.at = "generation" THEN 1 ELSE 0)
    <3>1. camChange.n \in Nat /\ camChange.at \in ChangePlace
      BY FramesAreNumbers DEF CameraIInv, CameraTypes
    <3> QED  BY <3>1 DEF CameraIInv, ChangeInStep, ChangePlace
  <2>2. \A v \in Viewer : viewer[v].took \in FrameOf  BY DEF CameraIInv, CameraTypes, ViewerState
  <2> QED  BY <2>1, <2>2 DEF CameraIInv, CameraTypes, CameraTypeOK
<1>2. OneShotAtATime
  <2> DEFINE shots == {v \in Viewer : viewer[v].at \in {"shoot", "memo"}}
                      \cup (IF camProbe.at = "shoot" THEN {"probe"} ELSE {})
  <2>1. shots \subseteq {camLock}  BY DEF CameraIInv, LockHeld
  <2>2. IsFiniteSet({camLock}) /\ Cardinality({camLock}) = 1  BY FS_Singleton
  <2>3. Cardinality(shots) <= 1
    <3> HIDE DEF shots
    <3> QED  BY <2>1, <2>2, FS_Subset
  <2> QED  BY <2>3 DEF OneShotAtATime
<1> QED  BY <1>1, <1>2 DEF CameraIInv, CameraInv

LEMMA CameraStarts == CameraInit => CameraIInv
<1> SUFFICES ASSUME CameraInit PROVE CameraIInv  OBVIOUS
<1> USE DEF CameraInit
<1>1. 1 \in 1 .. MaxCameraSets  BY FramesAreNumbers
<1>2. CameraTypes
  <2>1. Asleep \in ViewerState /\ NoProbe \in [at : {"idle", "lock", "shoot"}, cam : FrameOf, status : FrameOf]
    BY FramesAreNumbers DEF Asleep, ViewerState, NoProbe
  <2>2. previewMemo \in [cache : [of : FrameOf, fresh : BOOLEAN], last : FrameOf, gen : FrameOf]
    BY <1>1, FramesAreNumbers DEF NoCache
  <2>3. streamReader \in [1 .. MaxCameraSets -> ReaderState]  BY DEF ReaderState
  <2>4. camsOf \in [{"health", "streams", "preview"} -> 1 .. MaxCameraSets]
        /\ camChange \in [at : ChangePlace, n : 1 .. MaxCameraSets]
    BY <1>1 DEF ChangePlace
  <2>5. camMarks \in [done : 1 .. MaxCameraSets, raced : BOOLEAN, lateProbe : BOOLEAN, oldShown : BOOLEAN]
    BY <1>1
  <2> QED  BY <2>1, <2>2, <2>3, <2>4, <2>5 DEF CameraTypes
<1>3. ChangeInStep  BY DEF ChangeInStep
<1>4. LockHeld /\ StatusOfConfigured /\ OldCameraLeavesScreen
  BY DEF LockHeld, Asleep, NoProbe, StatusOfConfigured, OldCameraLeavesScreen
<1>5. ScreenKept  BY DEF ScreenKept, AskedFor, OfGeneration, Asleep, NoCache
<1> QED  BY <1>2, <1>3, <1>4, <1>5 DEF CameraIInv

(* The change of the settings, step by step. *)
LEMMA ChangeKeeps ==
  ASSUME CameraIInv, ChangeBegins \/ ChangeStreams \/ ChangePreview
  PROVE  CameraIInv'
<1> DEFINE n == camChange.n
<1> USE FramesAreNumbers
<1>0. /\ CameraTypes /\ ChangeInStep /\ LockHeld /\ ScreenKept /\ OldCameraLeavesScreen
      /\ StatusOfConfigured
  BY DEF CameraIInv
<1>1. n \in Nat /\ n >= 1 /\ n <= MaxCameraSets /\ camMarks.done \in Nat /\ previewMemo.gen \in Nat
  BY <1>0 DEF CameraTypes
<1>2. CASE ChangeBegins
  <2>1. /\ camChange.at = "done" /\ n < MaxCameraSets
        /\ camChange' = [at |-> "streams", n |-> n + 1]
        /\ camsOf' = [camsOf EXCEPT !.health = n + 1]
        /\ camProbe' = [camProbe EXCEPT !.status = 0]
        /\ UNCHANGED <<previewMemo, streamReader, camLock, viewer, camMarks>>
    BY <1>2 DEF ChangeBegins, StatusForgotten
  <2>2. n + 1 \in 1 .. MaxCameraSets  BY <1>1, <2>1
  <2>3. CameraTypes'
    <3>1. camsOf' \in [{"health", "streams", "preview"} -> 1 .. MaxCameraSets]
      BY <1>0, <2>1, <2>2 DEF CameraTypes
    <3>2. camChange' \in [at : ChangePlace, n : 1 .. MaxCameraSets]
      BY <2>1, <2>2 DEF ChangePlace
    <3>3. camProbe' \in [at : {"idle", "lock", "shoot"}, cam : FrameOf, status : FrameOf]
      BY <1>0, <2>1 DEF CameraTypes
    <3> QED  BY <1>0, <2>1, <3>1, <3>2, <3>3 DEF CameraTypes, ViewerState, ReaderState
  <2>4. ChangeInStep'
    <3>1. camsOf'.streams = camsOf.streams /\ camsOf'.preview = camsOf.preview
      BY <1>0, <2>1 DEF CameraTypes
    <3> QED  BY <1>0, <1>1, <2>1, <3>1 DEF ChangeInStep, ChangePlace
  <2>5. LockHeld' /\ OldCameraLeavesScreen'
    BY <1>0, <2>1 DEF CameraTypes, LockHeld, OldCameraLeavesScreen
  <2>6. ScreenKept'
    BY <1>0, <2>1 DEF ScreenKept, AskedFor, OfGeneration
  <2>7. StatusOfConfigured'
    BY <1>0, <2>1 DEF CameraTypes, StatusOfConfigured
  <2> QED  BY <2>3, <2>4, <2>5, <2>6, <2>7 DEF CameraIInv
<1>3. CASE ChangeStreams
  <2>1. /\ camChange.at = "streams"
        /\ camChange' = [camChange EXCEPT !.at = "cameras"]
        /\ camsOf' = [camsOf EXCEPT !.streams = n]
        /\ UNCHANGED <<previewMemo, camLock, viewer, camProbe, camMarks>>
    BY <1>3 DEF ChangeStreams
  <2>2. streamReader' \in [1 .. MaxCameraSets -> ReaderState]
    <3>1. \A i \in 1 .. MaxCameraSets : streamReader[i] \in ReaderState  BY <1>0 DEF CameraTypes
    <3>2. \A r \in ReaderState :
            /\ [r EXCEPT !.stop = TRUE, !.at = IF @ = "read" THEN "top" ELSE @] \in ReaderState
            /\ [r EXCEPT !.at = "top"] \in ReaderState
      BY DEF ReaderState
    <3> QED  BY <1>3, <3>1, <3>2 DEF ChangeStreams
  <2>3. CameraTypes'
    <3>1. camsOf' \in [{"health", "streams", "preview"} -> 1 .. MaxCameraSets]
      BY <1>0, <1>1, <2>1 DEF CameraTypes
    <3>2. camChange' \in [at : ChangePlace, n : 1 .. MaxCameraSets]
      BY <1>0, <2>1 DEF CameraTypes, ChangePlace
    <3> QED  BY <1>0, <2>1, <2>2, <3>1, <3>2 DEF CameraTypes, ViewerState
  <2>4. camChange'.at = "cameras" /\ camChange'.n = n
        /\ camsOf'.streams = n /\ camsOf'.preview = camsOf.preview /\ camsOf'.health = camsOf.health
    BY <1>0, <2>1 DEF CameraTypes
  <2>5. ChangeInStep'  BY <1>0, <1>1, <2>1, <2>4 DEF ChangeInStep, ChangePlace
  <2>6. LockHeld' /\ OldCameraLeavesScreen'
    BY <1>0, <2>1 DEF LockHeld, OldCameraLeavesScreen
  <2>7. ScreenKept'
    BY <1>0, <2>1, <2>4 DEF ScreenKept, AskedFor, OfGeneration
  <2>8. StatusOfConfigured'
    BY <1>0, <2>1, <2>4 DEF StatusOfConfigured
  <2> QED  BY <2>3, <2>5, <2>6, <2>7, <2>8 DEF CameraIInv
<1>4. CASE ChangePreview
  <2>0. UNCHANGED <<streamReader, camLock, viewer, camProbe>>  BY <1>4 DEF ChangePreview
  <2>1. CASE camChange.at = "cameras"
    <3>1. /\ camChange' = [camChange EXCEPT !.at = "generation"]
          /\ camsOf' = [camsOf EXCEPT !.preview = n]
          /\ UNCHANGED <<previewMemo, camMarks>>
      BY <1>4, <2>1 DEF ChangePreview
    <3>2. CameraTypes'
      <4>1. camsOf' \in [{"health", "streams", "preview"} -> 1 .. MaxCameraSets]
            /\ camChange' \in [at : ChangePlace, n : 1 .. MaxCameraSets]
        BY <1>0, <1>1, <3>1 DEF CameraTypes, ChangePlace
      <4> QED  BY <1>0, <2>0, <3>1, <4>1 DEF CameraTypes, ViewerState, ReaderState
    <3>3. camChange'.at = "generation" /\ camChange'.n = n
          /\ camsOf'.streams = camsOf.streams /\ camsOf'.preview = n /\ camsOf'.health = camsOf.health
      BY <1>0, <3>1 DEF CameraTypes
    <3>4. ChangeInStep'  BY <1>0, <1>1, <2>1, <3>1, <3>3 DEF ChangeInStep, ChangePlace
    <3>5. LockHeld' /\ OldCameraLeavesScreen' /\ StatusOfConfigured'
      BY <1>0, <2>0, <3>1, <3>3 DEF LockHeld, OldCameraLeavesScreen, StatusOfConfigured
    <3>6. ScreenKept'
      BY <1>0, <2>0, <2>1, <3>1, <3>3 DEF ScreenKept, AskedFor, OfGeneration
    <3> QED  BY <3>2, <3>4, <3>5, <3>6 DEF CameraIInv
  <2>2. CASE camChange.at = "generation"
    <3>1. /\ camChange' = [camChange EXCEPT !.at = "cache"]
          /\ previewMemo' = [previewMemo EXCEPT !.gen = previewMemo.gen + 1]
          /\ camMarks' = [camMarks EXCEPT !.raced = @ \/ ViewersCaught]
          /\ UNCHANGED camsOf
      BY <1>4, <2>2 DEF ChangePreview, NextGeneration
    <3>2. previewMemo.gen = n - 1 /\ previewMemo.gen + 1 = n /\ n \in FrameOf
      BY <1>0, <1>1, <2>2 DEF ChangeInStep, FrameOf
    <3>3. CameraTypes'
      <4>1. camChange' \in [at : ChangePlace, n : 1 .. MaxCameraSets]
        BY <1>0, <3>1 DEF CameraTypes, ChangePlace
      <4>2. previewMemo' \in [cache : [of : FrameOf, fresh : BOOLEAN], last : FrameOf, gen : FrameOf]
        BY <1>0, <3>1, <3>2 DEF CameraTypes
      <4>3. camMarks' \in [done : 1 .. MaxCameraSets, raced : BOOLEAN, lateProbe : BOOLEAN, oldShown : BOOLEAN]
        BY <1>0, <3>1 DEF CameraTypes
      <4> QED  BY <1>0, <2>0, <3>1, <4>1, <4>2, <4>3 DEF CameraTypes, ViewerState, ReaderState
    <3>4. /\ camChange'.at = "cache" /\ camChange'.n = n /\ previewMemo'.gen = n
          /\ previewMemo'.cache = previewMemo.cache /\ previewMemo'.last = previewMemo.last
          /\ camMarks'.raced = (camMarks.raced \/ ViewersCaught)
          /\ camMarks'.done = camMarks.done /\ camMarks'.oldShown = camMarks.oldShown
          /\ camMarks'.lateProbe = camMarks.lateProbe
      BY <1>0, <3>1, <3>2 DEF CameraTypes
    <3>5. ChangeInStep'  BY <1>0, <1>1, <2>2, <3>1, <3>4 DEF ChangeInStep, ChangePlace
    <3>6. LockHeld' /\ OldCameraLeavesScreen' /\ StatusOfConfigured'
      BY <1>0, <2>0, <3>1, <3>4 DEF LockHeld, OldCameraLeavesScreen, StatusOfConfigured
    <3>7. ScreenKept'
      <4>1. \A v \in Viewer : AskedFor(viewer[v])'
        BY <1>0, <2>0, <3>4 DEF ScreenKept, AskedFor
      <4>2. ~camMarks'.raced => \A v \in Viewer : OfGeneration(viewer[v])'
        <5>1. ~camMarks'.raced => ~camMarks.raced
                /\ \A v \in Viewer : viewer[v].at \notin {"stream", "keep", "cache", "memo"}
          BY <3>4 DEF ViewersCaught
        <5> QED  BY <1>0, <2>0, <5>1 DEF ScreenKept, OfGeneration
      <4>3. ~camMarks'.raced =>
              /\ previewMemo'.cache.of = 0 \/ previewMemo'.cache.of >= camMarks'.done
              /\ previewMemo'.last = 0 \/ previewMemo'.last >= camMarks'.done
        BY <1>0, <2>2, <3>4 DEF ScreenKept
      <4> QED  BY <2>0, <3>4, <4>1, <4>2, <4>3 DEF ScreenKept
    <3> QED  BY <3>3, <3>5, <3>6, <3>7 DEF CameraIInv
  <2>3. CASE camChange.at = "cache"
    <3>1. /\ camChange' = [camChange EXCEPT !.at = "last"]
          /\ previewMemo' = [previewMemo EXCEPT !.cache = NoCache]
          /\ camMarks' = [camMarks EXCEPT !.raced = @ \/ ViewersCaught]
          /\ UNCHANGED camsOf
      BY <1>4, <2>3 DEF ChangePreview
    <3>3. CameraTypes'
      <4>1. camChange' \in [at : ChangePlace, n : 1 .. MaxCameraSets]
        BY <1>0, <3>1 DEF CameraTypes, ChangePlace
      <4>2. previewMemo' \in [cache : [of : FrameOf, fresh : BOOLEAN], last : FrameOf, gen : FrameOf]
        BY <1>0, <3>1 DEF CameraTypes, NoCache
      <4>3. camMarks' \in [done : 1 .. MaxCameraSets, raced : BOOLEAN, lateProbe : BOOLEAN, oldShown : BOOLEAN]
        BY <1>0, <3>1 DEF CameraTypes
      <4> QED  BY <1>0, <2>0, <3>1, <4>1, <4>2, <4>3 DEF CameraTypes, ViewerState, ReaderState
    <3>4. /\ camChange'.at = "last" /\ camChange'.n = n /\ previewMemo'.gen = previewMemo.gen
          /\ previewMemo'.cache.of = 0 /\ previewMemo'.last = previewMemo.last
          /\ camMarks'.raced = (camMarks.raced \/ ViewersCaught)
          /\ camMarks'.done = camMarks.done /\ camMarks'.oldShown = camMarks.oldShown
          /\ camMarks'.lateProbe = camMarks.lateProbe
      BY <1>0, <3>1 DEF CameraTypes, NoCache
    <3>5. ChangeInStep'  BY <1>0, <1>1, <2>3, <3>1, <3>4 DEF ChangeInStep, ChangePlace
    <3>6. LockHeld' /\ OldCameraLeavesScreen' /\ StatusOfConfigured'
      BY <1>0, <2>0, <3>1, <3>4 DEF LockHeld, OldCameraLeavesScreen, StatusOfConfigured
    <3>7. ScreenKept'
      BY <1>0, <2>0, <2>3, <3>4 DEF ScreenKept, AskedFor, OfGeneration
    <3> QED  BY <3>3, <3>5, <3>6, <3>7 DEF CameraIInv
  <2>4. CASE camChange.at = "last"
    <3>1. /\ camChange' = [camChange EXCEPT !.at = "done"]
          /\ previewMemo' = [previewMemo EXCEPT !.last = 0]
          /\ camMarks' = [camMarks EXCEPT !.done = n, !.raced = @ \/ ViewersCaught]
          /\ UNCHANGED camsOf
      BY <1>4, <2>4 DEF ChangePreview, NoLast
    <3>3. CameraTypes'
      <4>1. camChange' \in [at : ChangePlace, n : 1 .. MaxCameraSets]
        BY <1>0, <3>1 DEF CameraTypes, ChangePlace
      <4>2. previewMemo' \in [cache : [of : FrameOf, fresh : BOOLEAN], last : FrameOf, gen : FrameOf]
        BY <1>0, <3>1 DEF CameraTypes
      <4>3. camMarks' \in [done : 1 .. MaxCameraSets, raced : BOOLEAN, lateProbe : BOOLEAN, oldShown : BOOLEAN]
        BY <1>0, <1>1, <3>1 DEF CameraTypes
      <4> QED  BY <1>0, <2>0, <3>1, <4>1, <4>2, <4>3 DEF CameraTypes, ViewerState, ReaderState
    <3>4. /\ camChange'.at = "done" /\ camChange'.n = n /\ previewMemo'.gen = previewMemo.gen
          /\ previewMemo'.cache = previewMemo.cache /\ previewMemo'.last = 0
          /\ camMarks'.raced = (camMarks.raced \/ ViewersCaught)
          /\ camMarks'.done = n /\ camMarks'.oldShown = camMarks.oldShown
          /\ camMarks'.lateProbe = camMarks.lateProbe
      BY <1>0, <3>1 DEF CameraTypes
    <3>5. ChangeInStep'  BY <1>0, <1>1, <2>4, <3>1, <3>4 DEF ChangeInStep, ChangePlace
    <3>6. LockHeld' /\ OldCameraLeavesScreen' /\ StatusOfConfigured'
      BY <1>0, <2>0, <3>1, <3>4 DEF LockHeld, OldCameraLeavesScreen, StatusOfConfigured
    <3>7. ScreenKept'
      <4>1. camMarks.done = n - 1  BY <1>0, <1>1, <2>4 DEF ChangeInStep, ChangePlace
      <4>2. \A v \in Viewer : AskedFor(viewer[v])'
        <5> SUFFICES ASSUME NEW v \in Viewer PROVE AskedFor(viewer[v])'  OBVIOUS
        <5>1. viewer[v] \in ViewerState  BY <1>0 DEF CameraTypes
        <5>2. viewer[v].since \in Nat  BY <5>1 DEF ViewerState
        <5>3. viewer[v].since <= n - 1 => viewer[v].since <= n  BY <1>1, <5>2
        <5> QED  BY <1>0, <2>0, <3>4, <4>1, <5>3 DEF ScreenKept, AskedFor
      <4>3. ~camMarks'.raced => \A v \in Viewer : OfGeneration(viewer[v])'
        BY <1>0, <2>0, <3>4 DEF ScreenKept, OfGeneration
      <4>4. ~camMarks'.raced => previewMemo'.cache.of = 0 \/ previewMemo'.cache.of >= n
        BY <1>0, <2>4, <3>4 DEF ScreenKept
      <4> QED  BY <3>4, <4>2, <4>3, <4>4 DEF ScreenKept
    <3> QED  BY <3>3, <3>5, <3>6, <3>7 DEF CameraIInv
  <2> QED  BY <1>4, <2>1, <2>2, <2>3, <2>4 DEF ChangePreview
<1> QED  BY <1>2, <1>3, <1>4

(* A thread of a browser moves; the frame it shows, if any, is not older   *)
(* than what it asked for.                                                 *)
LEMMA ViewerKeeps ==
  ASSUME CameraIInv, NEW v \in Viewer, NEW new \in ViewerState, ViewerMoves(v, new),
         UNCHANGED <<camsOf, camChange, streamReader, camProbe>>,
         AskedFor(new), ~camMarks.raced => OfGeneration(new),
         UNCHANGED camMarks \/
           \E shot : /\ camMarks' = [camMarks EXCEPT !.oldShown =
                                       @ \/ (shot # 0 /\ shot < viewer[v].since)]
                     /\ ~camMarks.raced => ~(shot # 0 /\ shot < viewer[v].since),
         \/ camLock' = camLock /\ (new.at \in {"shoot", "memo"} => camLock = v)
         \/ camLock = v /\ camLock' = "free" /\ new.at \notin {"shoot", "memo"}
         \/ camLock = "free" /\ camLock' = v,
         previewMemo' \in [cache : [of : FrameOf, fresh : BOOLEAN], last : FrameOf, gen : FrameOf],
         previewMemo'.gen = previewMemo.gen,
         ~camMarks.raced =>
           /\ \/ previewMemo'.cache.of \in {0, previewMemo.cache.of}
              \/ previewMemo'.cache.of >= previewMemo.gen
           /\ \/ previewMemo'.last \in {0, previewMemo.last}
              \/ previewMemo'.last >= previewMemo.gen
  PROVE  CameraIInv'
<1> USE FramesAreNumbers
<1>0. /\ CameraTypes /\ ChangeInStep /\ LockHeld /\ ScreenKept /\ OldCameraLeavesScreen
      /\ StatusOfConfigured
  BY DEF CameraIInv
<1>1. /\ viewer' \in [Viewer -> ViewerState]
      /\ \A u \in Viewer : viewer'[u] = IF u = v THEN new ELSE viewer[u]
  BY <1>0 DEF CameraTypes, ViewerMoves
<1>2. /\ camMarks' \in [done : 1 .. MaxCameraSets, raced : BOOLEAN, lateProbe : BOOLEAN,
                        oldShown : BOOLEAN]
      /\ camMarks'.done = camMarks.done /\ camMarks'.raced = camMarks.raced
      /\ camMarks'.lateProbe = camMarks.lateProbe
      /\ camMarks'.oldShown => camMarks.oldShown \/ camMarks.raced
  <2>1. camMarks \in [done : 1 .. MaxCameraSets, raced : BOOLEAN, lateProbe : BOOLEAN,
                      oldShown : BOOLEAN]
    BY <1>0 DEF CameraTypes
  <2>2. CASE UNCHANGED camMarks  BY <2>1, <2>2
  <2>3. ASSUME NEW shot, NEW old \in BOOLEAN, old => camMarks.oldShown \/ camMarks.raced,
               camMarks' = [camMarks EXCEPT !.oldShown = old]
        PROVE  /\ camMarks' \in [done : 1 .. MaxCameraSets, raced : BOOLEAN, lateProbe : BOOLEAN,
                                 oldShown : BOOLEAN]
               /\ camMarks'.done = camMarks.done /\ camMarks'.raced = camMarks.raced
               /\ camMarks'.lateProbe = camMarks.lateProbe
               /\ camMarks'.oldShown => camMarks.oldShown \/ camMarks.raced
    BY <2>1, <2>3
  <2>4. CASE \E shot : /\ camMarks' = [camMarks EXCEPT !.oldShown =
                                         @ \/ (shot # 0 /\ shot < viewer[v].since)]
                       /\ ~camMarks.raced => ~(shot # 0 /\ shot < viewer[v].since)
    <3>1. PICK shot : /\ camMarks' = [camMarks EXCEPT !.oldShown =
                                         @ \/ (shot # 0 /\ shot < viewer[v].since)]
                      /\ ~camMarks.raced => ~(shot # 0 /\ shot < viewer[v].since)
      BY <2>4
    <3> DEFINE old == camMarks.oldShown \/ (shot # 0 /\ shot < viewer[v].since)
    <3>2. old \in BOOLEAN /\ (old => camMarks.oldShown \/ camMarks.raced)  BY <3>1
    <3>3. camMarks' = [camMarks EXCEPT !.oldShown = old]  BY <3>1
    <3> HIDE DEF old
    <3> QED  BY <2>3, <3>2, <3>3
  <2> QED  BY <2>2, <2>4
<1>3. CameraTypes'
  BY <1>0, <1>1, <1>2 DEF CameraTypes, ViewerState, ReaderState
<1>4. ChangeInStep'  BY <1>0, <1>2 DEF ChangeInStep
<1>5. LockHeld'
  <2>1. v \notin {"free", "probe"}  BY ViewerAssumption
  <2>2. \A u \in Viewer : u # "free" /\ u # "probe"  BY ViewerAssumption
  <2> QED  BY <1>0, <1>1, <2>1, <2>2 DEF LockHeld
<1>6. OldCameraLeavesScreen' /\ StatusOfConfigured'
  BY <1>0, <1>2 DEF OldCameraLeavesScreen, StatusOfConfigured
<1>7. ScreenKept'
  <2>1. \A u \in Viewer : AskedFor(viewer[u])'
    BY <1>0, <1>1, <1>2 DEF ScreenKept, AskedFor
  <2>2. ~camMarks'.raced => \A u \in Viewer : OfGeneration(viewer[u])'
    BY <1>0, <1>1, <1>2 DEF ScreenKept, OfGeneration
  <2>3. /\ previewMemo.gen >= camMarks.done
        /\ camChange.at = "last" => previewMemo.gen = camChange.n
        /\ camChange.n >= camMarks.done
    <3>1. camChange.n \in Nat  BY <1>0 DEF CameraTypes
    <3> QED  BY <1>0, <3>1 DEF ChangeInStep, ChangePlace
  <2>4. /\ previewMemo.gen \in Nat /\ camMarks.done \in Nat /\ camChange.n \in Nat
        /\ previewMemo'.cache.of \in Nat /\ previewMemo'.last \in Nat
    BY <1>0 DEF CameraTypes
  <2>5. ~camMarks'.raced =>
          /\ previewMemo'.cache.of = 0 \/ previewMemo'.cache.of >=
               (IF camChange'.at = "last" THEN camChange'.n ELSE camMarks'.done)
          /\ previewMemo'.last = 0 \/ previewMemo'.last >= camMarks'.done
    BY <1>0, <1>2, <2>3, <2>4 DEF ScreenKept
  <2> QED  BY <2>1, <2>2, <2>5 DEF ScreenKept
<1> QED  BY <1>3, <1>4, <1>5, <1>6, <1>7 DEF CameraIInv

(* One who asks for nothing. *)
LEMMA AsleepFacts == Asleep \in ViewerState /\ Asleep.at = "idle" /\ AskedFor(Asleep) /\ OfGeneration(Asleep)
BY FramesAreNumbers DEF Asleep, ViewerState, AskedFor, OfGeneration

LEMMA ViewerStepKeeps ==
  ASSUME CameraIInv, NEW v \in Viewer,
         \/ AskPreview(v) \/ FromStream(v) \/ KeepStreamFrame(v) \/ FromCache(v)
         \/ ShootPreview(v) \/ KeepFrame(v)
  PROVE  CameraIInv'
<1> USE FramesAreNumbers
<1> DEFINE w == viewer[v]
           n == camChange.n
<1>0. /\ CameraTypes /\ ChangeInStep /\ LockHeld /\ ScreenKept
  BY DEF CameraIInv
<1>1. /\ w \in ViewerState /\ AskedFor(w) /\ (~camMarks.raced => OfGeneration(w))
      /\ w.at \in {"shoot", "memo"} => camLock = v
  BY <1>0 DEF CameraTypes, ScreenKept, LockHeld
<1>2. /\ n \in Nat /\ n >= 1
      /\ previewMemo.gen >= camMarks.done /\ camsOf.preview >= previewMemo.gen
      /\ camsOf.streams >= previewMemo.gen /\ camsOf.preview >= camMarks.done
      /\ camsOf.streams >= camMarks.done
  <2>1. n \in Nat /\ n >= 1  BY <1>0 DEF CameraTypes
  <2> QED  BY <1>0, <2>1 DEF ChangeInStep, ChangePlace
<1>3. /\ camsOf.preview \in FrameOf /\ camsOf.streams \in FrameOf /\ camMarks.done \in FrameOf
      /\ previewMemo.gen \in FrameOf /\ previewMemo.last \in FrameOf /\ previewMemo.cache.of \in FrameOf
      /\ previewMemo \in [cache : [of : FrameOf, fresh : BOOLEAN], last : FrameOf, gen : FrameOf]
  BY <1>0 DEF CameraTypes
<1>4. ~camMarks.raced =>
        /\ previewMemo.cache.of = 0 \/ previewMemo.cache.of >= camMarks.done
        /\ previewMemo.last = 0 \/ previewMemo.last >= camMarks.done
  <2>1. camChange.at = "last" => camChange.n >= camMarks.done
    BY <1>0, <1>2 DEF ChangeInStep, ChangePlace
  <2> QED  BY <1>0, <1>2, <1>3, <2>1 DEF ScreenKept
<1>5. CASE AskPreview(v)
  <2> DEFINE new == [Asleep EXCEPT !.at = IF cameraKind[camsOf.preview] = "stream" THEN "stream" ELSE "cache",
                                   !.cam = camsOf.preview, !.since = camMarks.done]
  <2>1. ViewerMoves(v, new)
        /\ UNCHANGED <<camsOf, camChange, previewMemo, streamReader, camLock, camProbe, camMarks>>
    BY <1>5 DEF AskPreview
  <2>2. /\ new \in ViewerState /\ new.at \in {"stream", "cache"} /\ new.cam = camsOf.preview
        /\ new.since = camMarks.done
    BY <1>3 DEF Asleep, ViewerState
  <2> HIDE DEF new
  <2>3. AskedFor(new) /\ OfGeneration(new)  BY <1>2, <1>3, <2>2 DEF AskedFor, OfGeneration
  <2> QED  BY <1>3, <2>1, <2>2, <2>3, ViewerKeeps
<1>6. CASE FromStream(v)
  <2> DEFINE new == IF streamBuffer
                    THEN [w EXCEPT !.at = "keep", !.cam = 0, !.took = camsOf.streams]
                    ELSE [w EXCEPT !.at = "cache"]
  <2>1. ViewerMoves(v, new) /\ w.at = "stream"
        /\ UNCHANGED <<camsOf, camChange, previewMemo, streamReader, camLock, camProbe, camMarks>>
    BY <1>6 DEF FromStream, ViewerAt
  <2>2. new \in ViewerState /\ new.since = w.since
        /\ \/ new.at = "keep" /\ new.took = camsOf.streams
           \/ new.at = "cache" /\ new.cam = w.cam
    BY <1>1, <1>3 DEF ViewerState
  <2>3. w.since \in Nat /\ w.since <= camMarks.done  BY <1>1, <2>1 DEF AskedFor, ViewerState
  <2> HIDE DEF new
  <2>4. AskedFor(new)  BY <1>1, <1>2, <1>3, <2>1, <2>2, <2>3 DEF AskedFor
  <2>5. ~camMarks.raced => OfGeneration(new)  BY <1>1, <1>2, <2>1, <2>2 DEF OfGeneration
  <2>6. new.at \notin {"shoot", "memo"}  BY <2>2
  <2> QED  BY <1>3, <2>1, <2>2, <2>4, <2>5, <2>6, ViewerKeeps
<1>7. CASE KeepStreamFrame(v)
  <2>1. /\ w.at = "keep" /\ previewMemo' = [previewMemo EXCEPT !.last = w.took]
        /\ ViewerMoves(v, Asleep)
        /\ camMarks' = [camMarks EXCEPT !.oldShown = @ \/ (w.took # 0 /\ w.took < viewer[v].since)]
        /\ UNCHANGED <<camsOf, camChange, streamReader, camLock, camProbe>>
    BY <1>7 DEF KeepStreamFrame, ViewerAt, ShowsFrame
  <2>2. w.took \in FrameOf /\ w.since \in Nat /\ w.took \in Nat  BY <1>1 DEF ViewerState
  <2>3. ~(w.took # 0 /\ w.took < viewer[v].since)  BY <1>1, <2>1, <2>2 DEF AskedFor
  <2>4. /\ previewMemo' \in [cache : [of : FrameOf, fresh : BOOLEAN], last : FrameOf, gen : FrameOf]
        /\ previewMemo'.gen = previewMemo.gen /\ previewMemo'.cache = previewMemo.cache
        /\ previewMemo'.last = w.took
    BY <1>3, <2>1, <2>2
  <2>5. ~camMarks.raced => w.took = 0 \/ w.took >= previewMemo.gen
    BY <1>1, <2>1 DEF OfGeneration
  <2> HIDE DEF w
  <2> QED  BY <2>1, <2>3, <2>4, <2>5, AsleepFacts, ViewerKeeps
<1>8. CASE FromCache(v)
  <2>0. w.at = "cache" /\ w.since \in Nat /\ w.since <= camMarks.done
        /\ UNCHANGED <<camsOf, camChange, previewMemo, streamReader, camProbe>>
    BY <1>1, <1>8 DEF FromCache, ViewerAt, ViewerState, AskedFor
  <2>1. CASE previewMemo.cache.fresh \/ camLock # "free"
    <3> DEFINE shot == PreviewResult(previewMemo.cache.of, previewMemo.last)
    <3>1. /\ ViewerMoves(v, Asleep) /\ UNCHANGED camLock
          /\ camMarks' = [camMarks EXCEPT !.oldShown = @ \/ (shot # 0 /\ shot < viewer[v].since)]
      BY <1>8, <2>1 DEF FromCache, ShowsFrame
    <3>2. ~camMarks.raced => ~(shot # 0 /\ shot < viewer[v].since)
      BY <1>3, <1>4, <2>0 DEF PreviewResult
    <3> HIDE DEF w, shot
    <3> QED  BY <1>3, <2>0, <3>1, <3>2, AsleepFacts, ViewerKeeps
  <2>2. CASE ~(previewMemo.cache.fresh \/ camLock # "free")
    <3> DEFINE new == [w EXCEPT !.at = "shoot", !.gen = previewMemo.gen]
    <3>1. ViewerMoves(v, new) /\ camLock = "free" /\ camLock' = v /\ UNCHANGED camMarks
      BY <1>8, <2>2 DEF FromCache
    <3>2. /\ new \in ViewerState /\ new.at = "shoot" /\ new.gen = previewMemo.gen
          /\ new.cam = w.cam /\ new.since = w.since
      BY <1>1, <1>3 DEF ViewerState
    <3> HIDE DEF new
    <3>3. AskedFor(new) /\ (~camMarks.raced => OfGeneration(new))
      BY <1>1, <2>0, <3>2 DEF AskedFor, OfGeneration
    <3> QED  BY <1>3, <2>0, <3>1, <3>2, <3>3, ViewerKeeps
  <2> QED  BY <2>1, <2>2
<1>9. CASE ShootPreview(v)
  <2>0. w.at = "shoot" /\ w.since \in Nat /\ w.cam \in FrameOf /\ w.cam >= w.since
        /\ UNCHANGED <<camsOf, camChange, previewMemo, streamReader, camProbe>>
    BY <1>1, <1>9 DEF ShootPreview, ViewerAt, ViewerState, AskedFor
  <2>1. PICK shot \in {w.cam, 0} :
          IF w.gen # previewMemo.gen
          THEN ShowsFrame(v, shot) /\ camLock' = "free"
          ELSE /\ ViewerMoves(v, [Asleep EXCEPT !.at = "memo", !.took = shot, !.since = viewer[v].since])
               /\ UNCHANGED <<camLock, camMarks>>
    BY <1>9 DEF ShootPreview
  <2>2. shot \in FrameOf /\ shot \in Nat /\ ~(shot # 0 /\ shot < viewer[v].since)  BY <2>0
  <2>3. CASE w.gen # previewMemo.gen
    <3>1. /\ ViewerMoves(v, Asleep) /\ camLock = v /\ camLock' = "free"
          /\ camMarks' = [camMarks EXCEPT !.oldShown = @ \/ (shot # 0 /\ shot < viewer[v].since)]
      BY <1>1, <2>0, <2>1, <2>3 DEF ShowsFrame
    <3> HIDE DEF w
    <3> QED  BY <1>3, <2>0, <2>2, <3>1, AsleepFacts, ViewerKeeps
  <2>4. CASE w.gen = previewMemo.gen
    <3> DEFINE new == [Asleep EXCEPT !.at = "memo", !.took = shot, !.since = viewer[v].since]
    <3>1. ViewerMoves(v, new) /\ camLock = v /\ UNCHANGED <<camLock, camMarks>>
      BY <1>1, <2>0, <2>1, <2>4
    <3>2. new \in ViewerState /\ new.at = "memo" /\ new.took = shot /\ new.since = w.since
      BY <1>1, <2>2 DEF Asleep, ViewerState
    <3> HIDE DEF new
    <3>3. AskedFor(new)  BY <1>1, <2>0, <2>2, <3>2 DEF AskedFor
    <3>4. ~camMarks.raced => OfGeneration(new)  BY <1>1, <2>0, <2>1, <2>4, <3>2 DEF OfGeneration
    <3> QED  BY <1>3, <2>0, <3>1, <3>2, <3>3, <3>4, ViewerKeeps
  <2> QED  BY <2>3, <2>4
<1>10. CASE KeepFrame(v)
  <2> DEFINE last == PreviewResult(w.took, previewMemo.last)
  <2>1. /\ w.at = "memo"
        /\ previewMemo' = [previewMemo EXCEPT !.cache = [of |-> w.took, fresh |-> TRUE], !.last = last]
        /\ ViewerMoves(v, Asleep) /\ camLock = v /\ camLock' = "free"
        /\ camMarks' = [camMarks EXCEPT !.oldShown = @ \/ (last # 0 /\ last < viewer[v].since)]
        /\ UNCHANGED <<camsOf, camChange, streamReader, camProbe>>
    BY <1>1, <1>10 DEF KeepFrame, ViewerAt, ShowsFrame
  <2>2. w.took \in FrameOf /\ w.since \in Nat /\ w.took \in Nat /\ last \in FrameOf
        /\ last \in {w.took, previewMemo.last} /\ (w.took # 0 => last = w.took)
        /\ (w.took = 0 => last = previewMemo.last)
    BY <1>1, <1>3 DEF ViewerState, PreviewResult
  <2> HIDE DEF last
  <2>3. ~camMarks.raced => ~(last # 0 /\ last < viewer[v].since)
    BY <1>1, <1>3, <1>4, <2>1, <2>2 DEF AskedFor
  <2>4. /\ previewMemo' \in [cache : [of : FrameOf, fresh : BOOLEAN], last : FrameOf, gen : FrameOf]
        /\ previewMemo'.gen = previewMemo.gen /\ previewMemo'.cache.of = w.took
        /\ previewMemo'.last = last
    BY <1>3, <2>1, <2>2
  <2>5. ~camMarks.raced => w.took = 0 \/ w.took >= previewMemo.gen
    BY <1>1, <2>1 DEF OfGeneration
  <2> HIDE DEF w
  <2> QED  BY <2>1, <2>2, <2>3, <2>4, <2>5, AsleepFacts, ViewerKeeps
<1> QED  BY <1>5, <1>6, <1>7, <1>8, <1>9, <1>10

(* The probe of CameraHealth. *)
LEMMA ProbeKeeps ==
  ASSUME CameraIInv, ProbeBegins \/ ProbeLocks \/ ProbeEnds
  PROVE  CameraIInv'
<1> USE FramesAreNumbers
<1>0. /\ CameraTypes /\ ChangeInStep /\ LockHeld /\ ScreenKept /\ OldCameraLeavesScreen
      /\ StatusOfConfigured
  BY DEF CameraIInv
<1>1. UNCHANGED <<camsOf, camChange, previewMemo, streamReader, viewer>>
  BY DEF ProbeBegins, ProbeLocks, ProbeEnds
<1>2. /\ camProbe \in [at : {"idle", "lock", "shoot"}, cam : FrameOf, status : FrameOf]
      /\ camMarks \in [done : 1 .. MaxCameraSets, raced : BOOLEAN, lateProbe : BOOLEAN,
                       oldShown : BOOLEAN]
      /\ camsOf.health \in FrameOf
  BY <1>0 DEF CameraTypes
<1>3. /\ camProbe' \in [at : {"idle", "lock", "shoot"}, cam : FrameOf, status : FrameOf]
      /\ camMarks' \in [done : 1 .. MaxCameraSets, raced : BOOLEAN, lateProbe : BOOLEAN,
                        oldShown : BOOLEAN]
      /\ camMarks'.done = camMarks.done /\ camMarks'.raced = camMarks.raced
      /\ camMarks'.oldShown = camMarks.oldShown
      /\ LockHeld'
      /\ StatusOfConfigured'
  <2>0. \A v \in Viewer : v # "free" /\ v # "probe"  BY ViewerAssumption
  <2>1. CASE ProbeBegins
    <3>1. camProbe' = [camProbe EXCEPT !.at = "lock", !.cam = camsOf.health]
          /\ UNCHANGED <<camLock, camMarks>>
      BY <2>1 DEF ProbeBegins
    <3> QED  BY <1>0, <1>1, <1>2, <3>1 DEF LockHeld, StatusOfConfigured
  <2>2. CASE ProbeLocks
    <3>1. /\ camLock = "free" /\ camLock' = "probe" /\ camProbe' = [camProbe EXCEPT !.at = "shoot"]
          /\ UNCHANGED camMarks
      BY <2>2 DEF ProbeLocks
    <3> QED  BY <1>0, <1>1, <1>2, <2>0, <3>1 DEF LockHeld, StatusOfConfigured
  <2>3. CASE ProbeEnds
    <3> DEFINE late == camProbe.cam # camsOf.health
    <3>1. /\ camProbe.at = "shoot" /\ camLock' = "free"
          /\ camProbe' = [NoProbe EXCEPT !.status = camProbe.cam]
          /\ camMarks' = [camMarks EXCEPT !.lateProbe = late]
      BY <2>3 DEF ProbeEnds
    <3>2. camProbe' = [at |-> "idle", cam |-> 0, status |-> camProbe.cam]  BY <3>1 DEF NoProbe
    <3>3. late \in BOOLEAN  OBVIOUS
    <3>4. camProbe.cam \notin {0, camsOf.health} => late  OBVIOUS
    <3> HIDE DEF late
    <3>5. /\ camMarks' \in [done : 1 .. MaxCameraSets, raced : BOOLEAN, lateProbe : BOOLEAN,
                            oldShown : BOOLEAN]
          /\ camMarks'.done = camMarks.done /\ camMarks'.raced = camMarks.raced
          /\ camMarks'.oldShown = camMarks.oldShown /\ camMarks'.lateProbe = late
      BY <1>2, <3>1, <3>3
    <3>6. LockHeld'  BY <1>0, <1>1, <2>0, <3>1, <3>2 DEF LockHeld
    <3>7. StatusOfConfigured'  BY <1>1, <3>2, <3>4, <3>5 DEF StatusOfConfigured
    <3> QED  BY <1>2, <3>2, <3>5, <3>6, <3>7
  <2> QED  BY <2>1, <2>2, <2>3
<1>4. CameraTypes'  BY <1>0, <1>1, <1>3 DEF CameraTypes, ViewerState, ReaderState
<1>5. ChangeInStep'  BY <1>0, <1>1, <1>3 DEF ChangeInStep
<1>6. ScreenKept'  BY <1>0, <1>1, <1>3 DEF ScreenKept, AskedFor, OfGeneration
<1>7. OldCameraLeavesScreen'  BY <1>0, <1>3 DEF OldCameraLeavesScreen
<1> QED  BY <1>3, <1>4, <1>5, <1>6, <1>7 DEF CameraIInv

(* The readers of the streams, and time. *)
LEMMA ReaderKeeps ==
  ASSUME CameraIInv, CameraTime \/ \E n \in 1 .. MaxCameraSets : Reading(n)
  PROVE  CameraIInv'
<1> USE FramesAreNumbers
<1>0. /\ CameraTypes /\ ChangeInStep /\ LockHeld /\ ScreenKept /\ OldCameraLeavesScreen
      /\ StatusOfConfigured
  BY DEF CameraIInv
<1>1. UNCHANGED <<camsOf, camChange, camLock, viewer, camProbe, camMarks>>
  BY DEF CameraTime, Reading, ReaderTop, ReaderSpawns, ReaderFrame, ReaderEof, ReaderMoves
<1>2. streamReader' \in [1 .. MaxCameraSets -> ReaderState]
  <2>1. CASE CameraTime  BY <1>0, <2>1 DEF CameraTime, CameraTypes
  <2>2. ASSUME NEW n \in 1 .. MaxCameraSets, Reading(n)
        PROVE  streamReader' \in [1 .. MaxCameraSets -> ReaderState]
    <3>1. PICK next \in {"top", "spawn", "read", "ended"} :
            streamReader' = [streamReader EXCEPT ![n].at = next]
      BY <2>2 DEF Reading, ReaderTop, ReaderSpawns, ReaderFrame, ReaderEof, ReaderMoves
    <3>2. [streamReader[n] EXCEPT !.at = next] \in ReaderState
      BY <1>0 DEF CameraTypes, ReaderState
    <3>3. streamReader' = [streamReader EXCEPT ![n] = [streamReader[n] EXCEPT !.at = next]]
      BY <3>1
    <3> QED  BY <1>0, <3>2, <3>3 DEF CameraTypes
  <2> QED  BY <2>1, <2>2
<1>3. /\ previewMemo' \in [cache : [of : FrameOf, fresh : BOOLEAN], last : FrameOf, gen : FrameOf]
      /\ previewMemo'.gen = previewMemo.gen /\ previewMemo'.cache.of = previewMemo.cache.of
      /\ previewMemo'.last \in {0, previewMemo.last}
  <2>1. previewMemo \in [cache : [of : FrameOf, fresh : BOOLEAN], last : FrameOf, gen : FrameOf]
    BY <1>0 DEF CameraTypes
  <2>2. \/ previewMemo' = previewMemo
        \/ previewMemo' = [previewMemo EXCEPT !.cache = [previewMemo.cache EXCEPT !.fresh = FALSE]]
        \/ previewMemo' = [previewMemo EXCEPT !.last = 0]
    BY <2>1 DEF CameraTime, Reading, ReaderTop, ReaderSpawns, ReaderFrame, ReaderEof, ReaderMoves
  <2>3. [previewMemo.cache EXCEPT !.fresh = FALSE] \in [of : FrameOf, fresh : BOOLEAN]
        /\ [previewMemo.cache EXCEPT !.fresh = FALSE].of = previewMemo.cache.of
    BY <2>1
  <2> QED  BY <2>1, <2>2, <2>3
<1>4. CameraTypes'  BY <1>0, <1>1, <1>2, <1>3 DEF CameraTypes, ViewerState
<1>5. ChangeInStep'  BY <1>0, <1>1, <1>3 DEF ChangeInStep
<1>6. LockHeld' /\ OldCameraLeavesScreen' /\ StatusOfConfigured'
  BY <1>0, <1>1 DEF LockHeld, OldCameraLeavesScreen, StatusOfConfigured
<1>7. ScreenKept'  BY <1>0, <1>1, <1>3 DEF ScreenKept, AskedFor, OfGeneration
<1> QED  BY <1>4, <1>5, <1>6, <1>7 DEF CameraIInv

LEMMA CameraKeeps == CameraIInv /\ [CameraNext]_cameraVars => CameraIInv'
<1> SUFFICES ASSUME CameraIInv, [CameraNext]_cameraVars PROVE CameraIInv'  OBVIOUS
<1>1. CASE ChangeBegins \/ ChangeStreams \/ ChangePreview  BY <1>1, ChangeKeeps
<1>2. ASSUME NEW v \in Viewer,
             \/ AskPreview(v) \/ FromStream(v) \/ KeepStreamFrame(v) \/ FromCache(v)
             \/ ShootPreview(v) \/ KeepFrame(v)
      PROVE  CameraIInv'
  BY <1>2, ViewerStepKeeps
<1>3. CASE ProbeBegins \/ ProbeLocks \/ ProbeEnds  BY <1>3, ProbeKeeps
<1>4. CASE CameraTime \/ \E n \in 1 .. MaxCameraSets : Reading(n)  BY <1>4, ReaderKeeps
<1>5. CASE UNCHANGED cameraVars
  <2>1. UNCHANGED <<camsOf, camChange, previewMemo, streamReader, camLock, viewer, camProbe, camMarks>>
    BY <1>5 DEF cameraVars
  <2>2. CameraTypes'  BY <2>1 DEF CameraIInv, CameraTypes, ViewerState, ReaderState
  <2>3. ChangeInStep' /\ LockHeld' /\ OldCameraLeavesScreen' /\ StatusOfConfigured'
    BY <2>1 DEF CameraIInv, ChangeInStep, LockHeld, OldCameraLeavesScreen, StatusOfConfigured
  <2>4. ScreenKept'  BY <2>1 DEF CameraIInv, ScreenKept, AskedFor, OfGeneration
  <2> QED  BY <2>2, <2>3, <2>4 DEF CameraIInv
<1> QED  BY <1>1, <1>2, <1>3, <1>4, <1>5 DEF CameraNext

(* For any number of browsers, of changes of the settings and whatever the *)
(* cameras are: one request at a time goes to a camera, and unless a       *)
(* thread was caught by the change between two of its statements, neither  *)
(* the page nor the heartbeat shows a camera that was replaced             *)
(* (camera_snapshot, set_cameras, CameraHealth).                           *)
THEOREM CameraInvariant == CameraSpec => []CameraInv
<1>1. CameraInit => CameraIInv  BY CameraStarts
<1>2. CameraIInv /\ [CameraNext]_cameraVars => CameraIInv'  BY CameraKeeps
<1>3. CameraIInv => CameraInv  BY CameraPromises
<1> QED  BY <1>1, <1>2, <1>3, PTL DEF CameraSpec
=============================================================================
