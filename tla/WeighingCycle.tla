---------------------------- MODULE WeighingCycle ----------------------------
(***************************************************************************)
(* The automaton of one weighing, agent/weighing/cycle.py: from empty      *)
(* scales to a weight that stood still, or to an error.  It only knows     *)
(* what it is shown at a tick, and ticks come at whatever intervals the    *)
(* caller keeps.                                                           *)
(***************************************************************************)
EXTENDS Naturals

CONSTANTS
  Load,  \* weights at or above vehicle_threshold_kg
  ZeroTimeout, VehicleTimeout, StableTimeout, StableDuration, NoDataTimeout,
  MaxGap  \* bound: the longest interval between two ticks

ASSUME CycleBounds ==
  {ZeroTimeout, VehicleTimeout, StableTimeout, StableDuration, NoDataTimeout, MaxGap} \subseteq Nat
ASSUME LoadAssumption == Load \cap {"none", "empty", "part"} = {}

VARIABLES
  cstate,        \* CycleState
  cycleResult,   \* the code of CycleResult
  inPhase,       \* time since _phase_started_at
  noDataFor,     \* one more than the time since _no_data_since, 0 while data come
  steadyWeight,  \* _candidate_weight, "none"
  steadyFor,     \* time since _candidate_since
  shownBefore    \* history: the weight last shown steadily and for how long; how
                 \* long nothing but silence was shown

cycleVars == <<cstate, cycleResult, inPhase, noDataFor, steadyWeight, steadyFor, shownBefore>>

WaitingState == {"wait_zero", "wait_vehicle", "wait_stable"}
LongestWait ==
  ZeroTimeout + VehicleTimeout + StableTimeout + StableDuration + NoDataTimeout + MaxGap
CappedTime(n) == IF n > LongestWait THEN LongestWait ELSE n

(* ScaleState as the automaton tells it apart. *)
ScaleShown ==
  [ok : {TRUE}, weight : {"empty", "part"} \cup Load, stable : BOOLEAN, overload : {FALSE}]
    \cup [ok : {TRUE}, weight : {"none"}, stable : {FALSE}, overload : BOOLEAN]
    \cup [ok : {FALSE}, weight : {"none"}, stable : {FALSE}, overload : {FALSE}]

CycleInit ==
  /\ cstate = "idle" /\ cycleResult = "none"
  /\ inPhase = 0 /\ noDataFor = 0 /\ steadyWeight = "none" /\ steadyFor = 0
  /\ shownBefore = [weight |-> "none", steady |-> 0, quiet |-> 0]

(* start *)
CycleStart ==
  /\ cstate = "idle"
  /\ cstate' = "wait_zero"
  /\ inPhase' = 0 /\ steadyWeight' = "none"
  /\ UNCHANGED <<cycleResult, noDataFor, steadyFor, shownBefore>>

EnterPhase(s) == cstate' = s /\ inPhase' = 0 /\ steadyWeight' = "none" /\ UNCHANGED <<cycleResult, steadyFor>>

FinishCycle(code) == cstate' = "done" /\ cycleResult' = code /\ UNCHANGED <<inPhase, steadyWeight, steadyFor>>
StayFor(d) == inPhase' = CappedTime(inPhase + d) /\ UNCHANGED <<cstate, cycleResult>>

(* _tick_wait_zero *)
WaitZero(s, d) ==
  /\ cstate = "wait_zero"
  /\ IF s.weight = "empty" /\ s.stable THEN EnterPhase("wait_vehicle")
     ELSE IF inPhase + d > ZeroTimeout THEN FinishCycle("not_zero")
     ELSE StayFor(d) /\ UNCHANGED <<steadyWeight, steadyFor>>

(* _tick_wait_vehicle *)
WaitVehicle(s, d) ==
  /\ cstate = "wait_vehicle"
  /\ IF s.overload \/ s.weight \in Load THEN EnterPhase("wait_stable")
     ELSE IF inPhase + d > VehicleTimeout THEN FinishCycle("vehicle")
     ELSE StayFor(d) /\ UNCHANGED <<steadyWeight, steadyFor>>

(* _tick_wait_stable: the candidate grows older, is replaced or is lost.   *)
WaitStable(s, d) ==
  /\ cstate = "wait_stable"
  /\ IF s.weight \notin Load /\ ~s.overload THEN EnterPhase("wait_vehicle")
     ELSE IF s.stable /\ s.weight = steadyWeight /\ steadyFor + d >= StableDuration
     THEN /\ cstate' = "capture"
          /\ UNCHANGED <<cycleResult, inPhase, steadyWeight, steadyFor>>
     ELSE IF inPhase + d > StableTimeout THEN FinishCycle("unstable")
     ELSE /\ StayFor(d)
          /\ steadyWeight' = IF s.stable THEN s.weight ELSE "none"
          /\ steadyFor' = IF s.stable /\ s.weight = steadyWeight THEN CappedTime(steadyFor + d) ELSE 0

(* Mutant: the candidate outlives the gap. *)
CandidateKept == steadyWeight

CandidateAfterGap == IF noDataFor = 0 THEN "none" ELSE steadyWeight

(* _check_no_data, then the phase.  The time in the phase goes on while    *)
(* there is no data; the candidate is lost at once.                        *)
CycleNoData(d) ==
  LET since == IF noDataFor = 0 THEN 1 ELSE CappedTime(noDataFor + d)
  IN IF since > NoDataTimeout + 1
     THEN FinishCycle("offline") /\ UNCHANGED noDataFor
     ELSE /\ noDataFor' = since
          /\ StayFor(d)
          /\ steadyWeight' = CandidateAfterGap
          /\ steadyFor' = CappedTime(steadyFor + d)

CycleSees(s, d) ==
  shownBefore' = [weight |-> IF s.stable THEN s.weight ELSE "none",
           steady |-> IF s.stable /\ s.weight = shownBefore.weight THEN CappedTime(shownBefore.steady + d) ELSE 0,
           quiet  |-> IF s.ok THEN 0 ELSE IF shownBefore.quiet = 0 THEN 1 ELSE CappedTime(shownBefore.quiet + d)]

DataCome == noDataFor' = 0

CycleTick(s, d) ==
  /\ cstate \in WaitingState
  /\ IF s.ok
     THEN DataCome /\ (WaitZero(s, d) \/ WaitVehicle(s, d) \/ WaitStable(s, d))
     ELSE CycleNoData(d)
  /\ CycleSees(s, d)

(* complete_capture: an error of a camera leaves the weight its value.     *)
CompleteCapture ==
  /\ cstate = "capture"
  /\ \E ok \in BOOLEAN : FinishCycle(IF ok THEN "ok" ELSE "camera")
  /\ UNCHANGED <<noDataFor, shownBefore>>

(* abort, from outside *)
AbortCycle ==
  /\ cstate # "done"
  /\ FinishCycle("aborted")
  /\ UNCHANGED <<noDataFor, shownBefore>>

CycleNext ==
  \/ CycleStart \/ CompleteCapture \/ AbortCycle
  \/ \E s \in ScaleShown, d \in 1 .. MaxGap : CycleTick(s, d)

CycleSpec == CycleInit /\ [][CycleNext]_cycleVars

-----------------------------------------------------------------------------
(* The fields of WeighingCycle. *)
CycleTypeOK ==
  /\ cstate \in {"idle", "capture", "done"} \cup WaitingState
  /\ cycleResult \in {"none", "ok", "camera", "not_zero", "vehicle", "unstable", "offline", "aborted"}
  /\ (cstate = "done") <=> (cycleResult # "none")
  /\ steadyWeight \in {"none"} \cup Load
  /\ {inPhase, noDataFor} \subseteq 0 .. LongestWait /\ steadyFor \in 0 .. LongestWait

(* The weight a cycle captures was shown stable, one and the same, at      *)
(* every tick of the last stable_duration_s, without a gap in the data, an *)
(* overload or a departure in between.                                     *)
CapturedWeightStood ==
  cstate = "capture" => shownBefore.weight = steadyWeight /\ shownBefore.steady >= StableDuration

(* "No data" is the verdict only when all ticks of no_data_timeout_s were  *)
(* without data, and a vehicle that was not there or not still is blamed   *)
(* only while data come.                                                   *)
VerdictIsJust ==
  /\ cycleResult = "offline" => shownBefore.quiet > NoDataTimeout + 1
  /\ cycleResult \in {"not_zero", "vehicle", "unstable"} => shownBefore.quiet = 0

(* The automaton of one weighing: a weight that stood, and verdicts the    *)
(* ticks before bear out.                                                  *)
CycleInv == CycleTypeOK /\ CapturedWeightStood /\ VerdictIsJust
===============================================================================
