----------------------------- MODULE ScaleWatcher -----------------------------
(***************************************************************************)
(* From the indicator to the weight of an automatic operation: the state   *)
(* the driver publishes, ScaleWatcher that polls it, AutoOperationRunner   *)
(* that takes the fixation when a command comes, settings that change.     *)
(*                                                                         *)
(* Time passes in polls of the watcher (tick_interval_s). What happens     *)
(* between two polls happens in any order.                                 *)
(***************************************************************************)
EXTENDS Integers

CONSTANTS
  Gross,       \* weights at or above vehicle_threshold_kg
  Heavy,       \* those above max_tare_kg
  RxTimeout,   \* rx_error_timeout_s of the driver
  NoData,      \* no_data_timeout_s
  Config,      \* settings of the cycle, which differ in ...
  StableFor,   \* ... stable_duration_s
  LongestStable, \* where the stand of a weight is no longer counted
  Patience,    \* stable_timeout_s
  EmptyTime,   \* the least time the platform is empty between two vehicles
  None

ASSUME WeightAssumption ==
  Heavy \subseteq Gross /\ Gross \cap {"empty", "part", "over", "odd"} = {}
ASSUME TimeAssumption ==
  /\ RxTimeout \in Nat \ {0} /\ NoData \in Nat \ {0} /\ Patience \in Nat \ {0}
  /\ LongestStable \in Nat
  /\ StableFor \in [Config -> 1 .. LongestStable]
  /\ Config # {}
(* What the watcher takes for granted about trucks: no driver and no gap   *)
(* in the data that it forgives is as slow as a change of trucks.          *)
ASSUME SwapAssumption == EmptyTime \in Nat /\ EmptyTime > RxTimeout + NoData + 2
ASSUME NoneAssumption == None \notin Gross /\ None \notin Nat

(* What the indicator says: a weight, overload (no weight), or a packet    *)
(* without a weight in it.                                                 *)
Said   == {"empty", "part", "over", "odd"} \cup Gross
Phase  == {"wait_empty", "wait_vehicle", "stabilizing", "ready"}
Result == {"ok", "offline", "unstable", "vehicle", "too_heavy", "camera"}

VARIABLES
  (* the platform *)
  there,    \* a vehicle is on it
  gone,     \* for how long there has been none
  (* driver.state *)
  status,   \* is it OK
  said, stable,
  silence,  \* time since the last packet
  (* ScaleWatcher *)
  cfg,
  phase,
  fixation, \* weight of _fixation
  noData,   \* time since _no_data_since, or None
  cand,     \* _candidate_weight
  held,     \* time since _candidate_since
  polled,   \* the watcher has polled since time last passed
  (* AutoOperationRunner *)
  op,       \* the operation: where it is, the weight it took
  left,     \* time it may still wait
  told,     \* the result of the one that just ended
  (* history *)
  fresh,    \* a packet came after the last poll
  late,     \* vehicles that came after the last packet
  others,   \* vehicles that came after the one the watcher saw coming
  shown     \* for how long packets have shown the candidate, or the fixation

platformVars == <<there, gone, late>>
driverVars   == <<status, said, stable, silence, fresh>>
watcherVars  == <<cfg, phase, fixation, noData, cand, held, polled, others, shown>>
runnerVars   == <<op, left, told>>
vars == <<platformVars, driverVars, watcherVars, runnerVars>>

Flags ==
  /\ there \in BOOLEAN /\ status \in BOOLEAN /\ stable \in BOOLEAN
  /\ fresh \in BOOLEAN /\ polled \in BOOLEAN
PlatformTypes == gone \in 0 .. EmptyTime /\ late \in 0 .. 1
DriverTypes   == said \in Said /\ silence \in 0 .. RxTimeout + 1
WatcherTypes ==
  /\ cfg \in Config /\ phase \in Phase
  /\ fixation \in Gross \cup {None}
  /\ noData \in (0 .. NoData + 1) \cup {None}
  /\ cand \in Gross \cup {None} /\ held \in 0 .. LongestStable
  /\ others \in 0 .. 1 /\ shown \in 0 .. LongestStable
  /\ (phase = "ready") <=> (fixation # None)
RunnerTypes ==
  /\ op \in [pc : {"idle", "wait", "shots"}, taring : BOOLEAN, weight : Gross \cup {None}]
  /\ op.pc = "shots" => op.weight \in (IF op.taring THEN Gross \ Heavy ELSE Gross)
  /\ left \in 0 .. Patience
  /\ told \in Result \cup {None}
TypeOK == Flags /\ PlatformTypes /\ DriverTypes /\ WatcherTypes /\ RunnerTypes

NoOp == [pc |-> "idle", taring |-> FALSE, weight |-> None]

Init ==
  /\ there \in BOOLEAN /\ gone = 0 /\ late = 0
  /\ status = FALSE /\ said = "odd" /\ stable = FALSE /\ silence = RxTimeout + 1 /\ fresh = FALSE
  /\ cfg \in Config /\ phase = "wait_empty"
  /\ fixation = None /\ noData = None /\ cand = None /\ held = 0
  /\ polled = FALSE /\ others = 0 /\ shown = 0
  /\ op = NoOp /\ left = 0 /\ told = None

Upto(n, bound) == IF n < bound THEN n ELSE bound

(***************************************************************************)
(* The platform and the indicator.                                         *)
(***************************************************************************)
Arrive ==
  /\ ~there /\ gone = EmptyTime
  /\ there' = TRUE /\ gone' = 0
  /\ late' = Upto(late + 1, 1) /\ others' = IF phase = "wait_vehicle" THEN 0 ELSE Upto(others + 1, 1)
  /\ UNCHANGED <<driverVars, cfg, phase, fixation, noData, cand, held, polled, shown, runnerVars>>

Leave ==
  /\ there
  /\ there' = FALSE
  /\ UNCHANGED <<gone, late, driverVars, watcherVars, runnerVars>>

(* A vehicle on the platform shows any weight while it moves; an empty     *)
(* platform shows little.                                                  *)
Packet ==
  /\ said' \in IF there THEN Said \ {"empty"} ELSE {"empty", "part", "odd"}
  /\ stable' \in IF said' \in {"over", "odd"} THEN {FALSE} ELSE BOOLEAN
  /\ status' = TRUE /\ silence' = 0 /\ fresh' = TRUE /\ late' = 0
  /\ UNCHANGED <<there, gone, watcherVars, runnerVars>>

PortError ==
  /\ status' = FALSE
  /\ said' = "odd" /\ stable' = FALSE
  /\ UNCHANGED <<silence, fresh, platformVars, watcherVars, runnerVars>>

(***************************************************************************)
(* ScaleWatcher.tick.                                                      *)
(***************************************************************************)
Enter(p) ==
  phase' = p /\ fixation' = None /\ cand' = None /\ held' = 0 /\ shown' = 0
Stay == UNCHANGED <<phase, fixation, cand, held, shown>>
LoseCandidate ==
  /\ cand' = None /\ held' = 0
  /\ shown' = IF phase = "ready" THEN shown ELSE 0

(* Mutant: however long the break, only the candidate is lost. *)
TickNoDataForgives ==
  /\ ~status \/ said = "odd"
  /\ noData' = IF noData = None THEN 0 ELSE noData
  /\ LoseCandidate
  /\ UNCHANGED <<phase, fixation, others>>

(* The flow is interrupted: a short break only loses the candidate, a long *)
(* one the vehicle that was seen coming.                                   *)
TickNoData ==
  /\ ~status \/ said = "odd"
  /\ noData' = IF noData = None THEN 0 ELSE noData
  /\ IF noData' > NoData
     THEN Enter("wait_empty")
     ELSE LoseCandidate /\ UNCHANGED <<phase, fixation>>
  /\ UNCHANGED others

TickOverload ==
  /\ status /\ said = "over"
  /\ noData' = None
  /\ CASE phase \in {"wait_vehicle", "ready"} -> Enter("stabilizing")
       [] phase = "stabilizing" -> LoseCandidate /\ UNCHANGED <<phase, fixation>>
       [] OTHER                               -> Stay
  /\ others' = IF phase = "wait_vehicle" THEN late ELSE others

HasWeight == status /\ said \notin {"over", "odd"}
OnScale == said \in Gross

TickWaiting ==
  /\ HasWeight /\ phase \in {"wait_empty", "wait_vehicle"}
  /\ noData' = None
  /\ CASE phase = "wait_empty" /\ said = "empty" /\ stable -> Enter("wait_vehicle")
       [] phase = "wait_vehicle" /\ OnScale               -> Enter("stabilizing")
       [] OTHER                                           -> Stay
  /\ others' = IF phase = "wait_vehicle" /\ OnScale THEN late ELSE others

TickStabilizing ==
  /\ HasWeight /\ phase = "stabilizing"
  /\ noData' = None
  /\ CASE ~OnScale                -> Enter("wait_empty")
       [] OnScale /\ ~stable      -> LoseCandidate /\ UNCHANGED <<phase, fixation>>
       [] OnScale /\ stable /\ said = cand ->
            /\ shown' = IF fresh THEN held ELSE shown
            /\ IF held >= StableFor[cfg]
               THEN phase' = "ready" /\ fixation' = said
               ELSE UNCHANGED <<phase, fixation>>
            /\ UNCHANGED <<cand, held>>
       [] OnScale /\ stable /\ said # cand ->
            /\ cand' = said /\ held' = 0 /\ shown' = 0
            /\ UNCHANGED <<phase, fixation>>
  /\ UNCHANGED others

TickReady ==
  /\ HasWeight /\ phase = "ready"
  /\ noData' = None
  /\ CASE ~OnScale                                        -> Enter("wait_empty")
       [] OnScale /\ (~stable \/ said # fixation)         -> Enter("stabilizing")
       [] OTHER                                           -> Stay
  /\ UNCHANGED others

Tick ==
  /\ ~polled /\ polled' = TRUE /\ fresh' = FALSE
  /\ TickNoData \/ TickOverload \/ TickWaiting \/ TickStabilizing \/ TickReady
  /\ UNCHANGED <<cfg, platformVars, status, said, stable, silence, runnerVars>>

(* Mutant: every save of the settings page starts the watch again. *)
ReconfigureResets(c) ==
  /\ cfg' = c
  /\ Enter("wait_empty") /\ noData' = None
  /\ UNCHANGED <<polled, others, platformVars, driverVars, runnerVars>>

(* Settings of the center: the same ones change nothing, others start the  *)
(* watch again.                                                            *)
Reconfigure(c) ==
  /\ cfg' = c
  /\ IF c = cfg
     THEN Stay /\ UNCHANGED noData
     ELSE Enter("wait_empty") /\ noData' = None
  /\ UNCHANGED <<polled, others, platformVars, driverVars, runnerVars>>

(***************************************************************************)
(* AutoOperationRunner.                                                    *)
(***************************************************************************)
Refuse(r) == op' = NoOp /\ told' = r

Take(taring) ==
  IF taring /\ fixation \in Heavy THEN Refuse("too_heavy")
  ELSE op' = [pc |-> "shots", taring |-> taring, weight |-> fixation] /\ UNCHANGED told

(* Up to the first await: by the fixation, to wait, or to refuse. The wait *)
(* is stable_timeout_s, or the timeout_s of the request when it is less.   *)
Command(taring) ==
  /\ op.pc = "idle"
  /\ CASE ~status               -> Refuse("offline")
       [] status /\ phase = "ready"       -> Take(taring)
       [] status /\ phase = "stabilizing" ->
            op' = [pc |-> "wait", taring |-> taring, weight |-> None] /\ UNCHANGED told
       [] OTHER                 -> Refuse("vehicle")
  /\ left' \in IF op'.pc = "wait" THEN 1 .. Patience ELSE {0}
  /\ UNCHANGED <<platformVars, driverVars, watcherVars>>

(* The wait for a stable weight, looked at every tick_interval_s. *)
MustWake == op.pc = "wait" /\ (phase # "stabilizing" \/ left = 0)
Wake ==
  /\ MustWake
  /\ CASE phase = "ready"       -> Take(op.taring)
       [] phase = "stabilizing" -> Refuse("unstable")
       [] OTHER                 -> Refuse(IF status THEN "vehicle" ELSE "offline")
  /\ left' = 0
  /\ UNCHANGED <<platformVars, driverVars, watcherVars>>

(* The shots of both cameras, then the record: without both there is none. *)
Shots ==
  /\ op.pc = "shots"
  /\ \E r \in {"ok", "camera"} : Refuse(r)
  /\ UNCHANGED <<left, platformVars, driverVars, watcherVars>>

(***************************************************************************)
(* Time.                                                                   *)
(***************************************************************************)

(* The watcher polls before time goes on, and so does the operation that   *)
(* waits; the driver says NO_DATA after a silence.                         *)
Pass ==
  /\ polled /\ ~MustWake
  /\ polled' = FALSE
  /\ gone' = IF there THEN 0 ELSE Upto(gone + 1, EmptyTime)
  /\ silence' = Upto(silence + 1, RxTimeout + 1)
  /\ IF silence' > RxTimeout
     THEN status' = FALSE /\ said' = "odd" /\ stable' = FALSE
     ELSE UNCHANGED <<status, said, stable>>
  /\ noData' = IF noData = None THEN None ELSE Upto(noData + 1, NoData + 1)
  /\ held' = IF cand = None THEN 0 ELSE Upto(held + 1, LongestStable)
  /\ left' = IF op.pc = "wait" /\ left > 0 THEN left - 1 ELSE left
  /\ told' = None
  /\ UNCHANGED <<there, fresh, late, cfg, phase, fixation, cand, others, shown, op>>

-----------------------------------------------------------------------------
Environment == Arrive \/ Leave \/ Packet \/ PortError
Next ==
  \/ Environment \/ Tick \/ Pass
  \/ \E c \in Config : Reconfigure(c)
  \/ \E taring \in BOOLEAN : Command(taring)
  \/ Wake \/ Shots

Spec == Init /\ [][Next]_vars

(* The event loop runs; nothing is owed by vehicles, indicator and center. *)
FairSpec == Spec /\ WF_vars(Tick) /\ WF_vars(Pass) /\ WF_vars(Wake) /\ WF_vars(Shots)

-----------------------------------------------------------------------------
(***************************************************************************)
(* Properties.                                                             *)
(***************************************************************************)

(* A fixation, and the weight on its way to one, belongs to the vehicle    *)
(* that was seen coming onto an empty platform: no other has come since,   *)
(* whatever was lost of the data ("the agent has witnessed the arrival").  *)
SameVehicle == phase \in {"stabilizing", "ready"} => others = 0

(* A fixation has been shown by packets for all of stable_duration_s but   *)
(* the silence the driver forgives, under the settings in force.           *)
ShownAlmostLongEnough == phase = "ready" => shown >= StableFor[cfg] - RxTimeout

(* A vehicle that stands still gets its fixation, however often the same   *)
(* settings are saved meanwhile (the six refusals of 07.09.2026).          *)
FixationComes ==
  \A g \in Gross, c \in Config :
    LET Standing == status /\ said = g /\ stable /\ cfg = c IN
    (phase = "stabilizing" /\ Standing) ~> (phase = "ready" \/ ~Standing)

(* Every command is answered: the wait for a stable weight has an end.     *)
CommandEnds == op.pc # "idle" ~> op.pc = "idle"

(* The fixation of the watcher: of the vehicle seen coming, shown for its  *)
(* time.                                                                   *)
WatchInv == TypeOK /\ SameVehicle /\ ShownAlmostLongEnough

(* What the watcher and the commands come to: a standing vehicle to a      *)
(* fixation, a command to an answer.                                       *)
WatcherLives == FixationComes /\ CommandEnds
=============================================================================
