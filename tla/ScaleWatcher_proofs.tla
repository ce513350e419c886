------------------------- MODULE ScaleWatcher_proofs -------------------------
(***************************************************************************)
(* Theorems about ScaleWatcher, for any weights, timeouts and settings:    *)
(* whose weight a fixation is, and for how long it was shown; and about    *)
(* IndicatorStream, where the watcher's readings come from, for any line   *)
(* and any discretes and times: what the driver makes of its bytes.        *)
(***************************************************************************)
EXTENDS ScaleWatcher, IndicatorStream, SequenceTheorems, WellFoundedInduction, TLAPS

(* A vehicle that is not there has been away for some time; while there is *)
(* one the time does not run.                                              *)
AwayCounts == there => gone = 0

(* What the driver says of a vehicle is as old as the last packet, so the  *)
(* vehicle has been away for no longer, and none came after it.            *)
SaysOfVehicle == said \in {"over"} \cup Gross
Recent ==
  /\ status => silence <= RxTimeout
  /\ status /\ SaysOfVehicle => gone <= silence /\ late = 0

(* The watcher that knows of a vehicle has polled a packet about it not    *)
(* long before the flow of data stopped, if it did.                        *)
Watching == phase \in {"stabilizing", "ready"}
Witnessed ==
  Watching =>
    /\ others = 0
    /\ noData = None => gone <= RxTimeout + (IF polled THEN 0 ELSE 1)
    /\ noData # None => gone <= RxTimeout + 1 + noData
    /\ noData # None /\ polled => noData <= NoData

(* The candidate has been shown for as long as it is held, but for the     *)
(* silence since the last packet.                                          *)
ShownSo ==
  /\ phase = "stabilizing" /\ cand # None /\ ~fresh /\ status => held <= shown + silence
  /\ ShownAlmostLongEnough

WatchBasis == TypeOK /\ AwayCounts /\ Recent /\ Witnessed /\ ShownSo

LEMMA Times ==
  /\ RxTimeout \in Nat \ {0} /\ NoData \in Nat \ {0} /\ Patience \in Nat \ {0}
  /\ LongestStable \in Nat /\ EmptyTime \in Nat /\ EmptyTime > RxTimeout + NoData + 2
  /\ \A c \in Config : StableFor[c] \in 1 .. LongestStable
<1>1. /\ RxTimeout \in Nat \ {0} /\ NoData \in Nat \ {0} /\ Patience \in Nat \ {0}
      /\ LongestStable \in Nat
  BY TimeAssumption
<1>2. EmptyTime \in Nat /\ EmptyTime > RxTimeout + NoData + 2  BY SwapAssumption
<1>3. \A c \in Config : StableFor[c] \in 1 .. LongestStable
  <2>1. StableFor \in [Config -> 1 .. LongestStable]  BY TimeAssumption
  <2> QED  BY <2>1
<1> QED  BY <1>1, <1>2, <1>3

LEMMA UptoType ==
  ASSUME NEW b \in Nat, NEW n \in 0 .. b
  PROVE  /\ Upto(n + 1, b) \in 0 .. b /\ Upto(n + 1, b) <= n + 1 /\ Upto(n + 1, b) >= n
         /\ n < b => Upto(n + 1, b) = n + 1
BY DEF Upto

LEMMA WatchInit == Init => WatchBasis
<1> SUFFICES ASSUME Init PROVE WatchBasis  OBVIOUS
<1>0. Flags  BY DEF Init, Flags
<1>1. PlatformTypes  BY Times DEF Init, PlatformTypes
<1>2. DriverTypes  BY Times DEF Init, DriverTypes, Said
<1>3. WatcherTypes  BY Times, NoneAssumption DEF Init, WatcherTypes, Phase
<1>4. RunnerTypes  BY Times DEF Init, RunnerTypes, NoOp
<1>5. AwayCounts /\ Recent /\ Witnessed
  BY DEF Init, AwayCounts, Recent, Witnessed, Watching
<1>6. ShownSo  BY DEF Init, ShownSo, ShownAlmostLongEnough
<1> QED  BY <1>0, <1>1, <1>2, <1>3, <1>4, <1>5, <1>6 DEF WatchBasis, TypeOK

-----------------------------------------------------------------------------
(***************************************************************************)
(* Types.                                                                  *)
(***************************************************************************)
LEMMA TickType == TypeOK /\ Tick => TypeOK'
<1> SUFFICES ASSUME TypeOK, Tick PROVE TypeOK'  OBVIOUS
<1>0. Flags'  BY DEF TypeOK, Tick, Flags, platformVars
<1>1. WatcherTypes'
  <2>1. noData' \in (0 .. NoData + 1) \cup {None}
    <3>1. noData' = None \/ noData' = 0 \/ noData' = noData
      BY DEF Tick, TickNoData, TickOverload, TickWaiting, TickStabilizing, TickReady
    <3> QED  BY <3>1, Times DEF TypeOK, WatcherTypes
  <2>2. others' \in 0 .. 1
    BY DEF TypeOK, PlatformTypes, WatcherTypes, Tick, TickNoData, TickOverload, TickWaiting,
           TickStabilizing, TickReady
  <2>3. cfg' = cfg  BY DEF Tick
  <2>c. /\ cfg \in Config /\ phase \in Phase /\ fixation \in Gross \cup {None}
        /\ cand \in Gross \cup {None} /\ held \in 0 .. LongestStable
        /\ shown \in 0 .. LongestStable /\ LongestStable \in Nat
        /\ (phase = "ready") <=> (fixation # None)
    BY Times DEF TypeOK, WatcherTypes
  <2> DEFINE Held ==
        /\ phase' \in Phase /\ fixation' \in Gross \cup {None}
        /\ cand' \in Gross \cup {None} /\ held' \in 0 .. LongestStable
        /\ shown' \in 0 .. LongestStable
        /\ (phase' = "ready") <=> (fixation' # None)
  <2>4. ASSUME NEW p \in Phase \ {"ready"}, Enter(p) PROVE Held
    BY <2>c, <2>4 DEF Enter
  <2>5. ASSUME Stay PROVE Held  BY <2>c, <2>5 DEF Stay
  <2>6. ASSUME LoseCandidate, UNCHANGED <<phase, fixation>> PROVE Held
    BY <2>c, <2>6 DEF LoseCandidate
  <2> HIDE DEF Held
  <2>7. ASSUME TickNoData PROVE Held
    BY <2>4, <2>6, <2>7 DEF TickNoData, Phase
  <2>8. ASSUME TickOverload PROVE Held
    <3>1. CASE phase \in {"wait_vehicle", "ready"}
      BY <2>4, <2>8, <3>1 DEF TickOverload, Phase
    <3>2. CASE phase = "stabilizing"  BY <2>6, <2>8, <3>2 DEF TickOverload
    <3>3. CASE phase \notin {"wait_vehicle", "ready", "stabilizing"}
      BY <2>5, <2>8, <3>3 DEF TickOverload
    <3> QED  BY <3>1, <3>2, <3>3
  <2>9. ASSUME TickWaiting PROVE Held
    BY <2>4, <2>5, <2>9 DEF TickWaiting, Phase
  <2>10. ASSUME TickStabilizing PROVE Held
    <3>1. CASE ~OnScale  BY <2>4, <2>10, <3>1 DEF TickStabilizing, Phase
    <3>2. CASE OnScale /\ ~stable  BY <2>6, <2>10, <3>2 DEF TickStabilizing
    <3>3. CASE OnScale /\ stable /\ said = cand
      <4>1. /\ shown' = IF fresh THEN held ELSE shown
            /\ IF held >= StableFor[cfg]
               THEN phase' = "ready" /\ fixation' = said
               ELSE UNCHANGED <<phase, fixation>>
            /\ UNCHANGED <<cand, held>> /\ said \in Gross
        BY <2>10, <3>3 DEF TickStabilizing, OnScale
      <4>2. phase' \in Phase /\ fixation' \in Gross \cup {None}
            /\ ((phase' = "ready") <=> (fixation' # None))
        BY <2>c, <4>1, NoneAssumption DEF Phase
      <4>3. shown' \in 0 .. LongestStable  BY <2>c, <4>1
      <4> QED  BY <2>c, <4>1, <4>2, <4>3 DEF Held
    <3>4. CASE OnScale /\ stable /\ said # cand
      <4>1. /\ cand' = said /\ held' = 0 /\ shown' = 0 /\ said \in Gross
            /\ UNCHANGED <<phase, fixation>>
        BY <2>10, <3>4 DEF TickStabilizing, OnScale
      <4> QED  BY <2>c, <4>1 DEF Held
    <3> QED  BY <3>1, <3>2, <3>3, <3>4
  <2>11. ASSUME TickReady PROVE Held
    <3>1. CASE ~OnScale  BY <2>4, <2>11, <3>1 DEF TickReady, Phase
    <3>2. CASE OnScale /\ (~stable \/ said # fixation)
      BY <2>4, <2>11, <3>2 DEF TickReady, Phase
    <3>3. CASE OnScale /\ stable /\ said = fixation  BY <2>5, <2>11, <3>3 DEF TickReady
    <3> QED  BY <3>1, <3>2, <3>3
  <2>12. Held  BY <2>7, <2>8, <2>9, <2>10, <2>11 DEF Tick
  <2> QED  BY <2>1, <2>2, <2>3, <2>c, <2>12 DEF WatcherTypes, Held
<1>2. PlatformTypes' /\ RunnerTypes'
  BY DEF Tick, TypeOK, PlatformTypes, RunnerTypes, platformVars, runnerVars
<1>3. DriverTypes'
  <2>1. UNCHANGED <<status, said, stable, silence>>  BY DEF Tick
  <2> QED  BY <2>1 DEF TypeOK, DriverTypes
<1> QED  BY <1>0, <1>1, <1>2, <1>3 DEF TypeOK

LEMMA RunnerType ==
  ASSUME TypeOK, Wake \/ Shots \/ \E taring \in BOOLEAN : Command(taring)
  PROVE  TypeOK'
<1>1. Flags' /\ PlatformTypes' /\ DriverTypes' /\ WatcherTypes'
  BY DEF Wake, Shots, Command, platformVars, driverVars, watcherVars, TypeOK, Flags,
         PlatformTypes, DriverTypes, WatcherTypes
<1> DEFINE OpType ==
      /\ op' \in [pc : {"idle", "wait", "shots"}, taring : BOOLEAN, weight : Gross \cup {None}]
      /\ op'.pc = "shots" => op'.weight \in (IF op'.taring THEN Gross \ Heavy ELSE Gross)
      /\ told' \in Result \cup {None}
<1>2. ASSUME NEW r \in Result, Refuse(r) PROVE OpType
  BY <1>2 DEF Refuse, NoOp
<1>3. ASSUME NEW taring \in BOOLEAN, phase = "ready", Take(taring) PROVE OpType
  <2>1. fixation \in Gross /\ told \in Result \cup {None}
    BY <1>3 DEF TypeOK, WatcherTypes, RunnerTypes
  <2>2. CASE taring /\ fixation \in Heavy  BY <1>2, <1>3, <2>2 DEF Take, Result
  <2>3. CASE ~(taring /\ fixation \in Heavy)
    <3>1. op' = [pc |-> "shots", taring |-> taring, weight |-> fixation] /\ told' = told
      BY <1>3, <2>3 DEF Take
    <3> QED  BY <2>1, <2>3, <3>1
  <2> QED  BY <2>2, <2>3
<1> HIDE DEF OpType
<1>4. CASE Wake
  <2>1. op.taring \in BOOLEAN  BY DEF TypeOK, RunnerTypes
  <2>2. OpType
    <3>1. CASE phase = "ready"  BY <1>3, <1>4, <2>1, <3>1 DEF Wake
    <3>2. CASE phase # "ready"  BY <1>2, <1>4, <3>2 DEF Wake, Result
    <3> QED  BY <3>1, <3>2
  <2>3. left' \in 0 .. Patience  BY <1>4, Times DEF Wake
  <2> QED  BY <1>1, <2>2, <2>3 DEF TypeOK, RunnerTypes, OpType
<1>5. CASE Shots
  <2>1. OpType  BY <1>2, <1>5 DEF Shots, Result
  <2>2. left' = left  BY <1>5 DEF Shots
  <2> QED  BY <1>1, <2>1, <2>2 DEF TypeOK, RunnerTypes, OpType
<1>6. ASSUME NEW taring \in BOOLEAN, Command(taring) PROVE TypeOK'
  <2>1. OpType
    <3>1. CASE status /\ phase = "ready"  BY <1>3, <1>6, <3>1 DEF Command
    <3>2. CASE status /\ phase = "stabilizing"
      <4>1. op' = [pc |-> "wait", taring |-> taring, weight |-> None] /\ told' = told
        BY <1>6, <3>2 DEF Command
      <4> QED  BY <4>1 DEF TypeOK, RunnerTypes, OpType
    <3>3. CASE ~status  BY <1>2, <1>6, <3>3 DEF Command, Result
    <3>4. CASE status /\ phase \notin {"ready", "stabilizing"}
      BY <1>2, <1>6, <3>4 DEF Command, Result
    <3> QED  BY <3>1, <3>2, <3>3, <3>4
  <2>2. left' \in 0 .. Patience  BY <1>6, Times DEF Command
  <2> QED  BY <1>1, <2>1, <2>2 DEF TypeOK, RunnerTypes, OpType
<1> QED  BY <1>4, <1>5, <1>6

LEMMA PassType == TypeOK /\ Pass => TypeOK'
<1> SUFFICES ASSUME TypeOK, Pass PROVE TypeOK'  OBVIOUS
<1>0. Flags'  BY DEF TypeOK, Pass, Flags
<1>1. PlatformTypes'
  <2>1. gone \in 0 .. EmptyTime /\ EmptyTime \in Nat  BY Times DEF TypeOK, PlatformTypes
  <2>2. Upto(gone + 1, EmptyTime) \in 0 .. EmptyTime  BY <2>1, UptoType
  <2>3. gone' \in 0 .. EmptyTime  BY <2>1, <2>2 DEF Pass
  <2>4. late' = late  BY DEF Pass
  <2> QED  BY <2>3, <2>4 DEF TypeOK, PlatformTypes
<1>2. DriverTypes'
  <2>1. silence \in 0 .. (RxTimeout + 1) /\ RxTimeout + 1 \in Nat
    BY Times DEF TypeOK, DriverTypes
  <2>2. Upto(silence + 1, RxTimeout + 1) \in 0 .. (RxTimeout + 1)  BY <2>1, UptoType
  <2>3. silence' \in 0 .. (RxTimeout + 1)  BY <2>2 DEF Pass
  <2>4. said' \in Said
    BY DEF Pass, TypeOK, DriverTypes, Said
  <2> QED  BY <2>3, <2>4 DEF TypeOK, DriverTypes
<1>3. WatcherTypes'
  <2>1. noData' \in (0 .. (NoData + 1)) \cup {None}
    <3>1. CASE noData = None  BY <3>1 DEF Pass
    <3>2. CASE noData # None
      <4>1. noData \in 0 .. (NoData + 1) /\ NoData + 1 \in Nat
        BY <3>2, Times DEF TypeOK, WatcherTypes
      <4>2. Upto(noData + 1, NoData + 1) \in 0 .. (NoData + 1)  BY <4>1, UptoType
      <4> QED  BY <3>2, <4>2 DEF Pass
    <3> QED  BY <3>1, <3>2
  <2>2. held' \in 0 .. LongestStable
    <3>1. held \in 0 .. LongestStable /\ LongestStable \in Nat  BY Times DEF TypeOK, WatcherTypes
    <3>2. Upto(held + 1, LongestStable) \in 0 .. LongestStable  BY <3>1, UptoType
    <3> QED  BY <3>1, <3>2 DEF Pass
  <2>3. UNCHANGED <<cfg, phase, fixation, cand, others, shown>>  BY DEF Pass
  <2> QED  BY <2>1, <2>2, <2>3 DEF TypeOK, WatcherTypes
<1>4. RunnerTypes'
  BY Times DEF Pass, TypeOK, RunnerTypes
<1> QED  BY <1>0, <1>1, <1>2, <1>3, <1>4 DEF TypeOK

LEMMA TypeStep == TypeOK /\ [Next]_vars => TypeOK'
<1> SUFFICES ASSUME TypeOK, [Next]_vars PROVE TypeOK'  OBVIOUS
<1> USE DEF TypeOK
<1>f. ASSUME Arrive \/ Leave \/ Packet \/ PortError \/ UNCHANGED vars
             \/ \E c \in Config : Reconfigure(c)
      PROVE  Flags'
  BY <1>f DEF Flags, Arrive, Leave, Packet, PortError, Reconfigure, vars, platformVars,
              driverVars, watcherVars
<1>1. CASE UNCHANGED vars
  BY <1>1, <1>f DEF vars, platformVars, driverVars, watcherVars, runnerVars, PlatformTypes,
              DriverTypes, WatcherTypes, RunnerTypes
<1>2. CASE Arrive
  <2>1. PlatformTypes'  BY <1>2, Times DEF Arrive, Upto, PlatformTypes
  <2>2. others' \in 0 .. 1 /\ UNCHANGED <<cfg, phase, fixation, noData, cand, held, shown>>
    BY <1>2 DEF Arrive, Upto, WatcherTypes
  <2>3. WatcherTypes'  BY <2>2 DEF WatcherTypes
  <2>4. DriverTypes' /\ RunnerTypes'
    BY <1>2 DEF Arrive, driverVars, runnerVars, DriverTypes, RunnerTypes
  <2> QED  BY <1>2, <1>f, <2>1, <2>3, <2>4
<1>3. CASE Leave
  BY <1>3, <1>f DEF Leave, driverVars, watcherVars, runnerVars, PlatformTypes, DriverTypes,
              WatcherTypes, RunnerTypes
<1>4. CASE Packet
  <2>1. said' \in Said  BY <1>4 DEF Packet, Said
  <2>2. silence' = 0 /\ late' = 0 /\ gone' = gone
    BY <1>4 DEF Packet
  <2>3. DriverTypes' /\ PlatformTypes'  BY <2>1, <2>2, Times DEF DriverTypes, PlatformTypes
  <2>4. WatcherTypes' /\ RunnerTypes'
    BY <1>4 DEF Packet, watcherVars, runnerVars, WatcherTypes, RunnerTypes
  <2> QED  BY <1>4, <1>f, <2>3, <2>4
<1>5. CASE PortError
  <2>1. DriverTypes'  BY <1>5 DEF PortError, DriverTypes, Said
  <2>2. PlatformTypes' /\ WatcherTypes' /\ RunnerTypes'
    BY <1>5 DEF PortError, platformVars, watcherVars, runnerVars, PlatformTypes, WatcherTypes,
                RunnerTypes
  <2> QED  BY <1>5, <1>f, <2>1, <2>2
<1>6. ASSUME NEW c \in Config, Reconfigure(c) PROVE TypeOK'
  <2>1. WatcherTypes'
    BY <1>6, Times DEF Reconfigure, Enter, Stay, WatcherTypes, Phase
  <2>2. PlatformTypes' /\ DriverTypes' /\ RunnerTypes'
    BY <1>6 DEF Reconfigure, platformVars, driverVars, runnerVars, PlatformTypes, DriverTypes,
                RunnerTypes
  <2> QED  BY <1>6, <1>f, <2>1, <2>2
<1> QED
  BY <1>1, <1>2, <1>3, <1>4, <1>5, <1>6, TickType, RunnerType, PassType DEF Next, Environment

(* The state of the platform, the driver, the watcher and the operation    *)
(* keeps its type: a taring never has a weight above max_tare_kg.          *)
THEOREM WatchTypes == Spec => []TypeOK
<1>1. Init => TypeOK  BY WatchInit DEF WatchBasis
<1> QED  BY <1>1, TypeStep, PTL DEF Spec

-----------------------------------------------------------------------------
(***************************************************************************)
(* The vehicle the watcher knows of.                                       *)
(***************************************************************************)

(* The steps that leave the platform, the driver and the watcher alone.    *)
LEMMA RunnerAlone ==
  ASSUME Wake \/ Shots \/ \E taring \in BOOLEAN : Command(taring)
  PROVE  UNCHANGED <<platformVars, driverVars, watcherVars>>
BY DEF Wake, Shots, Command

LEMMA AwayStep == AwayCounts /\ [Next]_vars => AwayCounts'
<1> SUFFICES ASSUME AwayCounts, [Next]_vars PROVE AwayCounts'  OBVIOUS
<1>1. CASE UNCHANGED <<there, gone>>  BY <1>1 DEF AwayCounts
<1>2. CASE Arrive  BY <1>2 DEF Arrive, AwayCounts
<1>3. CASE Leave  BY <1>3 DEF Leave, AwayCounts
<1>4. CASE Pass  BY <1>4 DEF Pass, AwayCounts
<1> QED
  BY <1>1, <1>2, <1>3, <1>4, RunnerAlone
  DEF Next, Environment, Packet, PortError, Tick, Reconfigure, vars, platformVars

(* When the next vehicle may come the last one has been forgotten.         *)
LEMMA Forgotten ==
  ASSUME TypeOK, Recent, Witnessed, gone = EmptyTime
  PROVE  ~Watching /\ ~(status /\ SaysOfVehicle)
<1>0. /\ gone \in Nat /\ RxTimeout \in Nat \ {0} /\ NoData \in Nat \ {0} /\ EmptyTime \in Nat
      /\ EmptyTime > RxTimeout + NoData + 2 /\ silence \in Nat
  BY Times DEF TypeOK, PlatformTypes, DriverTypes
<1>1. ASSUME Watching PROVE FALSE
  <2>1. CASE noData = None
    <3>1. gone <= RxTimeout + (IF polled THEN 0 ELSE 1)  BY <1>1, <2>1 DEF Witnessed
    <3>2. gone <= RxTimeout \/ gone <= RxTimeout + 1  BY <1>0, <3>1
    <3> QED  BY <1>0, <3>2
  <2>2. CASE noData # None
    <3>1. gone <= RxTimeout + 1 + noData  BY <1>1, <2>2 DEF Witnessed
    <3>2. noData \in 0 .. NoData + 1  BY <2>2 DEF TypeOK, WatcherTypes
    <3> QED  BY <1>0, <3>1, <3>2
  <2> QED  BY <2>1, <2>2
<1>2. ASSUME status, SaysOfVehicle PROVE FALSE
  <2>1. gone <= silence /\ silence <= RxTimeout  BY <1>2 DEF Recent
  <2> QED  BY <1>0, <2>1
<1> QED  BY <1>1, <1>2

LEMMA RecentStep == TypeOK /\ AwayCounts /\ Recent /\ Witnessed /\ [Next]_vars => Recent'
<1> SUFFICES ASSUME TypeOK, AwayCounts, Recent, Witnessed, [Next]_vars PROVE Recent'  OBVIOUS
<1>0. /\ gone \in Nat /\ silence \in 0 .. RxTimeout + 1 /\ RxTimeout \in Nat \ {0}
      /\ gone \in 0 .. EmptyTime /\ EmptyTime \in Nat
  BY Times DEF TypeOK, PlatformTypes, DriverTypes
<1>1. CASE UNCHANGED <<status, said, silence, gone, late>>
  BY <1>1 DEF Recent, SaysOfVehicle
<1>2. CASE Arrive
  <2>1. ~(status /\ SaysOfVehicle)  BY <1>2, Forgotten DEF Arrive
  <2>2. UNCHANGED <<status, said, silence>>  BY <1>2 DEF Arrive, driverVars
  <2> QED  BY <2>1, <2>2 DEF Recent, SaysOfVehicle
<1>3. CASE Packet
  <2>1. /\ silence' = 0 /\ late' = 0 /\ gone' = gone
        /\ said' \in IF there THEN Said \ {"empty"} ELSE {"empty", "part", "odd"}
    BY <1>3 DEF Packet
  <2>2. SaysOfVehicle' => there
    BY <2>1, WeightAssumption DEF SaysOfVehicle
  <2>3. SaysOfVehicle' => gone = 0  BY <2>2 DEF AwayCounts
  <2>4. silence' <= RxTimeout  BY <1>0, <2>1
  <2>5. SaysOfVehicle' => gone' <= silence' /\ late' = 0  BY <2>1, <2>3
  <2> QED  BY <2>4, <2>5 DEF Recent
<1>4. CASE PortError  BY <1>4 DEF PortError, Recent
<1>5. CASE Pass
  <2>1. CASE silence' > RxTimeout  BY <1>5, <2>1 DEF Pass, Recent
  <2>2. CASE ~(silence' > RxTimeout)
    <3>1. /\ silence' = Upto(silence + 1, RxTimeout + 1) /\ UNCHANGED <<status, said, late>>
          /\ gone' = IF there THEN 0 ELSE Upto(gone + 1, EmptyTime)
      BY <1>5, <2>2 DEF Pass
    <3>2. silence' = silence + 1 /\ silence' <= RxTimeout  BY <1>0, <2>2, <3>1 DEF Upto
    <3>3. gone' <= gone + 1  BY <1>0, <3>1 DEF Upto
    <3>4. gone' \in Nat  BY <1>0, <3>1 DEF Upto
    <3>5. ASSUME status', SaysOfVehicle' PROVE gone' <= silence' /\ late' = 0
      <4>1. gone <= silence /\ late = 0  BY <3>1, <3>5 DEF Recent, SaysOfVehicle
      <4> QED  BY <1>0, <3>1, <3>2, <3>3, <3>4, <4>1
    <3> QED  BY <3>2, <3>5 DEF Recent
  <2> QED  BY <2>1, <2>2
<1> QED
  BY <1>1, <1>2, <1>3, <1>4, <1>5, RunnerAlone
  DEF Next, Environment, Leave, Tick, Reconfigure, vars, platformVars, driverVars

(* What a poll does to what is known of the vehicle.                       *)
LEMMA TickWitnessed ==
  ASSUME TypeOK, Recent, Witnessed, Tick
  PROVE  Witnessed'
<1>0. /\ gone \in Nat /\ silence \in Nat /\ RxTimeout \in Nat /\ NoData \in Nat
      /\ gone' = gone /\ polled = FALSE /\ polled' = TRUE
  BY Times DEF TypeOK, PlatformTypes, DriverTypes, Tick, platformVars
<1>n. None \notin Nat  BY NoneAssumption
(* A packet about a vehicle came: no other has come since. *)
<1>1. ASSUME noData' = None, status, SaysOfVehicle,
             Watching' => others' = late \/ (others' = others /\ Watching)
      PROVE  Witnessed'
  <2>1. gone <= silence /\ late = 0 /\ silence <= RxTimeout  BY <1>1 DEF Recent
  <2>2. Watching' => others' = 0  BY <1>1, <2>1 DEF Witnessed
  <2>3. gone' <= RxTimeout + (IF polled' THEN 0 ELSE 1)  BY <1>0, <2>1
  <2> QED  BY <1>1, <2>2, <2>3 DEF Witnessed
<1>2. ASSUME ~Watching' PROVE Witnessed'  BY <1>2 DEF Witnessed
<1>3. CASE TickNoData
  <2>1. CASE noData' > NoData
    BY <1>2, <1>3, <2>1 DEF TickNoData, Enter, Watching
  <2>2. CASE ~(noData' > NoData)
    <3>1. phase' = phase /\ others' = others /\ noData' = (IF noData = None THEN 0 ELSE noData)
      BY <1>3, <2>2 DEF TickNoData
    <3>2. ASSUME Watching'
          PROVE  /\ others' = 0 /\ noData' # None /\ noData' <= NoData
                 /\ gone' <= RxTimeout + 1 + noData'
      <4>1. Watching  BY <3>1, <3>2 DEF Watching
      <4>2. others' = 0  BY <3>1, <4>1 DEF Witnessed
      <4>3. CASE noData = None
        <5>1. gone <= RxTimeout + 1  BY <1>0, <4>1, <4>3 DEF Witnessed
        <5> QED  BY <1>0, <1>n, <2>2, <3>1, <4>2, <4>3, <5>1
      <4>4. CASE noData # None
        <5>1. gone <= RxTimeout + 1 + noData  BY <4>1, <4>4 DEF Witnessed
        <5>2. noData \in Nat  BY <4>4 DEF TypeOK, WatcherTypes
        <5> QED  BY <1>0, <1>n, <2>2, <3>1, <4>2, <4>4, <5>1, <5>2
      <4> QED  BY <4>3, <4>4
    <3> QED  BY <3>2 DEF Witnessed
  <2> QED  BY <2>1, <2>2
<1>4. CASE TickOverload
  <2>1. noData' = None /\ status /\ SaysOfVehicle  BY <1>4 DEF TickOverload, SaysOfVehicle
  <2>2. CASE phase = "wait_vehicle"
    BY <1>1, <1>4, <2>1, <2>2 DEF TickOverload
  <2>3. CASE phase \in {"stabilizing", "ready"}
    BY <1>1, <1>4, <2>1, <2>3 DEF TickOverload, Watching
  <2>4. CASE phase = "wait_empty"
    <3>1. phase' = phase  BY <1>4, <2>4 DEF TickOverload, Stay
    <3> QED  BY <1>2, <2>4, <3>1 DEF Watching
  <2> QED  BY <2>2, <2>3, <2>4 DEF TypeOK, WatcherTypes, Phase
<1>5. CASE TickWaiting
  <2>1. CASE phase = "wait_vehicle" /\ OnScale
    <3>1. noData' = None /\ status /\ SaysOfVehicle /\ others' = late
      BY <1>5, <2>1 DEF TickWaiting, HasWeight, OnScale, SaysOfVehicle
    <3> QED  BY <1>1, <3>1
  <2>2. CASE ~(phase = "wait_vehicle" /\ OnScale)
    <3>1. ~Watching'
      <4>1. phase \in {"wait_empty", "wait_vehicle"}  BY <1>5 DEF TickWaiting
      <4>2. phase' = "wait_vehicle" \/ phase' = phase
        BY <1>5, <2>2 DEF TickWaiting, Enter, Stay
      <4> QED  BY <4>1, <4>2 DEF Watching
    <3> QED  BY <1>2, <3>1
  <2> QED  BY <2>1, <2>2
<1>6. CASE TickStabilizing \/ TickReady
  <2>1. CASE ~OnScale
    <3>1. phase' = "wait_empty"  BY <1>6, <2>1 DEF TickStabilizing, TickReady, Enter
    <3> QED  BY <1>2, <3>1 DEF Watching
  <2>2. CASE OnScale
    BY <1>1, <1>6, <2>2 DEF TickStabilizing, TickReady, HasWeight, OnScale, SaysOfVehicle, Watching
  <2> QED  BY <2>1, <2>2
<1> QED  BY <1>3, <1>4, <1>5, <1>6 DEF Tick

LEMMA PassWitnessed ==
  ASSUME TypeOK, Witnessed, Pass
  PROVE  Witnessed'
<1> SUFFICES ASSUME Watching' PROVE Witnessed'  BY DEF Witnessed
<1>1. Watching /\ others' = others /\ polled = TRUE /\ polled' = FALSE
  BY DEF Pass, Watching, TypeOK, Flags
<1>2. /\ gone \in 0 .. EmptyTime /\ EmptyTime \in Nat /\ RxTimeout \in Nat /\ NoData \in Nat
      /\ gone' = IF there THEN 0 ELSE Upto(gone + 1, EmptyTime)
  BY Times DEF TypeOK, PlatformTypes, Pass
<1>3. gone' <= gone + 1 /\ gone' \in Nat
  <2>1. Upto(gone + 1, EmptyTime) <= gone + 1 /\ Upto(gone + 1, EmptyTime) \in 0 .. EmptyTime
    BY <1>2, UptoType
  <2> QED  BY <1>2, <2>1
<1>4. CASE noData = None
  <2>1. gone <= RxTimeout  BY <1>1, <1>2, <1>4 DEF Witnessed
  <2>2. noData' = None  BY <1>4 DEF Pass
  <2>3. gone' <= RxTimeout + (IF polled' THEN 0 ELSE 1)  BY <1>1, <1>2, <1>3, <2>1
  <2>4. others' = 0  BY <1>1 DEF Witnessed
  <2> QED  BY <2>2, <2>3, <2>4 DEF Witnessed
<1>5. CASE noData # None
  <2>1. gone <= RxTimeout + 1 + noData /\ noData <= NoData /\ others = 0
    BY <1>1, <1>5 DEF Witnessed
  <2>2. noData \in Nat  BY <1>5 DEF TypeOK, WatcherTypes
  <2>3. noData' = Upto(noData + 1, NoData + 1)  BY <1>5 DEF Pass
  <2>4. noData' = noData + 1  BY <1>2, <2>1, <2>2, <2>3 DEF Upto
  <2>5. gone' <= RxTimeout + 1 + noData' /\ noData' # None
    BY <1>2, <1>3, <2>1, <2>2, <2>4, NoneAssumption
  <2> QED  BY <1>1, <2>1, <2>5 DEF Witnessed
<1> QED  BY <1>4, <1>5

LEMMA WitnessedStep == TypeOK /\ Recent /\ Witnessed /\ [Next]_vars => Witnessed'
<1> SUFFICES ASSUME TypeOK, Recent, Witnessed, [Next]_vars PROVE Witnessed'  OBVIOUS
<1>1. CASE UNCHANGED <<phase, others, noData, gone, polled>>
  BY <1>1 DEF Witnessed, Watching
<1>2. CASE Arrive
  <2>1. ~Watching /\ phase' = phase  BY <1>2, Forgotten DEF Arrive
  <2> QED  BY <2>1 DEF Witnessed, Watching
<1>3. ASSUME NEW c \in Config, Reconfigure(c) PROVE Witnessed'
  <2>1. CASE c = cfg
    BY <1>1, <1>3, <2>1 DEF Reconfigure, Stay, platformVars
  <2>2. CASE c # cfg
    <3>1. phase' = "wait_empty"  BY <1>3, <2>2 DEF Reconfigure, Enter
    <3> QED  BY <3>1 DEF Witnessed, Watching
  <2> QED  BY <2>1, <2>2
<1> QED
  BY <1>1, <1>2, <1>3, TickWitnessed, PassWitnessed, RunnerAlone
  DEF Next, Environment, Leave, Packet, PortError, vars, platformVars, watcherVars

(* Whatever is lost of the data, the weight a command may take belongs to  *)
(* the vehicle the watcher saw coming onto an empty platform.              *)
THEOREM SameVehicleHolds == Spec => []SameVehicle
<1> DEFINE Known == AwayCounts /\ Recent /\ Witnessed
<1>1. Init => Known  BY WatchInit DEF WatchBasis
<1>2. TypeOK /\ Known /\ [Next]_vars => Known'  BY AwayStep, RecentStep, WitnessedStep
<1>3. Known => SameVehicle  BY DEF Witnessed, Watching, SameVehicle
<1> HIDE DEF Known
<1> QED  BY <1>1, <1>2, <1>3, WatchTypes, PTL DEF Spec

-----------------------------------------------------------------------------
(***************************************************************************)
(* How long the weight was shown.                                          *)
(***************************************************************************)
LEMMA TickShown ==
  ASSUME TypeOK, Recent, ShownSo, Tick
  PROVE  ShownSo'
<1>0. /\ silence \in Nat /\ RxTimeout \in Nat /\ held \in Nat /\ shown \in Nat
      /\ StableFor[cfg] \in Nat /\ fresh' = FALSE /\ UNCHANGED <<cfg, status, silence>>
  BY Times DEF TypeOK, DriverTypes, WatcherTypes, Tick
(* The candidate is lost, the fixation is not won. *)
<1>1. ASSUME cand' = None, phase' = "ready" => phase = "ready" /\ shown' = shown PROVE ShownSo'
  BY <1>0, <1>1 DEF ShownSo, ShownAlmostLongEnough
<1>2. ASSUME NEW p \in Phase \ {"ready"}, Enter(p) PROVE ShownSo'
  BY <1>1, <1>2 DEF Enter
<1>3. ASSUME LoseCandidate, phase' = phase PROVE ShownSo'
  BY <1>1, <1>3 DEF LoseCandidate
<1>4. ASSUME Stay, phase # "stabilizing" PROVE ShownSo'
  BY <1>0, <1>4 DEF Stay, ShownSo, ShownAlmostLongEnough
<1>5. CASE TickNoData  BY <1>2, <1>3, <1>5 DEF TickNoData, Phase
<1>6. CASE TickOverload
  <2>1. CASE phase \in {"wait_vehicle", "ready"}
    BY <1>2, <1>6, <2>1 DEF TickOverload, Phase
  <2>2. CASE phase = "stabilizing"  BY <1>3, <1>6, <2>2 DEF TickOverload
  <2>3. CASE phase \notin {"wait_vehicle", "ready", "stabilizing"}
    BY <1>4, <1>6, <2>3 DEF TickOverload
  <2> QED  BY <2>1, <2>2, <2>3
<1>7. CASE TickWaiting  BY <1>2, <1>4, <1>7 DEF TickWaiting, Phase
<1>8. CASE TickStabilizing
  <2>1. CASE ~OnScale  BY <1>2, <1>8, <2>1 DEF TickStabilizing, Phase
  <2>2. CASE OnScale /\ ~stable  BY <1>3, <1>8, <2>2 DEF TickStabilizing
  <2>3. CASE OnScale /\ stable /\ said = cand
    <3>1. /\ shown' = IF fresh THEN held ELSE shown
          /\ UNCHANGED <<cand, held>> /\ phase = "stabilizing" /\ status /\ cand # None
          /\ IF held >= StableFor[cfg] THEN phase' = "ready" ELSE phase' = phase
      BY <1>8, <2>3, NoneAssumption DEF TickStabilizing, HasWeight, OnScale
    <3>2. held <= shown' + silence
      <4>1. CASE fresh  BY <1>0, <3>1, <4>1
      <4>2. CASE ~fresh
        <5>1. held <= shown + silence  BY <3>1, <4>2 DEF ShownSo
        <5> QED  BY <3>1, <4>2, <5>1
      <4> QED  BY <4>1, <4>2
    <3>3. silence <= RxTimeout  BY <3>1 DEF Recent
    <3>4. shown' \in Nat  BY <1>0, <3>1
    <3>5. phase' = "ready" => shown' >= StableFor[cfg] - RxTimeout
      BY <1>0, <3>1, <3>2, <3>3, <3>4
    <3> QED  BY <1>0, <3>1, <3>2, <3>5 DEF ShownSo, ShownAlmostLongEnough
  <2>4. CASE OnScale /\ stable /\ said # cand
    <3>1. held' = 0 /\ shown' = 0 /\ phase' = "stabilizing"
      BY <1>8, <2>4 DEF TickStabilizing
    <3> QED  BY <1>0, <3>1 DEF ShownSo, ShownAlmostLongEnough
  <2> QED  BY <2>1, <2>2, <2>3, <2>4
<1>9. CASE TickReady
  <2>1. CASE ~OnScale  BY <1>2, <1>9, <2>1 DEF TickReady, Phase
  <2>2. CASE OnScale /\ (~stable \/ said # fixation)
    BY <1>2, <1>9, <2>2 DEF TickReady, Phase
  <2>3. CASE OnScale /\ stable /\ said = fixation  BY <1>4, <1>9, <2>3 DEF TickReady
  <2> QED  BY <2>1, <2>2, <2>3
<1> QED  BY <1>5, <1>6, <1>7, <1>8, <1>9 DEF Tick

LEMMA ShownStep == TypeOK /\ Recent /\ ShownSo /\ [Next]_vars => ShownSo'
<1> SUFFICES ASSUME TypeOK, Recent, ShownSo, [Next]_vars PROVE ShownSo'  OBVIOUS
<1>1. CASE UNCHANGED <<cfg, phase, cand, held, shown>> /\ (fresh' \/ ~status'
             \/ UNCHANGED <<fresh, status, silence>>)
  BY <1>1 DEF ShownSo, ShownAlmostLongEnough
<1>2. CASE Pass
  <2>0. /\ silence \in 0 .. RxTimeout + 1 /\ RxTimeout \in Nat /\ held \in 0 .. LongestStable
        /\ LongestStable \in Nat /\ shown \in Nat
    BY Times DEF TypeOK, DriverTypes, WatcherTypes
  <2>1. UNCHANGED <<cfg, phase, cand, shown, fresh>>  BY <1>2 DEF Pass
  <2>2. ASSUME phase' = "stabilizing", cand' # None, ~fresh', status'
        PROVE  held' <= shown' + silence'
    <3>1. /\ silence' = Upto(silence + 1, RxTimeout + 1) /\ status = status'
          /\ ~(silence' > RxTimeout) /\ held' = Upto(held + 1, LongestStable)
      BY <1>2, <2>1, <2>2 DEF Pass
    <3>2. held <= shown + silence  BY <2>1, <2>2, <3>1 DEF ShownSo
    <3>3. silence' = silence + 1  BY <2>0, <3>1 DEF Upto
    <3>4. held' <= held + 1 /\ held' \in Nat  BY <2>0, <3>1 DEF Upto
    <3> QED  BY <2>0, <2>1, <3>2, <3>3, <3>4
  <2> QED  BY <2>1, <2>2 DEF ShownSo, ShownAlmostLongEnough
<1>3. ASSUME NEW c \in Config, Reconfigure(c) PROVE ShownSo'
  <2>1. CASE c = cfg
    BY <1>1, <1>3, <2>1 DEF Reconfigure, Stay, driverVars
  <2>2. CASE c # cfg
    <3>1. phase' = "wait_empty"  BY <1>3, <2>2 DEF Reconfigure, Enter
    <3> QED  BY <3>1 DEF ShownSo, ShownAlmostLongEnough
  <2> QED  BY <2>1, <2>2
<1>4. CASE Packet \/ PortError \/ Arrive \/ Leave \/ UNCHANGED vars
  BY <1>1, <1>4 DEF Packet, PortError, Arrive, Leave, vars, driverVars, watcherVars
<1>5. CASE Wake \/ Shots \/ \E taring \in BOOLEAN : Command(taring)
  BY <1>1, <1>5, RunnerAlone DEF driverVars, watcherVars
<1> QED  BY <1>2, <1>3, <1>4, <1>5, TickShown DEF Next, Environment

(* The inductive invariant of the watcher. *)
THEOREM WatchBasisHolds == Spec => []WatchBasis
<1>1. WatchBasis /\ [Next]_vars => WatchBasis'
  BY TypeStep, AwayStep, RecentStep, WitnessedStep, ShownStep DEF WatchBasis
<1> QED  BY <1>1, WatchInit, PTL DEF Spec

(* The fixation is of the vehicle the watcher saw coming, and packets      *)
(* showed it for all of stable_duration_s but the silence that is forgiven *)
(* - through breaks of the data, errors of the port and new settings.      *)
THEOREM WatchInvariant == Spec => []WatchInv
<1>1. WatchBasis => WatchInv
  BY DEF WatchBasis, WatchInv, Witnessed, Watching, SameVehicle, ShownSo
<1> QED  BY <1>1, WatchBasisHolds, PTL

-----------------------------------------------------------------------------
(***************************************************************************)
(* The stream of the indicator.                                            *)
(***************************************************************************)

(* Of a set of numbers there is a least one. *)
LEMMA Least ==
  ASSUME NEW S \in SUBSET Nat, S # {}
  PROVE  \E i \in S : \A j \in S : i <= j
<1> DEFINE R == {e \in Nat \X Nat : e[1] < e[2]}
<1>1. IsWellFoundedOn(R, Nat)
  <2>1. R = OpToRel(<, Nat)  BY DEF OpToRel
  <2> QED  BY <2>1, NatLessThanWellFounded
<1>2. \A x, y \in Nat : y < x => <<y, x>> \in R  OBVIOUS
<1> HIDE DEF R
<1>3. \E i \in S : \A j \in S : ~(<<j, i>> \in R)  BY <1>1, WFMin
<1>4. PICK i \in S : \A j \in S : ~(<<j, i>> \in R)  BY <1>3
<1>5. \A j \in S : i <= j
  <2> SUFFICES ASSUME NEW j \in S PROVE i <= j  OBVIOUS
  <2>1. i \in Nat /\ j \in Nat  OBVIOUS
  <2>2. ~(j < i)  BY <1>2, <1>4, <2>1
  <2> QED  BY <2>1, <2>2
<1> QED  BY <1>5

LEMMA MinIs ==
  ASSUME NEW S \in SUBSET Nat, S # {}
  PROVE  Min(S) \in S /\ \A j \in S : Min(S) <= j
<1>1. \E i \in S : \A j \in S : i <= j  BY Least
<1> QED  BY <1>1 DEF Min

LEMMA MinOf ==
  ASSUME NEW a \in Nat, NEW b \in Nat, NEW S \in SUBSET (a .. b), S # {}
  PROVE  Min(S) \in S /\ Min(S) \in a .. b /\ \A k \in a .. Min(S) - 1 : k \notin S
<1>1. S \in SUBSET Nat  OBVIOUS
<1>2. Min(S) \in S /\ \A j \in S : Min(S) <= j  BY <1>1, MinIs
<1>5. Min(S) \in a .. b  BY <1>2
<1>3. PICK m \in Int : m = Min(S)  BY <1>5
<1>4. \A k \in a .. m - 1 : k \notin S  BY <1>2, <1>3
<1> QED  BY <1>2, <1>3, <1>4, <1>5

(* A turn of the loop looks only at what the loop makes of later places.   *)
LEMMA TurnLooksAhead ==
  ASSUME NEW bytes \in Seq(Byte), NEW i \in 1 .. Len(bytes) + 1, NEW f, NEW g,
         \A j \in i + 1 .. Len(bytes) + 1 : f[j] = g[j]
  PROVE  Turn(bytes, i, f) = Turn(bytes, i, g)
<1>0. Len(bytes) \in Nat /\ i \in Nat  OBVIOUS
<1>1. VesarTurn(bytes, i, f) = VesarTurn(bytes, i, g)
  <2> DEFINE starts == {k \in i .. Len(bytes) : bytes[k] = STX}
             at == Min(starts)
  <2>1. CASE starts = {}  BY <2>1 DEF VesarTurn
  <2>2. CASE starts # {}
    <3>1. at \in i .. Len(bytes)  BY <1>0, <2>2, MinOf
    <3>2. f[at + 1] = g[at + 1]  BY <1>0, <3>1
    <3>3. ~(Len(bytes) - at + 1 < PacketLen) => f[at + PacketLen] = g[at + PacketLen]
      BY <1>0, <3>1 DEF PacketLen
    <3> HIDE DEF at
    <3>4. /\ VesarTurn(bytes, i, f) =
               IF Len(bytes) - at + 1 < PacketLen THEN Fed(From(bytes, at), <<>>)
               ELSE IF VesarPacket(PacketAt(bytes, at))
                    THEN WithFirst(VesarReading(PacketAt(bytes, at)), f[at + PacketLen])
                    ELSE f[at + 1]
          /\ VesarTurn(bytes, i, g) =
               IF Len(bytes) - at + 1 < PacketLen THEN Fed(From(bytes, at), <<>>)
               ELSE IF VesarPacket(PacketAt(bytes, at))
                    THEN WithFirst(VesarReading(PacketAt(bytes, at)), g[at + PacketLen])
                    ELSE g[at + 1]
      BY <2>2 DEF VesarTurn, at
    <3> QED  BY <3>2, <3>3, <3>4
  <2> QED  BY <2>1, <2>2
<1>2. CasTurn(bytes, i, f) = CasTurn(bytes, i, g)
  <2> DEFINE ends == {k \in i + 1 .. Len(bytes) : bytes[k - 1] = CR /\ bytes[k] = LF}
             end == Min(ends)
             candidate == PacketAt(bytes, end - PacketLen + 1)
  <2>1. CASE ends = {}  BY <2>1 DEF CasTurn
  <2>2. CASE ends # {}
    <3>1. end \in i + 1 .. Len(bytes)
      <4>1. i + 1 \in Nat /\ ends \in SUBSET (i + 1 .. Len(bytes))  BY <1>0
      <4> HIDE DEF ends
      <4> QED  BY <1>0, <2>2, <4>1, MinOf
    <3>2. f[end + 1] = g[end + 1]  BY <1>0, <3>1
    <3> HIDE DEF end
    <3>4. /\ CasTurn(bytes, i, f) =
               IF end - PacketLen + 1 >= i /\ CasPacket(candidate)
               THEN WithFirst(CasReading(candidate), f[end + 1]) ELSE f[end + 1]
          /\ CasTurn(bytes, i, g) =
               IF end - PacketLen + 1 >= i /\ CasPacket(candidate)
               THEN WithFirst(CasReading(candidate), g[end + 1]) ELSE g[end + 1]
      BY <2>2 DEF CasTurn, end
    <3> QED  BY <3>2, <3>4
  <2> QED  BY <2>1, <2>2
<1> QED  BY <1>1, <1>2 DEF Turn

(* So there is a function that makes of every place what a turn of the     *)
(* loop makes of it, and Assembled is its value at the first.              *)
LEMMA LoopTurns ==
  ASSUME NEW bytes \in Seq(Byte)
  PROVE  \E loop : /\ Assembled(bytes) = loop[1]
                   /\ \A i \in 1 .. Len(bytes) + 1 : loop[i] = Turn(bytes, i, loop)
<1> DEFINE L == Len(bytes)
           Works(f, a) == f = [j \in a .. L + 1 |-> Turn(bytes, j, f)]
           Bad == {n \in 0 .. L : ~ \E f : Works(f, L + 1 - n)}
<1>0. L \in Nat  OBVIOUS
<1>1. Bad = {}
  <2> SUFFICES ASSUME Bad # {} PROVE FALSE  OBVIOUS
  <2>1. PICK n \in Bad : \A m \in Bad : n <= m
    <3>1. Bad \in SUBSET Nat  BY <1>0
    <3> HIDE DEF Bad
    <3> QED  BY <3>1, Least
  <2>2. n \in 0 .. L /\ ~ \E f : Works(f, L + 1 - n)  BY <2>1
  <2>3. n # 0
    <3> SUFFICES ASSUME n = 0 PROVE FALSE  OBVIOUS
    <3> DEFINE f == [j \in L + 1 .. L + 1 |-> Turn(bytes, j, 0)]
    <3>1. Turn(bytes, L + 1, 0) = Turn(bytes, L + 1, f)
      <4> HIDE DEF f
      <4>1. \A j \in (L + 1) + 1 .. L + 1 : 0[j] = f[j]  BY <1>0
      <4>2. L + 1 \in 1 .. L + 1  BY <1>0
      <4> HIDE DEF Bad
      <4> QED  BY <4>1, <4>2, TurnLooksAhead
    <3>2. \A j \in L + 1 .. L + 1 : Turn(bytes, j, 0) = Turn(bytes, j, f)
      <4> HIDE DEF f
      <4> QED  BY <1>0, <3>1
    <3>3. f = [j \in L + 1 .. L + 1 |-> Turn(bytes, j, f)]  BY <3>2
    <3>4. L + 1 - n = L + 1  BY <1>0
    <3>5. Works(f, L + 1 - n)  BY <3>3, <3>4
    <3> HIDE DEF Works, f, Bad
    <3> QED  BY <2>2, <3>5
  <2>4. n - 1 \in 0 .. L /\ n - 1 \notin Bad
    <3>1. n - 1 \in 0 .. L /\ ~(n <= n - 1)  BY <1>0, <2>2, <2>3
    <3> HIDE DEF Bad
    <3> QED  BY <2>1, <3>1
  <2>5. PICK f : Works(f, L + 1 - (n - 1))
    <3> HIDE DEF Works
    <3> QED  BY <2>4
  <2> DEFINE a == L + 1 - n
             g == [j \in a .. L + 1 |-> IF j = a THEN Turn(bytes, j, f) ELSE f[j]]
  <2>6. a \in 1 .. L /\ L + 1 - (n - 1) = a + 1  BY <1>0, <2>2, <2>3
  <2>7. f = [j \in a + 1 .. L + 1 |-> Turn(bytes, j, f)]  BY <2>5, <2>6
  <2> HIDE DEF Bad, a
  <2>8. \A j \in a + 1 .. L + 1 : g[j] = f[j]  BY <1>0, <2>6
  <2>9. \A j \in a .. L + 1 : g[j] = Turn(bytes, j, g)
    <3> SUFFICES ASSUME NEW j \in a .. L + 1 PROVE g[j] = Turn(bytes, j, g)  OBVIOUS
    <3>1. j \in 1 .. L + 1 /\ j \in Nat  BY <1>0, <2>6
    <3>2. g[j] = Turn(bytes, j, f)
      <4>1. CASE j = a  BY <4>1
      <4>2. CASE j # a
        <5>1. j \in a + 1 .. L + 1  BY <1>0, <2>6, <4>2
        <5>2. f[j] = Turn(bytes, j, f)  BY <2>7, <5>1
        <5> QED  BY <2>8, <5>1, <5>2
      <4> QED  BY <4>1, <4>2
    <3>3. \A k \in j + 1 .. L + 1 : f[k] = g[k]  BY <1>0, <2>6, <2>8
    <3>4. Turn(bytes, j, f) = Turn(bytes, j, g)
      <4> HIDE DEF g
      <4> QED  BY <3>1, <3>3, TurnLooksAhead
    <3> HIDE DEF g
    <3> QED  BY <3>2, <3>4
  <2>10. g = [j \in a .. L + 1 |-> g[j]]  OBVIOUS
  <2>11. Works(g, a)
    <3> HIDE DEF g
    <3> QED  BY <2>9, <2>10
  <2> HIDE DEF Works, g
  <2> QED  BY <2>2, <2>11 DEF a
<1>2. \E f : Works(f, 1)
  <2>1. L \notin Bad /\ L \in 0 .. L /\ L + 1 - L = 1
    <3> HIDE DEF Bad
    <3> QED  BY <1>0, <1>1
  <2> HIDE DEF Works
  <2>2. \E f : Works(f, L + 1 - L)  BY <2>1
  <2> QED  BY <2>1, <2>2
<1> DEFINE loop == CHOOSE f : f = [j \in 1 .. L + 1 |-> Turn(bytes, j, f)]
<1>3. loop = [j \in 1 .. L + 1 |-> Turn(bytes, j, loop)]  BY <1>2
<1>4. Assembled(bytes) = loop[1]  BY DEF Assembled
<1> HIDE DEF loop
<1>5. \A i \in 1 .. L + 1 : loop[i] = Turn(bytes, i, loop)  BY <1>3
<1> QED  BY <1>4, <1>5
-----------------------------------------------------------------------------
(***************************************************************************)
(* What the loop makes of the bytes from a place on.                       *)
(***************************************************************************)
Packets(bytes, i) == {s \in i .. Len(bytes) - PacketLen + 1 : IsPacket(PacketAt(bytes, s))}

(* Whatever comes after the bytes, no packet begins at s, one of the last. *)
DeadStart(bytes, s) ==
  IF proto = "vesar" THEN bytes[s] # STX
  ELSE \E k \in s .. Len(bytes) : bytes[k] = LF /\ (k = s \/ bytes[k - 1] = CR)

Late(bytes, s) == s > Len(bytes) - PacketLen + 1

(* The packets from i on, each once and in order. *)
Told(bytes, i, read) ==
  \E where \in [1 .. Len(read) -> Packets(bytes, i)] :
    /\ \A s \in Packets(bytes, i) : \E k \in 1 .. Len(read) : where[k] = s
    /\ \A j, k \in 1 .. Len(read) : j < k => where[j] < where[k]
    /\ \A k \in 1 .. Len(read) : read[k] = ReadingOf(PacketAt(bytes, where[k]))

RestAt(bytes, i, r) ==
  /\ Len(bytes) + 1 - r <= IF proto = "vesar" THEN PacketLen - 1 ELSE CasLimit
  /\ \A s \in i .. r - 1 : Late(bytes, s) => DeadStart(bytes, s)
  /\ \A s \in Packets(bytes, i) : s < r

Good(bytes, i, fed) ==
  /\ fed.read \in Seq(Reading) /\ Told(bytes, i, fed.read)
  /\ \E r \in i .. Len(bytes) + 1 : fed.rest = From(bytes, r) /\ RestAt(bytes, i, r)

LEMMA RawRange == Raw \subseteq -999 .. 999 /\ Discrete \in Nat \ {0}
BY RawAssumption

LEMMA LimitRange == PacketLen = 4 /\ CasLimit \in Nat /\ CasLimit > 4
BY LimitAssumption DEF PacketLen

LEMMA PacketBytes ==
  ASSUME NEW bytes \in Seq(Byte), NEW s \in 1 .. Len(bytes) - PacketLen + 1
  PROVE  /\ Len(PacketAt(bytes, s)) = PacketLen
         /\ PacketAt(bytes, s)[1] = bytes[s] /\ PacketAt(bytes, s)[2] = bytes[s + 1]
         /\ PacketAt(bytes, s)[3] = bytes[s + 2] /\ PacketAt(bytes, s)[4] = bytes[s + 3]
<1>1. Len(bytes) \in Nat /\ s \in Int /\ PacketLen = 4  BY LimitRange
<1>2. \A i \in s .. s + 3 : i \in 1 .. Len(bytes)  BY <1>1
<1>3. \A i \in s .. s + 3 : bytes[i] \in Byte  BY <1>2, ElementOfSeq
<1>4. PacketAt(bytes, s) = SubSeq(bytes, s, s + 3)  BY <1>1 DEF PacketAt
<1>5. s + 3 \in Int /\ s <= s + 3 /\ (s + 3) - s + 1 = 4  BY <1>1
<1> DEFINE p == SubSeq(bytes, s, s + 3)
<1>6. Len(p) = 4 /\ \A i \in 1 .. 4 : p[i] = bytes[s + i - 1]
  BY <1>1, <1>3, <1>5, SubSeqProperties
<1>7. s + 1 - 1 = s /\ s + 2 - 1 = s + 1 /\ s + 3 - 1 = s + 2 /\ s + 4 - 1 = s + 3  BY <1>1
<1> HIDE DEF p
<1>8. p[1] = bytes[s] /\ p[2] = bytes[s + 1] /\ p[3] = bytes[s + 2] /\ p[4] = bytes[s + 3]
  <2>1. 1 \in 1 .. 4 /\ 2 \in 1 .. 4 /\ 3 \in 1 .. 4 /\ 4 \in 1 .. 4  OBVIOUS
  <2> QED  BY <1>6, <1>7, <2>1
<1> QED  BY <1>1, <1>4, <1>6, <1>8 DEF p

LEMMA VesarAt ==
  ASSUME NEW bytes \in Seq(Byte), NEW s \in 1 .. Len(bytes) - PacketLen + 1
  PROVE  VesarPacket(PacketAt(bytes, s)) <=>
           /\ bytes[s] = STX /\ bytes[s + 1] \in Raw
           /\ bytes[s + 2] = bytes[s + 1] /\ bytes[s + 3] = ETX
BY PacketBytes DEF VesarPacket

LEMMA CasAt ==
  ASSUME NEW bytes \in Seq(Byte), NEW s \in 1 .. Len(bytes) - PacketLen + 1
  PROVE  CasPacket(PacketAt(bytes, s)) <=>
           /\ bytes[s] \in {ST, US, OL} /\ (bytes[s] = OL \/ bytes[s + 1] \in Raw)
           /\ bytes[s + 2] = CR /\ bytes[s + 3] = LF
BY PacketBytes DEF CasPacket

LEMMA ReadingType ==
  ASSUME NEW p, IsPacket(p)
  PROVE  ReadingOf(p) \in Reading
<1>1. CASE proto = "vesar"
  <2>1. p[2] \in Raw  BY <1>1 DEF IsPacket, VesarPacket
  <2> QED  BY <1>1, <2>1 DEF ReadingOf, VesarReading, Reading
<1>2. CASE proto # "vesar"
  <2>1. p[1] = OL \/ p[2] \in Raw  BY <1>2 DEF IsPacket, CasPacket
  <2>2. CasReading(p) \in Reading
    <3>1. CASE p[1] = OL  BY <3>1 DEF CasReading, Reading
    <3>2. CASE p[1] # OL
      <4>1. CasReading(p) = [weight |-> p[2], stable |-> p[1] = ST, over |-> FALSE]  BY <3>2 DEF CasReading
      <4>2. (p[1] = ST) \in BOOLEAN  OBVIOUS
      <4> QED  BY <2>1, <3>2, <4>1, <4>2 DEF Reading
    <3> QED  BY <3>1, <3>2
  <2> QED  BY <1>2, <2>2 DEF ReadingOf
<1> QED  BY <1>1, <1>2

(***************************************************************************)
(* The three ways a turn ends.                                             *)
(***************************************************************************)
LEMMA NoneTold ==
  ASSUME NEW bytes, NEW i, Packets(bytes, i) = {}
  PROVE  <<>> \in Seq(Reading) /\ Told(bytes, i, <<>>)
<1>1. 1 .. Len(<<>>) = {}  OBVIOUS
<1> DEFINE where == [k \in {} |-> 0]
<1>2. where \in [1 .. Len(<<>>) -> Packets(bytes, i)]  BY <1>1
<1>3. <<>> \in Seq(Reading)  OBVIOUS
<1> HIDE DEF where
<1>4. /\ \A s \in Packets(bytes, i) : \E k \in 1 .. Len(<<>>) : where[k] = s
      /\ \A j, k \in 1 .. Len(<<>>) : j < k => where[j] < where[k]
      /\ \A k \in 1 .. Len(<<>>) : <<>>[k] = ReadingOf(PacketAt(bytes, where[k]))
  BY <1>1
<1>5. Told(bytes, i, <<>>)  BY <1>2, <1>4 DEF Told
<1> QED  BY <1>3, <1>5

LEMMA TurnStops ==
  ASSUME NEW bytes, NEW i, Packets(bytes, i) = {}, NEW r \in i .. Len(bytes) + 1, RestAt(bytes, i, r)
  PROVE  Good(bytes, i, Fed(From(bytes, r), <<>>))
BY NoneTold DEF Good, Fed

LEMMA TurnSkips ==
  ASSUME NEW bytes \in Seq(Byte), NEW i \in 1 .. Len(bytes) + 1, NEW next \in i + 1 .. Len(bytes) + 1,
         NEW fed, Good(bytes, next, fed), Packets(bytes, i) = Packets(bytes, next),
         \A s \in i .. next - 1 : Late(bytes, s) => DeadStart(bytes, s)
  PROVE  Good(bytes, i, fed)
<1>0. Len(bytes) \in Nat /\ i \in Nat /\ next \in Nat  OBVIOUS
<1>1. fed.read \in Seq(Reading) /\ Told(bytes, i, fed.read)  BY DEF Good, Told
<1>2. PICK r \in next .. Len(bytes) + 1 : fed.rest = From(bytes, r) /\ RestAt(bytes, next, r)  BY DEF Good
<1>3. r \in i .. Len(bytes) + 1  BY <1>0
<1>4. \A s \in i .. r - 1 : s \in i .. next - 1 \/ s \in next .. r - 1  BY <1>0
<1>5. RestAt(bytes, i, r)  BY <1>2, <1>4 DEF RestAt
<1> QED  BY <1>1, <1>2, <1>3, <1>5 DEF Good

LEMMA TurnReads ==
  ASSUME NEW bytes \in Seq(Byte), NEW i \in 1 .. Len(bytes) + 1, NEW next \in i + 1 .. Len(bytes) + 1,
         NEW fed, Good(bytes, next, fed),
         NEW at \in i .. next - 1, at \in Packets(bytes, i),
         Packets(bytes, i) = {at} \cup Packets(bytes, next),
         \A s \in i .. next - 1 : Late(bytes, s) => DeadStart(bytes, s)
  PROVE  Good(bytes, i, WithFirst(ReadingOf(PacketAt(bytes, at)), fed))
<1> DEFINE r1 == ReadingOf(PacketAt(bytes, at))
           more == fed.read
           read == <<r1>> \o more
           n == Len(more)
<1>0. Len(bytes) \in Nat /\ i \in Nat /\ next \in Nat /\ at \in Nat /\ at < next  OBVIOUS
<1>1. r1 \in Reading  BY ReadingType DEF Packets
<1>2. more \in Seq(Reading) /\ Told(bytes, next, more) /\ n \in Nat  BY DEF Good
<1>3. <<r1>> \in Seq(Reading) /\ Len(<<r1>>) = 1 /\ <<r1>>[1] = r1  BY <1>1
<1> HIDE DEF r1
<1>4. /\ read \in Seq(Reading) /\ Len(read) = n + 1
      /\ \A k \in 1 .. n + 1 : read[k] = IF k = 1 THEN r1 ELSE more[k - 1]
  <2>1. /\ read \in Seq(Reading) /\ Len(read) = 1 + n
        /\ \A k \in 1 .. 1 + n : read[k] = IF k <= 1 THEN <<r1>>[k] ELSE more[k - 1]
    BY <1>2, <1>3, ConcatProperties
  <2>2. 1 + n = n + 1 /\ \A k \in 1 .. n + 1 : k <= 1 <=> k = 1  BY <1>2
  <2> HIDE DEF read
  <2> QED  BY <1>3, <2>1, <2>2
<1> HIDE DEF read
<1>5. Told(bytes, i, read)
  <2>1. PICK where \in [1 .. n -> Packets(bytes, next)] :
          /\ \A s \in Packets(bytes, next) : \E k \in 1 .. n : where[k] = s
          /\ \A j, k \in 1 .. n : j < k => where[j] < where[k]
          /\ \A k \in 1 .. n : more[k] = ReadingOf(PacketAt(bytes, where[k]))
    BY <1>2 DEF Told
  <2> DEFINE place == [k \in 1 .. n + 1 |-> IF k = 1 THEN at ELSE where[k - 1]]
  <2>2. \A k \in 1 .. n + 1 : k = 1 \/ k - 1 \in 1 .. n  BY <1>2
  <2>3. place \in [1 .. n + 1 -> Packets(bytes, i)]  BY <2>2
  <2>4. \A s \in Packets(bytes, i) : \E k \in 1 .. n + 1 : place[k] = s
    <3> SUFFICES ASSUME NEW s \in Packets(bytes, i) PROVE \E k \in 1 .. n + 1 : place[k] = s  OBVIOUS
    <3>1. CASE s = at
      <4>1. 1 \in 1 .. n + 1  BY <1>2
      <4> QED  BY <3>1, <4>1
    <3>2. CASE s # at
      <4>1. PICK k \in 1 .. n : where[k] = s  BY <2>1, <3>2
      <4>2. k + 1 \in 1 .. n + 1 /\ k + 1 # 1 /\ (k + 1) - 1 = k  BY <1>2
      <4>3. place[k + 1] = s  BY <4>1, <4>2
      <4> QED  BY <4>2, <4>3
    <3> QED  BY <3>1, <3>2
  <2>5. \A j, k \in 1 .. n + 1 : j < k => place[j] < place[k]
    <3> SUFFICES ASSUME NEW j \in 1 .. n + 1, NEW k \in 1 .. n + 1, j < k PROVE place[j] < place[k]
      OBVIOUS
    <3>1. k # 1 /\ k - 1 \in 1 .. n /\ place[k] = where[k - 1]  BY <1>2, <2>2
    <3>2. CASE j = 1
      <4>1. where[k - 1] \in Packets(bytes, next)  BY <2>1, <3>1
      <4>2. where[k - 1] \in next .. Len(bytes) - PacketLen + 1  BY <4>1 DEF Packets
      <4>3. at < where[k - 1]  BY <1>0, <4>2, LimitRange
      <4>4. place[j] = at  BY <3>2
      <4> QED  BY <3>1, <4>3, <4>4
    <3>3. CASE j # 1
      <4>1. j - 1 \in 1 .. n /\ j - 1 < k - 1 /\ place[j] = where[j - 1]  BY <1>2, <2>2, <3>3
      <4> QED  BY <2>1, <3>1, <4>1
    <3> QED  BY <3>2, <3>3
  <2>6. \A k \in 1 .. n + 1 : read[k] = ReadingOf(PacketAt(bytes, place[k]))
    <3> SUFFICES ASSUME NEW k \in 1 .. n + 1 PROVE read[k] = ReadingOf(PacketAt(bytes, place[k]))  OBVIOUS
    <3>1. CASE k = 1  BY <1>4, <3>1 DEF r1
    <3>2. CASE k # 1
      <4>1. k - 1 \in 1 .. n /\ place[k] = where[k - 1] /\ read[k] = more[k - 1]  BY <1>4, <2>2, <3>2
      <4> QED  BY <2>1, <4>1
    <3> QED  BY <3>1, <3>2
  <2> HIDE DEF place, n
  <2>7. Len(read) = n + 1  BY <1>4
  <2> QED  BY <2>3, <2>4, <2>5, <2>6, <2>7 DEF Told
<1>6. PICK r \in next .. Len(bytes) + 1 : fed.rest = From(bytes, r) /\ RestAt(bytes, next, r)  BY DEF Good
<1>7. r \in i .. Len(bytes) + 1 /\ at < r  BY <1>0
<1>8. \A s \in i .. r - 1 : s \in i .. next - 1 \/ s \in next .. r - 1  BY <1>0
<1>9. RestAt(bytes, i, r)  BY <1>6, <1>7, <1>8 DEF RestAt
<1>10. WithFirst(r1, fed).read = read /\ WithFirst(r1, fed).rest = fed.rest  BY DEF WithFirst, Fed, read
<1>11. Good(bytes, i, WithFirst(r1, fed))  BY <1>4, <1>5, <1>6, <1>7, <1>9, <1>10 DEF Good
<1> QED  BY <1>11 DEF r1

(* A turn of the loop of VESAR. *)
LEMMA VesarTurnGood ==
  ASSUME proto = "vesar", NEW bytes \in Seq(Byte), NEW i \in 1 .. Len(bytes) + 1, NEW more,
         \A j \in i + 1 .. Len(bytes) + 1 : Good(bytes, j, more[j])
  PROVE  Good(bytes, i, VesarTurn(bytes, i, more))
<1> DEFINE L == Len(bytes)
           starts == {k \in i .. L : bytes[k] = STX}
           at == Min(starts)
           turn == VesarTurn(bytes, i, more)
<1>0. L \in Nat /\ i \in Nat /\ PacketLen = 4  BY LimitRange
<1>1. \A s \in i .. L - PacketLen + 1 : s \in Packets(bytes, i) <=> VesarPacket(PacketAt(bytes, s))
  BY DEF Packets, IsPacket
<1>2. \A s \in i .. L - PacketLen + 1 :
        s \in Packets(bytes, i) <=> /\ bytes[s] = STX /\ bytes[s + 1] \in Raw
                                    /\ bytes[s + 2] = bytes[s + 1] /\ bytes[s + 3] = ETX
  <2> SUFFICES ASSUME NEW s \in i .. L - PacketLen + 1
               PROVE  s \in Packets(bytes, i) <=> /\ bytes[s] = STX /\ bytes[s + 1] \in Raw
                                                  /\ bytes[s + 2] = bytes[s + 1] /\ bytes[s + 3] = ETX
    OBVIOUS
  <2>1. s \in 1 .. L - PacketLen + 1  BY <1>0
  <2> QED  BY <1>1, <2>1, VesarAt
<1>3. \A s : s \in Packets(bytes, i) => s \in i .. L - PacketLen + 1  BY DEF Packets
<1>4. \A s, j \in Nat : i <= j => (s \in Packets(bytes, j) <=> s \in Packets(bytes, i) /\ j <= s)
  BY <1>0 DEF Packets
<1>5. \A s \in i .. L : DeadStart(bytes, s) <=> s \notin starts  BY DEF DeadStart
<1>6. CASE starts = {}
  <2>1. turn = Fed(<<>>, <<>>)  BY <1>6 DEF VesarTurn
  <2>2. From(bytes, L + 1) = <<>>
    <3>1. L + 1 \in Int /\ L \in Int /\ L < L + 1  BY <1>0
    <3> QED  BY <3>1, SubSeqEmpty DEF From
  <2>3. Packets(bytes, i) = {}
    <3> SUFFICES ASSUME NEW s \in Packets(bytes, i) PROVE FALSE  OBVIOUS
    <3>1. s \in i .. L - PacketLen + 1 /\ bytes[s] = STX  BY <1>2, <1>3
    <3>2. s \in i .. L  BY <1>0, <3>1
    <3> QED  BY <1>6, <3>1, <3>2
  <2>4. \A s \in i .. (L + 1) - 1 : DeadStart(bytes, s)  BY <1>0, <1>5, <1>6
  <2>5. L + 1 \in i .. L + 1 /\ L + 1 - (L + 1) <= PacketLen - 1  BY <1>0
  <2>6. RestAt(bytes, i, L + 1)  BY <2>3, <2>4, <2>5 DEF RestAt
  <2> QED  BY <2>1, <2>2, <2>3, <2>5, <2>6, TurnStops
<1>7. CASE starts # {}
  <2> HIDE DEF starts
  <2>0. starts \in SUBSET (i .. L) /\ at \in starts /\ at \in i .. L /\ \A k \in i .. at - 1 : k \notin starts
    <3>1. starts \in SUBSET (i .. L)  BY DEF starts
    <3> QED  BY <1>0, <1>7, <3>1, MinOf
  <2>1. PICK p \in i .. L : p = at  BY <2>0
  <2>2. p \in Nat /\ bytes[p] = STX  BY <1>0, <2>0, <2>1 DEF starts
  <2>3. turn = IF L - p + 1 < PacketLen THEN Fed(From(bytes, p), <<>>)
               ELSE IF VesarPacket(PacketAt(bytes, p))
                    THEN WithFirst(VesarReading(PacketAt(bytes, p)), more[p + PacketLen])
                    ELSE more[p + 1]
    BY <1>7, <2>1 DEF VesarTurn, starts
  <2> HIDE DEF at, turn
  <2>4. \A s \in i .. p - 1 : DeadStart(bytes, s)
    <3> SUFFICES ASSUME NEW s \in i .. p - 1 PROVE DeadStart(bytes, s)  OBVIOUS
    <3>1. s \in i .. L /\ s \notin starts  BY <1>0, <2>0, <2>1, <2>2
    <3> QED  BY <1>5, <3>1
  <2>5. \A s \in Packets(bytes, i) : p <= s
    <3> SUFFICES ASSUME NEW s \in Packets(bytes, i), ~(p <= s) PROVE FALSE  OBVIOUS
    <3>1. s \in i .. L - PacketLen + 1 /\ bytes[s] = STX  BY <1>2, <1>3
    <3>2. s \in i .. p - 1 /\ s \in i .. L  BY <1>0, <2>2, <3>1
    <3> QED  BY <2>4, <3>1, <3>2 DEF DeadStart
  <2>6. CASE L - p + 1 < PacketLen
    <3>1. Packets(bytes, i) = {}
      <4> SUFFICES ASSUME NEW s \in Packets(bytes, i) PROVE FALSE  OBVIOUS
      <4>1. s \in i .. L - PacketLen + 1 /\ p <= s  BY <1>3, <2>5
      <4> QED  BY <1>0, <2>2, <2>6, <4>1
    <3>2. p \in i .. L + 1 /\ L + 1 - p <= PacketLen - 1  BY <1>0, <2>2, <2>6
    <3>3. RestAt(bytes, i, p)  BY <2>4, <3>1, <3>2 DEF RestAt
    <3>4. turn = Fed(From(bytes, p), <<>>)  BY <2>3, <2>6
    <3> QED  BY <3>1, <3>2, <3>3, <3>4, TurnStops DEF turn
  <2>7. CASE ~(L - p + 1 < PacketLen) /\ VesarPacket(PacketAt(bytes, p))
    <3>1. p \in i .. L - PacketLen + 1  BY <1>0, <2>2, <2>7
    <3>2. /\ p \in Packets(bytes, i) /\ bytes[p + 1] \in Raw
          /\ bytes[p + 2] = bytes[p + 1] /\ bytes[p + 3] = ETX
      BY <1>1, <1>2, <2>7, <3>1
    <3>3. bytes[p + 1] # STX /\ bytes[p + 2] # STX /\ bytes[p + 3] # STX
      BY <3>2, RawRange DEF STX, ETX
    <3>4. \A s \in i .. p + 3 : s \in i .. p - 1 \/ s = p \/ s = p + 1 \/ s = p + 2 \/ s = p + 3
      BY <1>0, <2>2
    <3>5. p + PacketLen \in i + 1 .. L + 1 /\ (p + PacketLen) - 1 = p + 3 /\ p \in i .. p + 3
      BY <1>0, <2>2, <3>1
    <3>6. \A s \in i .. (p + PacketLen) - 1 : Late(bytes, s) => DeadStart(bytes, s)
      <4> SUFFICES ASSUME NEW s \in i .. p + 3, Late(bytes, s) PROVE DeadStart(bytes, s)  BY <3>5
      <4>1. s # p  BY <1>0, <3>1 DEF Late
      <4>2. s \in i .. p - 1 \/ bytes[s] # STX  BY <3>3, <3>4, <4>1
      <4> QED  BY <2>4, <4>2 DEF DeadStart
    <3>7. Packets(bytes, i) = {p} \cup Packets(bytes, p + PacketLen)
      <4>1. ASSUME NEW s \in Packets(bytes, i), s # p PROVE s \in Packets(bytes, p + PacketLen)
        <5>1. s \in i .. L - PacketLen + 1 /\ bytes[s] = STX /\ p <= s  BY <1>2, <1>3, <2>5, <4>1
        <5>2. s \notin i .. p + 3  BY <1>0, <2>2, <3>3, <3>4, <4>1, <5>1
        <5>3. s \in Nat /\ p + PacketLen \in Nat /\ i <= p + PacketLen /\ p + PacketLen <= s
          BY <1>0, <2>2, <5>1, <5>2
        <5> QED  BY <1>4, <4>1, <5>3
      <4>2. ASSUME NEW s \in Packets(bytes, p + PacketLen) PROVE s \in Packets(bytes, i)
        <5>1. p + PacketLen \in Nat /\ i <= p + PacketLen  BY <1>0, <2>2
        <5>2. s \in p + PacketLen .. L - PacketLen + 1  BY <4>2 DEF Packets
        <5>3. s \in Nat  BY <1>0, <5>1, <5>2
        <5> QED  BY <1>4, <4>2, <5>1, <5>3
      <4> QED  BY <3>2, <4>1, <4>2
    <3>8. Good(bytes, p + PacketLen, more[p + PacketLen])  BY <1>0, <3>5
    <3>9. turn = WithFirst(ReadingOf(PacketAt(bytes, p)), more[p + PacketLen])
      BY <2>3, <2>7 DEF ReadingOf
    <3>10. p \in i .. (p + PacketLen) - 1  BY <3>5
    <3>11. Good(bytes, i, WithFirst(ReadingOf(PacketAt(bytes, p)), more[p + PacketLen]))
      BY <3>2, <3>5, <3>6, <3>7, <3>8, <3>10, TurnReads
    <3> QED  BY <3>9, <3>11 DEF turn
  <2>8. CASE ~(L - p + 1 < PacketLen) /\ ~VesarPacket(PacketAt(bytes, p))
    <3>1. p \in i .. L - PacketLen + 1 /\ p \notin Packets(bytes, i)  BY <1>0, <1>1, <2>2, <2>8
    <3>2. p + 1 \in i + 1 .. L + 1 /\ (p + 1) - 1 = p /\ p + 1 \in Nat /\ i <= p + 1  BY <1>0, <2>2, <3>1
    <3>3. \A s \in i .. (p + 1) - 1 : Late(bytes, s) => DeadStart(bytes, s)
      <4> SUFFICES ASSUME NEW s \in i .. p, Late(bytes, s) PROVE DeadStart(bytes, s)  BY <3>2
      <4>1. s # p  BY <1>0, <3>1 DEF Late
      <4>2. s \in i .. p - 1  BY <1>0, <2>2, <4>1
      <4> QED  BY <2>4, <4>2
    <3>4. Packets(bytes, i) = Packets(bytes, p + 1)
      <4>1. ASSUME NEW s \in Packets(bytes, i) PROVE s \in Packets(bytes, p + 1)
        <5>1. s \in i .. L - PacketLen + 1 /\ p <= s /\ s # p  BY <1>3, <2>5, <3>1, <4>1
        <5>2. s \in Nat /\ p + 1 <= s  BY <1>0, <2>2, <5>1
        <5> QED  BY <1>4, <3>2, <4>1, <5>2
      <4>2. ASSUME NEW s \in Packets(bytes, p + 1) PROVE s \in Packets(bytes, i)
        <5>1. s \in p + 1 .. L - PacketLen + 1  BY <4>2 DEF Packets
        <5>2. s \in Nat  BY <1>0, <2>2, <5>1
        <5> QED  BY <1>4, <3>2, <4>2, <5>2
      <4> QED  BY <4>1, <4>2
    <3>5. Good(bytes, p + 1, more[p + 1])  BY <3>2
    <3>6. turn = more[p + 1]  BY <2>3, <2>8
    <3>7. Good(bytes, i, more[p + 1])  BY <3>2, <3>3, <3>4, <3>5, TurnSkips
    <3> QED  BY <3>6, <3>7 DEF turn
  <2> QED  BY <2>6, <2>7, <2>8
<1> QED  BY <1>6, <1>7

(* A turn of the loop of CAS 22. *)
LEMMA CasTurnGood ==
  ASSUME proto # "vesar", NEW bytes \in Seq(Byte), NEW i \in 1 .. Len(bytes) + 1, NEW more,
         \A j \in i + 1 .. Len(bytes) + 1 : Good(bytes, j, more[j])
  PROVE  Good(bytes, i, CasTurn(bytes, i, more))
<1> DEFINE L == Len(bytes)
           ends == {k \in i + 1 .. L : bytes[k - 1] = CR /\ bytes[k] = LF}
           end == Min(ends)
           turn == CasTurn(bytes, i, more)
<1>0. L \in Nat /\ i \in Nat /\ PacketLen = 4 /\ CasLimit \in Nat /\ CasLimit > 4  BY LimitRange
<1>1. \A s \in i .. L - PacketLen + 1 : s \in Packets(bytes, i) <=> CasPacket(PacketAt(bytes, s))
  BY DEF Packets, IsPacket
<1>2. \A s \in i .. L - PacketLen + 1 :
        s \in Packets(bytes, i) => /\ bytes[s] \in {ST, US, OL} /\ bytes[s + 2] = CR /\ bytes[s + 3] = LF
  <2> SUFFICES ASSUME NEW s \in i .. L - PacketLen + 1, s \in Packets(bytes, i)
               PROVE  bytes[s] \in {ST, US, OL} /\ bytes[s + 2] = CR /\ bytes[s + 3] = LF
    OBVIOUS
  <2>1. s \in 1 .. L - PacketLen + 1  BY <1>0
  <2> QED  BY <1>1, <2>1, CasAt
<1>3. \A s : s \in Packets(bytes, i) => s \in i .. L - PacketLen + 1  BY DEF Packets
<1>4. \A s, j \in Nat : i <= j => (s \in Packets(bytes, j) <=> s \in Packets(bytes, i) /\ j <= s)
  BY <1>0 DEF Packets
<1>5. \A s \in Packets(bytes, i) : s + 3 \in ends
  <2> SUFFICES ASSUME NEW s \in Packets(bytes, i) PROVE s + 3 \in ends  OBVIOUS
  <2>1. s \in i .. L - PacketLen + 1 /\ bytes[s + 2] = CR /\ bytes[s + 3] = LF  BY <1>2, <1>3
  <2>2. s + 3 \in i + 1 .. L /\ (s + 3) - 1 = s + 2  BY <1>0, <2>1
  <2> QED  BY <2>1, <2>2
<1>6. CASE ends = {}
  <2>1. turn = Fed(CasRest(From(bytes, i)), <<>>)  BY <1>6 DEF CasTurn
  <2>2. Packets(bytes, i) = {}  BY <1>5, <1>6
  <2>3. Len(From(bytes, i)) = L + 1 - i
    <3>1. \A k \in i .. L : bytes[k] \in Byte
      <4>1. \A k \in i .. L : k \in 1 .. L  BY <1>0
      <4> QED  BY <4>1, ElementOfSeq
    <3>2. i \in Int /\ L \in Int  BY <1>0
    <3>3. Len(From(bytes, i)) = IF i <= L THEN L - i + 1 ELSE 0  BY <3>1, <3>2, SubSeqProperties DEF From
    <3> QED  BY <1>0, <3>3
  <2>4. CASE L + 1 - i > CasLimit
    <3>1. CasRest(From(bytes, i)) = From(From(bytes, i), (L + 1 - i) - PacketLen + 1)
      BY <2>3, <2>4 DEF CasRest
    <3> DEFINE m == (L + 1 - i) - PacketLen + 1
               n == L + 1 - i
    <3>2. /\ i \in 1 .. L /\ L \in 1 .. L /\ m \in 1 .. L - i + 1 /\ n \in 1 .. L - i + 1
          /\ i + m - 1 = L - 3 /\ i + n - 1 = L
      BY <1>0, <2>4
    <3>3. From(From(bytes, i), m) = SubSeq(SubSeq(bytes, i, L), m, n)  BY <2>3 DEF From
    <3> HIDE DEF m, n
    <3>4. SubSeq(SubSeq(bytes, i, L), m, n) = SubSeq(bytes, i + m - 1, i + n - 1)
      BY <3>2, SubSeqOfSubSeq
    <3>5. CasRest(From(bytes, i)) = From(bytes, L - 3)  BY <3>1, <3>2, <3>3, <3>4 DEF From, m
    <3>6. L - 3 \in i .. L + 1 /\ L + 1 - (L - 3) <= CasLimit  BY <1>0, <2>4
    <3>7. \A s \in i .. (L - 3) - 1 : ~Late(bytes, s)  BY <1>0, <3>6 DEF Late
    <3>8. RestAt(bytes, i, L - 3)  BY <2>2, <3>6, <3>7 DEF RestAt
    <3> QED  BY <2>1, <2>2, <3>5, <3>6, <3>8, TurnStops
  <2>5. CASE ~(L + 1 - i > CasLimit)
    <3>1. CasRest(From(bytes, i)) = From(bytes, i)  BY <2>3, <2>5 DEF CasRest
    <3>2. i \in i .. L + 1 /\ L + 1 - i <= CasLimit  BY <1>0, <2>5
    <3>3. \A s : s \notin i .. i - 1  BY <1>0
    <3>4. RestAt(bytes, i, i)  BY <2>2, <3>2, <3>3 DEF RestAt
    <3> QED  BY <2>1, <2>2, <3>1, <3>2, <3>4, TurnStops
  <2> QED  BY <2>4, <2>5
<1>7. CASE ends # {}
  <2> HIDE DEF ends
  <2>0. ends \in SUBSET (i + 1 .. L) /\ end \in ends /\ end \in i + 1 .. L /\ \A k \in i + 1 .. end - 1 : k \notin ends
    <3>1. ends \in SUBSET (i + 1 .. L) /\ i + 1 \in Nat  BY <1>0 DEF ends
    <3> QED  BY <1>0, <1>7, <3>1, MinOf
  <2>1. PICK e \in i + 1 .. L : e = end  BY <2>0
  <2>2. e \in Nat /\ i < e /\ bytes[e - 1] = CR /\ bytes[e] = LF  BY <1>0, <2>0, <2>1 DEF ends
  <2>3. turn = IF e - PacketLen + 1 >= i /\ CasPacket(PacketAt(bytes, e - PacketLen + 1))
               THEN WithFirst(CasReading(PacketAt(bytes, e - PacketLen + 1)), more[e + 1])
               ELSE more[e + 1]
    BY <1>7, <2>1 DEF CasTurn, ends
  <2> HIDE DEF end, turn
  <2>4. e + 1 \in i + 1 .. L + 1 /\ (e + 1) - 1 = e /\ e + 1 \in Nat /\ i <= e + 1
        /\ e - PacketLen + 1 = e - 3
    BY <1>0, <2>2
  <2>5. \A s \in i .. (e + 1) - 1 : Late(bytes, s) => DeadStart(bytes, s)
    <3> SUFFICES ASSUME NEW s \in i .. e PROVE DeadStart(bytes, s)  BY <2>4
    <3>1. e \in s .. L  BY <1>0, <2>2
    <3> QED  BY <2>2, <3>1 DEF DeadStart
  <2>6. \A s \in Packets(bytes, i) : s = e - 3 \/ e + 1 <= s
    <3> SUFFICES ASSUME NEW s \in Packets(bytes, i) PROVE s = e - 3 \/ e + 1 <= s  OBVIOUS
    <3>1. /\ s \in i .. L - PacketLen + 1 /\ s + 3 \in ends
          /\ bytes[s] \in {ST, US, OL} /\ bytes[s + 2] = CR
      BY <1>2, <1>3, <1>5
    <3>2. s + 3 \in i + 1 .. L /\ s \in Nat  BY <1>0, <2>0, <3>1
    <3>3. ~(s + 3 < e)  BY <1>0, <2>0, <2>1, <2>2, <3>1, <3>2
    <3>4. s # e  BY <2>2, <3>1 DEF ST, US, OL, LF
    <3>5. s # e - 1  BY <2>2, <3>1 DEF ST, US, OL, CR
    <3>6. s # e - 2
      <4> SUFFICES ASSUME s = e - 2 PROVE FALSE  OBVIOUS
      <4>1. s + 2 = e  BY <2>2
      <4> QED  BY <2>2, <3>1, <4>1 DEF CR, LF
    <3> QED  BY <2>2, <3>2, <3>3, <3>4, <3>5, <3>6
  <2>7. \A s : s \in Packets(bytes, e + 1) => s \in Packets(bytes, i) /\ e + 1 <= s
    <3> SUFFICES ASSUME NEW s \in Packets(bytes, e + 1) PROVE s \in Packets(bytes, i) /\ e + 1 <= s
      OBVIOUS
    <3>1. s \in e + 1 .. L - PacketLen + 1  BY DEF Packets
    <3>2. s \in Nat  BY <1>0, <2>2, <3>1
    <3> QED  BY <1>4, <2>4, <3>2
  <2>8. \A s \in Packets(bytes, i) : s # e - 3 => s \in Packets(bytes, e + 1)
    <3> SUFFICES ASSUME NEW s \in Packets(bytes, i), s # e - 3 PROVE s \in Packets(bytes, e + 1)
      OBVIOUS
    <3>1. e + 1 <= s /\ s \in i .. L - PacketLen + 1  BY <1>3, <2>6
    <3>2. s \in Nat  BY <1>0, <3>1
    <3> QED  BY <1>4, <2>4, <3>1, <3>2
  <2>9. Good(bytes, e + 1, more[e + 1])  BY <2>4
  <2>10. e - 3 >= i => e - 3 \in i .. L - PacketLen + 1  BY <1>0, <2>2
  <2>11. CASE e - 3 >= i /\ CasPacket(PacketAt(bytes, e - 3))
    <3>1. e - 3 \in Packets(bytes, i)  BY <1>1, <2>10, <2>11
    <3>2. Packets(bytes, i) = {e - 3} \cup Packets(bytes, e + 1)  BY <2>7, <2>8, <3>1
    <3>3. e - 3 \in i .. (e + 1) - 1  BY <1>0, <2>2, <2>11
    <3>4. turn = WithFirst(ReadingOf(PacketAt(bytes, e - 3)), more[e + 1])
      BY <2>3, <2>4, <2>11 DEF ReadingOf
    <3>5. Good(bytes, i, WithFirst(ReadingOf(PacketAt(bytes, e - 3)), more[e + 1]))
      BY <2>4, <2>5, <2>9, <3>1, <3>2, <3>3, TurnReads
    <3> QED  BY <3>4, <3>5 DEF turn
  <2>12. CASE ~(e - 3 >= i /\ CasPacket(PacketAt(bytes, e - 3)))
    <3>1. e - 3 \notin Packets(bytes, i)
      <4> SUFFICES ASSUME e - 3 \in Packets(bytes, i) PROVE FALSE  OBVIOUS
      <4>1. e - 3 \in i .. L - PacketLen + 1  BY <1>3
      <4>2. e - 3 >= i  BY <1>0, <2>2, <4>1
      <4> QED  BY <1>1, <2>12, <4>1, <4>2
    <3>2. Packets(bytes, i) = Packets(bytes, e + 1)  BY <2>7, <2>8, <3>1
    <3>3. turn = more[e + 1]  BY <2>3, <2>4, <2>12
    <3>4. Good(bytes, i, more[e + 1])  BY <2>4, <2>5, <2>9, <3>2, TurnSkips
    <3> QED  BY <3>3, <3>4 DEF turn
  <2> QED  BY <2>11, <2>12
<1> QED  BY <1>6, <1>7

(* What assembles: the packets of all bytes, and a rest that loses none.   *)
LEMMA AssembledGood ==
  ASSUME NEW bytes \in Seq(Byte)
  PROVE  Good(bytes, 1, Assembled(bytes))
<1> DEFINE L == Len(bytes)
<1>0. L \in Nat  OBVIOUS
<1>1. PICK loop : Assembled(bytes) = loop[1] /\ \A i \in 1 .. L + 1 : loop[i] = Turn(bytes, i, loop)
  BY LoopTurns
<1> DEFINE Bad == {n \in 0 .. L : ~Good(bytes, L + 1 - n, loop[L + 1 - n])}
<1>2. Bad = {}
  <2> SUFFICES ASSUME Bad # {} PROVE FALSE  OBVIOUS
  <2>1. PICK n \in Bad : \A m \in Bad : n <= m
    <3>1. Bad \in SUBSET Nat  BY <1>0
    <3> HIDE DEF Bad
    <3> QED  BY <3>1, Least
  <2> DEFINE i == L + 1 - n
  <2>2. n \in 0 .. L /\ ~Good(bytes, i, loop[i])  BY <2>1
  <2>3. i \in 1 .. L + 1  BY <1>0, <2>2
  <2>4. \A j \in i + 1 .. L + 1 : Good(bytes, j, loop[j])
    <3> SUFFICES ASSUME NEW j \in i + 1 .. L + 1 PROVE Good(bytes, j, loop[j])  OBVIOUS
    <3>1. L + 1 - j \in 0 .. L /\ ~(n <= L + 1 - j) /\ L + 1 - (L + 1 - j) = j  BY <1>0, <2>2
    <3>2. L + 1 - j \notin Bad
      <4> HIDE DEF Bad
      <4> QED  BY <2>1, <3>1
    <3>3. Good(bytes, L + 1 - (L + 1 - j), loop[L + 1 - (L + 1 - j)])  BY <3>1, <3>2
    <3> QED  BY <3>1, <3>3
  <2> HIDE DEF Bad, i
  <2>5. Good(bytes, i, Turn(bytes, i, loop))
    <3>1. CASE proto = "vesar"  BY <2>3, <2>4, <3>1, VesarTurnGood DEF Turn
    <3>2. CASE proto # "vesar"  BY <2>3, <2>4, <3>2, CasTurnGood DEF Turn
    <3> QED  BY <3>1, <3>2
  <2> QED  BY <1>1, <2>2, <2>3, <2>5
<1>3. L \in 0 .. L /\ L + 1 - L = 1  BY <1>0
<1>4. Good(bytes, L + 1 - L, loop[L + 1 - L])  BY <1>2, <1>3
<1> QED  BY <1>1, <1>3, <1>4
-----------------------------------------------------------------------------
(***************************************************************************)
(* One chunk after another: what is said of all bytes read so far stays    *)
(* true of more bytes when the buffer and the chunk were assembled.        *)
(***************************************************************************)
LEMMA SamePart ==
  ASSUME NEW s \in Seq(Byte), NEW t \in Seq(Byte), NEW off \in Int, NEW m \in Int, NEW n \in Int,
         \A k \in m .. n : k \in 1 .. Len(s) /\ off + k \in 1 .. Len(t) /\ s[k] = t[off + k]
  PROVE  SubSeq(s, m, n) = SubSeq(t, off + m, off + n)
<1> DEFINE p == SubSeq(s, m, n)
           q == SubSeq(t, off + m, off + n)
<1>1. \A k \in m .. n : s[k] \in Byte  BY ElementOfSeq
<1>2. p \in Seq(Byte) /\ Len(p) = (IF m <= n THEN n - m + 1 ELSE 0) /\ \A k \in 1 .. n - m + 1 : p[k] = s[m + k - 1]
  BY <1>1, SubSeqProperties
<1>3. \A k \in off + m .. off + n : t[k] \in Byte
  <2> SUFFICES ASSUME NEW k \in off + m .. off + n PROVE t[k] \in Byte  OBVIOUS
  <2>1. k - off \in m .. n /\ off + (k - off) = k  OBVIOUS
  <2>2. k \in 1 .. Len(t)  BY <2>1
  <2> QED  BY <2>2, ElementOfSeq
<1>4. off + m \in Int /\ off + n \in Int /\ (off + n) - (off + m) + 1 = n - m + 1 /\ (off + m <= off + n <=> m <= n)
  OBVIOUS
<1>5. /\ q \in Seq(Byte) /\ Len(q) = (IF m <= n THEN n - m + 1 ELSE 0)
      /\ \A k \in 1 .. n - m + 1 : q[k] = t[(off + m) + k - 1]
  BY <1>3, <1>4, SubSeqProperties
<1> HIDE DEF p, q
<1>6. \A k \in 1 .. Len(p) : p[k] = q[k]
  <2> SUFFICES ASSUME NEW k \in 1 .. Len(p) PROVE p[k] = q[k]  OBVIOUS
  <2>1. k \in 1 .. n - m + 1  BY <1>2
  <2>2. m + k - 1 \in m .. n /\ off + (m + k - 1) = (off + m) + k - 1  BY <2>1
  <2>3. s[m + k - 1] = t[(off + m) + k - 1]  BY <2>2
  <2> QED  BY <1>2, <1>5, <2>1, <2>3
<1>7. p = q  BY <1>2, <1>5, <1>6, SeqEqual
<1> QED  BY <1>7 DEF p, q

(* What is dead stays dead, and is no packet of more bytes. *)
LEMMA DeadStays ==
  ASSUME NEW s \in Seq(Byte), NEW t \in Seq(Byte), NEW off \in Nat, NEW at \in 1 .. Len(s),
         \A k \in 1 .. Len(s) : off + k \in 1 .. Len(t) /\ s[k] = t[off + k],
         DeadStart(s, at)
  PROVE  DeadStart(t, off + at)
<1>1. CASE proto = "vesar"  BY <1>1 DEF DeadStart
<1>2. CASE proto # "vesar"
  <2>1. PICK k \in at .. Len(s) : s[k] = LF /\ (k = at \/ s[k - 1] = CR)  BY <1>2 DEF DeadStart
  <2>2. Len(s) \in Nat /\ Len(t) \in Nat /\ k \in 1 .. Len(s)  OBVIOUS
  <2>3. off + k \in off + at .. Len(t) /\ t[off + k] = LF  BY <2>1, <2>2
  <2>4. off + k = off + at \/ t[(off + k) - 1] = CR
    <3>1. CASE k = at  BY <3>1
    <3>2. CASE k # at
      <4>1. k - 1 \in 1 .. Len(s) /\ off + (k - 1) = (off + k) - 1 /\ s[k - 1] = CR  BY <2>1, <2>2, <3>2
      <4> QED  BY <4>1
    <3> QED  BY <3>1, <3>2
  <2> QED  BY <1>2, <2>3, <2>4 DEF DeadStart
<1> QED  BY <1>1, <1>2

LEMMA DeadIsNone ==
  ASSUME NEW s \in Seq(Byte), NEW t \in Seq(Byte), NEW at \in 1 .. Len(s),
         Late(s, at), DeadStart(s, at), at <= Len(t) - PacketLen + 1,
         \A k \in 1 .. Len(s) : k \in 1 .. Len(t) /\ s[k] = t[k]
  PROVE  ~IsPacket(PacketAt(t, at))
<1>0. Len(s) \in Nat /\ Len(t) \in Nat /\ at \in Nat /\ PacketLen = 4  BY LimitRange
<1>1. at \in 1 .. Len(t) - PacketLen + 1 /\ s[at] = t[at]  BY <1>0
<1>2. CASE proto = "vesar"
  <2>1. t[at] # STX  BY <1>1, <1>2 DEF DeadStart
  <2> QED  BY <1>1, <1>2, <2>1, VesarAt DEF IsPacket
<1>3. CASE proto # "vesar"
  <2> SUFFICES ASSUME CasPacket(PacketAt(t, at)) PROVE FALSE  BY <1>3 DEF IsPacket
  <2>1. t[at] \in {ST, US, OL} /\ t[at + 2] = CR  BY <1>1, CasAt
  <2>2. PICK k \in at .. Len(s) : s[k] = LF /\ (k = at \/ s[k - 1] = CR)  BY <1>3 DEF DeadStart
  <2>3. t[k] = LF /\ k \in Nat  BY <1>0, <2>2
  <2>4. k = at \/ k = at + 1 \/ k = at + 2  BY <1>0, <2>2 DEF Late
  <2>5. CASE k = at  BY <2>1, <2>3, <2>5 DEF ST, US, OL, LF
  <2>6. CASE k = at + 1
    <3>1. k # at /\ k - 1 = at /\ s[k - 1] = CR  BY <1>0, <2>2, <2>6
    <3>2. t[at] = CR  BY <1>1, <3>1
    <3> QED  BY <2>1, <3>2 DEF ST, US, OL, CR
  <2>7. CASE k = at + 2  BY <2>1, <2>3, <2>7 DEF CR, LF
  <2> QED  BY <2>4, <2>5, <2>6, <2>7
<1> QED  BY <1>2, <1>3

LEMMA ChunkJoins ==
  ASSUME NEW old \in Seq(Byte), NEW chunk \in Seq(Byte), NEW was, NEW buf,
         Good(old, 1, Fed(buf, was)), NEW fed, Good(buf \o chunk, 1, fed)
  PROVE  Good(old \o chunk, 1, Fed(fed.rest, was \o fed.read)) /\ buf \in Seq(Byte)
<1> DEFINE new == old \o chunk
           bytes == buf \o chunk
           read == fed.read
<1>1. /\ Fed(buf, was).rest = buf /\ Fed(buf, was).read = was
      /\ Fed(fed.rest, was \o read).rest = fed.rest /\ Fed(fed.rest, was \o read).read = was \o read
  BY DEF Fed
<1>2. PICK r0 \in 1 .. Len(old) + 1 : buf = From(old, r0) /\ RestAt(old, 1, r0)  BY <1>1 DEF Good
<1>3. PICK off \in Nat : off = r0 - 1  OBVIOUS
<1>4. Len(old) \in Nat /\ Len(chunk) \in Nat /\ PacketLen = 4 /\ off <= Len(old) /\ r0 = off + 1
  BY <1>3, LimitRange
<1>5. /\ buf \in Seq(Byte) /\ Len(buf) = Len(old) - off
      /\ \A k \in 1 .. Len(old) - off : buf[k] = old[off + k]
  <2>1. \A k \in r0 .. Len(old) : old[k] \in Byte
    <3>1. \A k \in r0 .. Len(old) : k \in 1 .. Len(old)  BY <1>4
    <3> QED  BY <3>1, ElementOfSeq
  <2>2. /\ buf \in Seq(Byte) /\ Len(buf) = IF r0 <= Len(old) THEN Len(old) - r0 + 1 ELSE 0
        /\ \A k \in 1 .. Len(old) - r0 + 1 : buf[k] = old[r0 + k - 1]
    BY <1>2, <1>4, <2>1, SubSeqProperties DEF From
  <2>3. Len(old) - r0 + 1 = Len(old) - off /\ \A k \in 1 .. Len(old) - off : r0 + k - 1 = off + k  BY <1>4
  <2>4. Len(buf) = Len(old) - off
    <3>1. Len(buf) = IF r0 <= Len(old) THEN Len(old) - r0 + 1 ELSE 0  BY <2>2
    <3>2. ~(r0 <= Len(old)) => Len(old) - off = 0  BY <1>4
    <3> QED  BY <2>3, <3>1, <3>2
  <2> QED  BY <2>2, <2>3, <2>4
<1>6. /\ new \in Seq(Byte) /\ Len(new) = Len(old) + Len(chunk)
      /\ \A k \in 1 .. Len(old) + Len(chunk) : new[k] = IF k <= Len(old) THEN old[k] ELSE chunk[k - Len(old)]
  BY ConcatProperties
<1>7. /\ bytes \in Seq(Byte) /\ Len(bytes) = Len(new) - off /\ Len(bytes) \in Nat
      /\ \A k \in 1 .. Len(bytes) : bytes[k] = new[off + k]
  <2>1. /\ bytes \in Seq(Byte) /\ Len(bytes) = Len(buf) + Len(chunk)
        /\ \A k \in 1 .. Len(buf) + Len(chunk) : bytes[k] = IF k <= Len(buf) THEN buf[k] ELSE chunk[k - Len(buf)]
    BY <1>5, ConcatProperties
  <2>2. Len(bytes) = Len(new) - off /\ Len(bytes) \in Nat  BY <1>4, <1>5, <1>6, <2>1
  <2>3. ASSUME NEW k \in 1 .. Len(bytes) PROVE bytes[k] = new[off + k]
    <3> HIDE DEF bytes, new
    <3>1. off + k \in 1 .. Len(old) + Len(chunk) /\ k \in 1 .. Len(buf) + Len(chunk)  BY <1>4, <1>6, <2>1, <2>2
    <3>2. CASE k <= Len(buf)
      <4>1. k \in 1 .. Len(old) - off /\ off + k <= Len(old)  BY <1>4, <1>5, <3>2
      <4> QED  BY <1>5, <1>6, <2>1, <3>1, <3>2, <4>1
    <3>3. CASE ~(k <= Len(buf))
      <4>1. ~(off + k <= Len(old)) /\ k - Len(buf) = (off + k) - Len(old)  BY <1>4, <1>5, <3>3
      <4> QED  BY <1>6, <2>1, <3>1, <3>3, <4>1
    <3> QED  BY <3>2, <3>3
  <2> QED  BY <2>1, <2>2, <2>3
<1>8. \A k \in 1 .. Len(old) : k \in 1 .. Len(new) /\ old[k] = new[k]  BY <1>4, <1>6
<1> HIDE DEF new, bytes, read
<1>9. \A s \in 1 .. Len(old) - PacketLen + 1 : PacketAt(old, s) = PacketAt(new, s)
  <2> SUFFICES ASSUME NEW s \in 1 .. Len(old) - PacketLen + 1 PROVE PacketAt(old, s) = PacketAt(new, s)
    OBVIOUS
  <2>1. s \in Int /\ s + 3 \in Int /\ s + PacketLen - 1 = s + 3 /\ 0 + s = s /\ 0 + (s + 3) = s + 3  BY <1>4
  <2>2. \A k \in s .. s + 3 : k \in 1 .. Len(old) /\ 0 + k = k  BY <1>4
  <2>3. \A k \in s .. s + 3 : k \in 1 .. Len(old) /\ 0 + k \in 1 .. Len(new) /\ old[k] = new[0 + k]
    BY <1>8, <2>2
  <2>4. SubSeq(old, s, s + 3) = SubSeq(new, 0 + s, 0 + (s + 3))  BY <1>6, <2>1, <2>3, SamePart
  <2> QED  BY <2>1, <2>4 DEF PacketAt
<1>10. \A s \in 1 .. Len(bytes) - PacketLen + 1 : PacketAt(bytes, s) = PacketAt(new, off + s)
  <2> SUFFICES ASSUME NEW s \in 1 .. Len(bytes) - PacketLen + 1 PROVE PacketAt(bytes, s) = PacketAt(new, off + s)
    OBVIOUS
  <2>1. s \in Int /\ s + 3 \in Int /\ s + PacketLen - 1 = s + 3 /\ (off + s) + PacketLen - 1 = off + (s + 3)
    BY <1>4
  <2>2. \A k \in s .. s + 3 : k \in 1 .. Len(bytes) /\ off + k \in 1 .. Len(new)  BY <1>4, <1>6, <1>7
  <2>3. \A k \in s .. s + 3 : k \in 1 .. Len(bytes) /\ off + k \in 1 .. Len(new) /\ bytes[k] = new[off + k]
    BY <1>7, <2>2
  <2>4. SubSeq(bytes, s, s + 3) = SubSeq(new, off + s, off + (s + 3))  BY <1>6, <1>7, <2>1, <2>3, SamePart
  <2> QED  BY <2>1, <2>4 DEF PacketAt
<1>11. \A s \in Packets(old, 1) : s \in Packets(new, 1) /\ s \in 1 .. off
  <2> SUFFICES ASSUME NEW s \in Packets(old, 1) PROVE s \in Packets(new, 1) /\ s \in 1 .. off  OBVIOUS
  <2>1. s \in 1 .. Len(old) - PacketLen + 1 /\ IsPacket(PacketAt(old, s)) /\ s < r0  BY <1>2 DEF Packets, RestAt
  <2>2. s \in 1 .. Len(new) - PacketLen + 1 /\ s \in 1 .. off  BY <1>4, <1>6, <2>1
  <2> QED  BY <1>9, <2>1, <2>2 DEF Packets
<1>12. \A s \in Packets(bytes, 1) : s \in Nat /\ off + s \in Packets(new, 1)
  <2> SUFFICES ASSUME NEW s \in Packets(bytes, 1) PROVE s \in Nat /\ off + s \in Packets(new, 1)  OBVIOUS
  <2>1. s \in 1 .. Len(bytes) - PacketLen + 1 /\ IsPacket(PacketAt(bytes, s))  BY DEF Packets
  <2>2. s \in Nat /\ off + s \in 1 .. Len(new) - PacketLen + 1  BY <1>4, <1>6, <1>7, <2>1
  <2> QED  BY <1>10, <2>1, <2>2 DEF Packets
<1>13. \A s \in Packets(new, 1) : s \in Packets(old, 1) \/ (s - off \in Packets(bytes, 1) /\ s \in Nat)
  <2> SUFFICES ASSUME NEW s \in Packets(new, 1), s \notin Packets(old, 1) PROVE s - off \in Packets(bytes, 1) /\ s \in Nat
    OBVIOUS
  <2>1. s \in 1 .. Len(new) - PacketLen + 1 /\ IsPacket(PacketAt(new, s)) /\ s \in Nat  BY <1>4, <1>6 DEF Packets
  <2>2. ~(s <= Len(old) - PacketLen + 1)
    <3> SUFFICES ASSUME s <= Len(old) - PacketLen + 1 PROVE FALSE  OBVIOUS
    <3>1. s \in 1 .. Len(old) - PacketLen + 1  BY <1>4, <2>1
    <3>2. s \in Packets(old, 1)  BY <1>9, <2>1, <3>1 DEF Packets
    <3> QED  BY <3>2
  <2>3. ~(s <= off)
    <3> SUFFICES ASSUME s <= off PROVE FALSE  OBVIOUS
    <3>1. s \in 1 .. r0 - 1 /\ s \in 1 .. Len(old) /\ s <= Len(new) - PacketLen + 1  BY <1>4, <1>6, <2>1
    <3>2. Late(old, s)  BY <1>4, <2>1, <2>2 DEF Late
    <3>3. DeadStart(old, s)  BY <1>2, <3>1, <3>2 DEF RestAt
    <3>4. ~IsPacket(PacketAt(new, s))  BY <1>6, <1>8, <3>1, <3>2, <3>3, DeadIsNone
    <3> QED  BY <2>1, <3>4
  <2>4. s - off \in 1 .. Len(bytes) - PacketLen + 1 /\ off + (s - off) = s  BY <1>4, <1>6, <1>7, <2>1, <2>3
  <2>5. IsPacket(PacketAt(bytes, s - off))  BY <1>10, <2>1, <2>4
  <2> QED  BY <2>1, <2>4, <2>5 DEF Packets
<1>14. was \in Seq(Reading) /\ Told(old, 1, was) /\ read \in Seq(Reading) /\ Told(bytes, 1, read)
  BY <1>1 DEF Good, bytes, read
<1> DEFINE n == Len(was)
           m == Len(read)
           all == was \o read
<1>15. /\ n \in Nat /\ m \in Nat /\ all \in Seq(Reading) /\ Len(all) = n + m
       /\ \A k \in 1 .. n + m : all[k] = IF k <= n THEN was[k] ELSE read[k - n]
  BY <1>14, ConcatProperties
<1> HIDE DEF all
<1>16. Told(new, 1, all)
  <2>1. PICK w0 \in [1 .. n -> Packets(old, 1)] :
          /\ \A s \in Packets(old, 1) : \E k \in 1 .. n : w0[k] = s
          /\ \A j, k \in 1 .. n : j < k => w0[j] < w0[k]
          /\ \A k \in 1 .. n : was[k] = ReadingOf(PacketAt(old, w0[k]))
    BY <1>14 DEF Told
  <2>2. PICK w1 \in [1 .. m -> Packets(bytes, 1)] :
          /\ \A s \in Packets(bytes, 1) : \E k \in 1 .. m : w1[k] = s
          /\ \A j, k \in 1 .. m : j < k => w1[j] < w1[k]
          /\ \A k \in 1 .. m : read[k] = ReadingOf(PacketAt(bytes, w1[k]))
    BY <1>14 DEF Told
  <2> HIDE DEF n, m
  <2> DEFINE where == [k \in 1 .. n + m |-> IF k <= n THEN w0[k] ELSE off + w1[k - n]]
  <2>3. \A k \in 1 .. n + m : IF k <= n THEN k \in 1 .. n ELSE k - n \in 1 .. m  BY <1>15
  <2>4. \A k \in 1 .. n : w0[k] \in Packets(old, 1) /\ w0[k] \in 1 .. off  BY <1>11, <2>1
  <2>5. \A k \in 1 .. m : w1[k] \in Packets(bytes, 1) /\ w1[k] \in 1 .. Len(bytes) /\ off + w1[k] \in Packets(new, 1)
    <3> SUFFICES ASSUME NEW k \in 1 .. m
                 PROVE  w1[k] \in Packets(bytes, 1) /\ w1[k] \in 1 .. Len(bytes) /\ off + w1[k] \in Packets(new, 1)
      OBVIOUS
    <3>1. w1[k] \in Packets(bytes, 1)  BY <2>2
    <3>2. w1[k] \in 1 .. Len(bytes) - PacketLen + 1  BY <3>1 DEF Packets
    <3> QED  BY <1>4, <1>7, <1>12, <3>1, <3>2
  <2>6. where \in [1 .. n + m -> Packets(new, 1)]
    <3>1. \A k \in 1 .. n + m : (IF k <= n THEN w0[k] ELSE off + w1[k - n]) \in Packets(new, 1)
      BY <1>11, <2>3, <2>4, <2>5
    <3> QED  BY <3>1
  <2>7. \A s \in Packets(new, 1) : \E k \in 1 .. n + m : where[k] = s
    <3> SUFFICES ASSUME NEW s \in Packets(new, 1) PROVE \E k \in 1 .. n + m : where[k] = s  OBVIOUS
    <3>1. CASE s \in Packets(old, 1)
      <4>1. PICK k \in 1 .. n : w0[k] = s  BY <2>1, <3>1
      <4>2. k \in 1 .. n + m /\ k <= n  BY <1>15
      <4>3. where[k] = s  BY <4>1, <4>2
      <4> HIDE DEF where
      <4> QED  BY <4>2, <4>3
    <3>2. CASE s \notin Packets(old, 1)
      <4>1. s - off \in Packets(bytes, 1) /\ s \in Nat  BY <1>13, <3>2
      <4>2. PICK k \in 1 .. m : w1[k] = s - off  BY <2>2, <4>1
      <4>3. n + k \in 1 .. n + m /\ ~(n + k <= n) /\ (n + k) - n = k /\ off + (s - off) = s  BY <1>15, <4>1
      <4>4. where[n + k] = s  BY <4>2, <4>3
      <4> HIDE DEF where
      <4> QED  BY <4>3, <4>4
    <3> QED  BY <3>1, <3>2
  <2>8. \A j, k \in 1 .. n + m : j < k => where[j] < where[k]
    <3> SUFFICES ASSUME NEW j \in 1 .. n + m, NEW k \in 1 .. n + m, j < k PROVE where[j] < where[k]
      OBVIOUS
    <3>0. j \in Nat /\ k \in Nat  BY <1>15
    <3>1. CASE k <= n
      <4>1. j \in 1 .. n /\ k \in 1 .. n /\ j <= n  BY <1>15, <3>0, <3>1
      <4>2. where[j] = w0[j] /\ where[k] = w0[k]  BY <3>1, <4>1
      <4> QED  BY <2>1, <4>1, <4>2
    <3>2. CASE ~(k <= n) /\ j <= n
      <4>1. j \in 1 .. n /\ k - n \in 1 .. m  BY <2>3, <3>2
      <4>2. where[j] = w0[j] /\ where[k] = off + w1[k - n]  BY <3>2
      <4>3. w0[j] \in 1 .. off /\ w1[k - n] \in 1 .. Len(bytes)  BY <2>4, <2>5, <4>1
      <4> HIDE DEF where
      <4> QED  BY <1>7, <4>2, <4>3
    <3>3. CASE ~(k <= n) /\ ~(j <= n)
      <4>1. j - n \in 1 .. m /\ k - n \in 1 .. m /\ j - n < k - n  BY <1>15, <2>3, <3>0, <3>3
      <4>2. where[j] = off + w1[j - n] /\ where[k] = off + w1[k - n]  BY <3>3
      <4>3. w1[j - n] < w1[k - n]  BY <2>2, <4>1
      <4>4. w1[j - n] \in 1 .. Len(bytes) /\ w1[k - n] \in 1 .. Len(bytes)  BY <2>5, <4>1
      <4> HIDE DEF where
      <4> QED  BY <1>7, <4>2, <4>3, <4>4
    <3> QED  BY <3>1, <3>2, <3>3
  <2>9. \A k \in 1 .. n + m : all[k] = ReadingOf(PacketAt(new, where[k]))
    <3> SUFFICES ASSUME NEW k \in 1 .. n + m PROVE all[k] = ReadingOf(PacketAt(new, where[k]))  OBVIOUS
    <3>1. CASE k <= n
      <4>1. k \in 1 .. n /\ where[k] = w0[k] /\ all[k] = was[k]  BY <1>15, <2>3, <3>1
      <4>2. w0[k] \in 1 .. Len(old) - PacketLen + 1  BY <2>4, <4>1 DEF Packets
      <4>3. PacketAt(old, w0[k]) = PacketAt(new, w0[k])  BY <1>9, <4>2
      <4> HIDE DEF where
      <4> QED  BY <2>1, <4>1, <4>3
    <3>2. CASE ~(k <= n)
      <4>1. k - n \in 1 .. m /\ where[k] = off + w1[k - n] /\ all[k] = read[k - n]  BY <1>15, <2>3, <3>2
      <4>2. w1[k - n] \in 1 .. Len(bytes) - PacketLen + 1  BY <2>5, <4>1 DEF Packets
      <4>3. PacketAt(bytes, w1[k - n]) = PacketAt(new, off + w1[k - n])  BY <1>10, <4>2
      <4> HIDE DEF where
      <4> QED  BY <2>2, <4>1, <4>3
    <3> QED  BY <3>1, <3>2
  <2> HIDE DEF where
  <2> QED  BY <1>15, <2>6, <2>7, <2>8, <2>9 DEF Told
<1>17. PICK r \in 1 .. Len(bytes) + 1 : fed.rest = From(bytes, r) /\ RestAt(bytes, 1, r)  BY DEF Good, bytes
<1>18. off + r \in 1 .. Len(new) + 1 /\ Len(new) + 1 - (off + r) = Len(bytes) + 1 - r
  BY <1>4, <1>6, <1>7
<1>19. From(bytes, r) = From(new, off + r)
  <2>1. r \in Int /\ Len(bytes) \in Int /\ off + Len(bytes) = Len(new)  BY <1>4, <1>6, <1>7
  <2>2. \A k \in r .. Len(bytes) : k \in 1 .. Len(bytes) /\ off + k \in 1 .. Len(new)  BY <1>4, <1>6, <1>7
  <2>3. \A k \in r .. Len(bytes) : k \in 1 .. Len(bytes) /\ off + k \in 1 .. Len(new) /\ bytes[k] = new[off + k]
    BY <1>7, <2>2
  <2>4. SubSeq(bytes, r, Len(bytes)) = SubSeq(new, off + r, off + Len(bytes))
    <3>1. bytes \in Seq(Byte) /\ new \in Seq(Byte) /\ off \in Int  BY <1>4, <1>6, <1>7
    <3>2. PICK b \in Seq(Byte) : b = bytes  BY <3>1
    <3>3. PICK d \in Seq(Byte) : d = new  BY <3>1
    <3>4. PICK o \in Int : o = off  BY <3>1
    <3>5. PICK l \in Int : l = Len(bytes)  BY <2>1
    <3>6. \A k \in r .. l : k \in 1 .. Len(b) /\ o + k \in 1 .. Len(d) /\ b[k] = d[o + k]
      BY <2>3, <3>2, <3>3, <3>4, <3>5
    <3>7. SubSeq(b, r, l) = SubSeq(d, o + r, o + l)  BY <2>1, <3>6, SamePart
    <3> QED  BY <3>2, <3>3, <3>4, <3>5, <3>7
  <2> QED  BY <2>1, <2>4 DEF From
<1>20. RestAt(new, 1, off + r)
  <2>1. Len(new) + 1 - (off + r) <= IF proto = "vesar" THEN PacketLen - 1 ELSE CasLimit
    BY <1>17, <1>18 DEF RestAt
  <2>2. ASSUME NEW s \in 1 .. (off + r) - 1, Late(new, s) PROVE DeadStart(new, s)
    <3>0. s \in Nat /\ r \in Nat  BY <1>4, <1>7
    <3>1. CASE s <= off
      <4>1. s \in 1 .. r0 - 1 /\ s \in 1 .. Len(old) /\ 0 + s = s  BY <1>4, <3>0, <3>1
      <4>2. Late(old, s)  BY <1>4, <1>6, <2>2, <3>0 DEF Late
      <4>3. DeadStart(old, s)  BY <1>2, <4>1, <4>2 DEF RestAt
      <4>4. \A k \in 1 .. Len(old) : 0 + k \in 1 .. Len(new) /\ old[k] = new[0 + k]
        <5>1. \A k \in 1 .. Len(old) : 0 + k = k  BY <1>4
        <5> QED  BY <1>8, <5>1
      <4>5. DeadStart(new, 0 + s)  BY <1>6, <4>1, <4>3, <4>4, DeadStays
      <4> QED  BY <4>1, <4>5
    <3>2. CASE ~(s <= off)
      <4>1. s - off \in 1 .. r - 1 /\ s - off \in 1 .. Len(bytes) /\ off + (s - off) = s
        BY <1>4, <1>7, <3>0, <3>2
      <4>2. Late(bytes, s - off)  BY <1>4, <1>6, <1>7, <2>2, <3>0 DEF Late
      <4>3. DeadStart(bytes, s - off)  BY <1>17, <4>1, <4>2 DEF RestAt
      <4>4. \A k \in 1 .. Len(bytes) : off + k \in 1 .. Len(new) /\ bytes[k] = new[off + k]
        BY <1>4, <1>6, <1>7
      <4>5. DeadStart(new, off + (s - off))  BY <1>6, <1>7, <4>1, <4>3, <4>4, DeadStays
      <4> QED  BY <4>1, <4>5
    <3> QED  BY <3>1, <3>2
  <2>3. ASSUME NEW s \in Packets(new, 1) PROVE s < off + r
    <3>1. CASE s \in Packets(old, 1)
      <4>1. s \in 1 .. off  BY <1>11, <3>1
      <4> QED  BY <1>7, <4>1
    <3>2. CASE s \notin Packets(old, 1)
      <4>1. s - off \in Packets(bytes, 1) /\ s \in Nat  BY <1>13, <3>2
      <4>2. s - off < r  BY <1>17, <4>1 DEF RestAt
      <4> QED  BY <1>7, <4>1, <4>2
    <3> QED  BY <3>1, <3>2
  <2> QED  BY <2>1, <2>2, <2>3 DEF RestAt
<1>21. Good(new, 1, Fed(fed.rest, all))
  <2>1. Fed(fed.rest, all).rest = fed.rest /\ Fed(fed.rest, all).read = all  BY DEF Fed
  <2> QED  BY <1>15, <1>16, <1>17, <1>18, <1>19, <1>20, <2>1 DEF Good
<1> QED  BY <1>5, <1>21 DEF new, all, read
-----------------------------------------------------------------------------
(***************************************************************************)
(* The samples of the tracker are the latest of the readings.              *)
(***************************************************************************)
Old == Window + SilenceTime + 1
Dated == [packet : Reading, age : Nat]
Sample == [weight : Raw \cup {0}, age : Nat]

LEMMA Spans ==
  /\ Window \in Nat /\ SilenceTime \in Nat /\ Slack \in Nat /\ Slack < Window /\ Window < SilenceTime
  /\ Old \in Nat /\ Window + 1 \in Nat /\ SilenceTime + 1 \in Nat
BY WindowAssumption DEF Old

LEMMA CappedIs ==
  ASSUME NEW n \in Nat, NEW b \in Nat
  PROVE  Capped(n, b) \in Nat /\ Capped(n, b) <= b /\ Capped(n, b) <= n /\ (Capped(n, b) = n \/ Capped(n, b) = b)
BY DEF Capped

LEMMA OlderReadings ==
  ASSUME NEW seq \in Seq(Dated), NEW b \in Nat
  PROVE  /\ Older(seq, b) \in Seq(Dated) /\ Len(Older(seq, b)) = Len(seq)
         /\ \A i \in 1 .. Len(seq) : /\ Older(seq, b)[i].packet = seq[i].packet
                                     /\ Older(seq, b)[i].age = Capped(seq[i].age + 1, b)
<1>1. DOMAIN seq = 1 .. Len(seq) /\ Len(seq) \in Nat  OBVIOUS
<1>2. \A i \in 1 .. Len(seq) : seq[i] \in Dated  OBVIOUS
<1> DEFINE o(i) == [seq[i] EXCEPT !.age = Capped(@ + 1, b)]
<1>3. ASSUME NEW i \in 1 .. Len(seq)
      PROVE  o(i) \in Dated /\ o(i).packet = seq[i].packet /\ o(i).age = Capped(seq[i].age + 1, b)
  <2>1. seq[i] \in Dated /\ seq[i].age \in Nat  BY <1>2 DEF Dated
  <2>2. Capped(seq[i].age + 1, b) \in Nat  BY <2>1 DEF Capped
  <2> QED  BY <2>1, <2>2 DEF Dated
<1>4. Older(seq, b) = [i \in 1 .. Len(seq) |-> o(i)]  BY <1>1 DEF Older
<1> HIDE DEF o
<1>5. Older(seq, b) \in [1 .. Len(seq) -> Dated]  BY <1>3, <1>4
<1>6. Older(seq, b) \in Seq(Dated) /\ Len(Older(seq, b)) = Len(seq)  BY <1>1, <1>5, SeqDef
<1> QED  BY <1>3, <1>4, <1>6

LEMMA OlderSamples ==
  ASSUME NEW seq \in Seq(Sample), NEW b \in Nat
  PROVE  /\ Older(seq, b) \in Seq(Sample) /\ Len(Older(seq, b)) = Len(seq)
         /\ \A i \in 1 .. Len(seq) : /\ Older(seq, b)[i].weight = seq[i].weight
                                     /\ Older(seq, b)[i].age = Capped(seq[i].age + 1, b)
<1>1. DOMAIN seq = 1 .. Len(seq) /\ Len(seq) \in Nat  OBVIOUS
<1>2. \A i \in 1 .. Len(seq) : seq[i] \in Sample  OBVIOUS
<1> DEFINE o(i) == [seq[i] EXCEPT !.age = Capped(@ + 1, b)]
<1>3. ASSUME NEW i \in 1 .. Len(seq)
      PROVE  o(i) \in Sample /\ o(i).weight = seq[i].weight /\ o(i).age = Capped(seq[i].age + 1, b)
  <2>1. seq[i] \in Sample /\ seq[i].age \in Nat  BY <1>2 DEF Sample
  <2>2. Capped(seq[i].age + 1, b) \in Nat  BY <2>1 DEF Capped
  <2> QED  BY <2>1, <2>2 DEF Sample
<1>4. Older(seq, b) = [i \in 1 .. Len(seq) |-> o(i)]  BY <1>1 DEF Older
<1> HIDE DEF o
<1>5. Older(seq, b) \in [1 .. Len(seq) -> Sample]  BY <1>3, <1>4
<1>6. Older(seq, b) \in Seq(Sample) /\ Len(Older(seq, b)) = Len(seq)  BY <1>1, <1>5, SeqDef
<1> QED  BY <1>3, <1>4, <1>6

SampleOf(window, past) ==
  /\ Len(window) <= Len(past)
  /\ \A i \in 1 .. Len(window) :
       /\ window[i].weight = past[Len(past) - Len(window) + i].packet.weight
       /\ window[i].age = Capped(past[Len(past) - Len(window) + i].age, Window + 1)
  /\ \A k \in 1 .. Len(past) - Len(window) : past[k].age > Window

(* Time passes for both. *)
LEMMA SamplesAge ==
  ASSUME NEW window \in Seq(Sample), NEW past \in Seq(Dated), SampleOf(window, past)
  PROVE  SampleOf(Older(window, Window + 1), Older(past, Old))
<1> DEFINE w == Older(window, Window + 1)
           p == Older(past, Old)
           n == Len(window)
           m == Len(past)
<1>1. /\ Len(w) = n /\ Len(p) = m /\ n \in Nat /\ m \in Nat /\ n <= m
      /\ \A i \in 1 .. n : w[i].weight = window[i].weight /\ w[i].age = Capped(window[i].age + 1, Window + 1)
      /\ \A k \in 1 .. m : p[k].packet = past[k].packet /\ p[k].age = Capped(past[k].age + 1, Old)
  BY Spans, OlderSamples, OlderReadings DEF SampleOf
<1>2. \A k \in 1 .. m : past[k].age \in Nat
  <2>1. \A k \in 1 .. m : past[k] \in Dated  OBVIOUS
  <2> QED  BY <2>1 DEF Dated
<1> HIDE DEF w, p
<1>3. \A a \in Nat : Capped(Capped(a, Window + 1) + 1, Window + 1) = Capped(Capped(a + 1, Old), Window + 1)
  BY Spans DEF Capped, Old
<1>4. \A a \in Nat : a > Window => Capped(a + 1, Old) > Window  BY Spans DEF Capped, Old
<1>5. \A i \in 1 .. n : w[i].weight = p[m - n + i].packet.weight /\ w[i].age = Capped(p[m - n + i].age, Window + 1)
  <2> SUFFICES ASSUME NEW i \in 1 .. n
               PROVE  w[i].weight = p[m - n + i].packet.weight /\ w[i].age = Capped(p[m - n + i].age, Window + 1)
    OBVIOUS
  <2>1. m - n + i \in 1 .. m  BY <1>1
  <2>2. window[i].weight = past[m - n + i].packet.weight /\ window[i].age = Capped(past[m - n + i].age, Window + 1)
    BY DEF SampleOf
  <2> QED  BY <1>1, <1>2, <1>3, <2>1, <2>2
<1>6. \A k \in 1 .. m - n : p[k].age > Window
  <2> SUFFICES ASSUME NEW k \in 1 .. m - n PROVE p[k].age > Window  OBVIOUS
  <2>1. k \in 1 .. m  BY <1>1
  <2>2. past[k].age > Window  BY DEF SampleOf
  <2> QED  BY <1>1, <1>2, <1>4, <2>1, <2>2
<1>7. SampleOf(w, p)  BY <1>1, <1>5, <1>6 DEF SampleOf
<1> QED  BY <1>7 DEF w, p

(* What leaves the window on the left is too old. *)
LEMMA SamplesKept ==
  ASSUME NEW window \in Seq(Sample), NEW past \in Seq(Dated), SampleOf(window, past)
  PROVE  /\ Kept(window) \in Seq(Sample) /\ SampleOf(Kept(window), past)
         /\ Kept(window) # <<>> => Kept(window)[1].age <= Window
<1> DEFINE n == Len(window)
           m == Len(past)
           young == {i \in 1 .. n : window[i].age <= Window}
           j == Min(young)
<1>0. DOMAIN window = 1 .. n /\ n \in Nat /\ m \in Nat /\ n <= m  BY DEF SampleOf
<1>1. \A i \in 1 .. n : window[i] \in Sample /\ window[i].age \in Nat
  <2>1. \A i \in 1 .. n : window[i] \in Sample  OBVIOUS
  <2> QED  BY <2>1 DEF Sample
<1>2. \A k \in 1 .. m : past[k].age \in Nat
  <2>1. \A k \in 1 .. m : past[k] \in Dated  OBVIOUS
  <2> QED  BY <2>1 DEF Dated
<1>3. \A i \in 1 .. n : i \notin young => past[m - n + i].age > Window
  <2> SUFFICES ASSUME NEW i \in 1 .. n, i \notin young PROVE past[m - n + i].age > Window  OBVIOUS
  <2>1. m - n + i \in 1 .. m /\ ~(window[i].age <= Window)  BY <1>0
  <2>2. window[i].age = Capped(past[m - n + i].age, Window + 1)  BY DEF SampleOf
  <2> QED  BY <1>1, <1>2, <2>1, <2>2, Spans DEF Capped
<1>4. \A k \in 1 .. m - n : past[k].age > Window  BY DEF SampleOf
<1>5. Kept(window) = IF young = {} THEN <<>> ELSE From(window, j)  BY <1>0 DEF Kept
<1>6. CASE young = {}
  <2>1. \A k \in 1 .. m : past[k].age > Window
    <3> SUFFICES ASSUME NEW k \in 1 .. m PROVE past[k].age > Window  OBVIOUS
    <3>1. CASE k <= m - n
      <4>1. k \in 1 .. m - n  BY <1>0, <3>1
      <4> QED  BY <1>4, <4>1
    <3>2. CASE ~(k <= m - n)
      <4>1. k - (m - n) \in 1 .. n /\ m - n + (k - (m - n)) = k  BY <1>0, <3>2
      <4> QED  BY <1>3, <1>6, <4>1
    <3> QED  BY <3>1, <3>2
  <2>2. Kept(window) = <<>>  BY <1>5, <1>6
  <2>3. <<>> \in Seq(Sample) /\ Len(<<>>) = 0  OBVIOUS
  <2>4. m - 0 = m /\ 0 <= m /\ 1 .. 0 = {}  BY <1>0
  <2> HIDE DEF m
  <2>5. SampleOf(<<>>, past)  BY <2>1, <2>3, <2>4 DEF SampleOf, m
  <2> QED  BY <2>2, <2>3, <2>5
<1>7. CASE young # {}
  <2>1. young \in SUBSET (1 .. n)  OBVIOUS
  <2> HIDE DEF young
  <2>2. j \in young /\ j \in 1 .. n /\ \A k \in 1 .. j - 1 : k \notin young  BY <1>0, <1>7, <2>1, MinOf
  <2>3. PICK y \in 1 .. n : y = j  BY <2>2
  <2>4. y \in young /\ window[y].age <= Window /\ \A k \in 1 .. y - 1 : k \notin young
    BY <2>2, <2>3 DEF young
  <2> DEFINE w == From(window, y)
             l == n - y + 1
  <2>5. Kept(window) = w  BY <1>5, <1>7, <2>3
  <2>6. w \in Seq(Sample) /\ Len(w) = l /\ \A i \in 1 .. l : w[i] = window[y + i - 1]
    <3>1. \A i \in y .. n : window[i] \in Sample
      <4>1. \A i \in y .. n : i \in 1 .. n  BY <1>0
      <4> QED  BY <1>1, <4>1
    <3>2. y \in Int /\ n \in Int /\ y <= n  BY <1>0
    <3> QED  BY <3>1, <3>2, SubSeqProperties DEF From
  <2> HIDE DEF w
  <2>7. l \in 1 .. n /\ l <= m  BY <1>0
  <2>8. \A i \in 1 .. l : /\ w[i].weight = past[m - l + i].packet.weight
                          /\ w[i].age = Capped(past[m - l + i].age, Window + 1)
    <3> SUFFICES ASSUME NEW i \in 1 .. l
                 PROVE  /\ w[i].weight = past[m - l + i].packet.weight
                        /\ w[i].age = Capped(past[m - l + i].age, Window + 1)
      OBVIOUS
    <3>1. y + i - 1 \in 1 .. n /\ m - n + (y + i - 1) = m - l + i  BY <1>0
    <3>2. /\ window[y + i - 1].weight = past[m - n + (y + i - 1)].packet.weight
          /\ window[y + i - 1].age = Capped(past[m - n + (y + i - 1)].age, Window + 1)
      BY <3>1 DEF SampleOf
    <3> QED  BY <2>6, <3>1, <3>2
  <2>9. \A k \in 1 .. m - l : past[k].age > Window
    <3> SUFFICES ASSUME NEW k \in 1 .. m - l PROVE past[k].age > Window  OBVIOUS
    <3>1. CASE k <= m - n
      <4>1. k \in 1 .. m - n  BY <1>0, <3>1
      <4> QED  BY <1>4, <4>1
    <3>2. CASE ~(k <= m - n)
      <4>1. k - (m - n) \in 1 .. y - 1 /\ k - (m - n) \in 1 .. n /\ m - n + (k - (m - n)) = k  BY <1>0, <3>2
      <4> QED  BY <1>3, <2>4, <4>1
    <3> QED  BY <3>1, <3>2
  <2>10. SampleOf(w, past)  BY <2>6, <2>7, <2>8, <2>9 DEF SampleOf
  <2>11. 1 \in 1 .. l /\ y + 1 - 1 = y  BY <1>0, <2>7
  <2>12. w[1].age <= Window  BY <2>4, <2>6, <2>11
  <2> QED  BY <2>5, <2>6, <2>10, <2>12
<1> QED  BY <1>6, <1>7

(* What has just been read joins both. *)
NewSamples(read) == [i \in DOMAIN read |-> [weight |-> read[i].weight, age |-> 0]]
NewReadings(read) == [i \in DOMAIN read |-> [packet |-> read[i], age |-> 0]]

LEMMA NewTypes ==
  ASSUME NEW read \in Seq(Reading)
  PROVE  /\ NewSamples(read) \in Seq(Sample) /\ Len(NewSamples(read)) = Len(read)
         /\ NewReadings(read) \in Seq(Dated) /\ Len(NewReadings(read)) = Len(read)
         /\ \A i \in 1 .. Len(read) : /\ NewSamples(read)[i].weight = read[i].weight
                                      /\ NewSamples(read)[i].age = 0
                                      /\ NewReadings(read)[i].packet = read[i]
                                      /\ NewReadings(read)[i].age = 0
<1>1. DOMAIN read = 1 .. Len(read) /\ Len(read) \in Nat  OBVIOUS
<1>2. \A i \in 1 .. Len(read) : read[i] \in Reading /\ read[i].weight \in Raw \cup {0}
  <2>1. \A i \in 1 .. Len(read) : read[i] \in Reading  OBVIOUS
  <2> QED  BY <2>1 DEF Reading
<1>3. NewSamples(read) \in [1 .. Len(read) -> Sample]  BY <1>1, <1>2 DEF NewSamples, Sample
<1>4. NewReadings(read) \in [1 .. Len(read) -> Dated]  BY <1>1, <1>2 DEF NewReadings, Dated
<1>5. NewSamples(read) \in Seq(Sample) /\ Len(NewSamples(read)) = Len(read)  BY <1>1, <1>3, SeqDef
<1>6. NewReadings(read) \in Seq(Dated) /\ Len(NewReadings(read)) = Len(read)  BY <1>1, <1>4, SeqDef
<1> QED  BY <1>1, <1>5, <1>6 DEF NewSamples, NewReadings

LEMMA SamplesJoin ==
  ASSUME NEW window \in Seq(Sample), NEW past \in Seq(Dated), SampleOf(window, past), NEW read \in Seq(Reading)
  PROVE  SampleOf(window \o NewSamples(read), past \o NewReadings(read))
<1> DEFINE n == Len(window)
           m == Len(past)
           r == Len(read)
           w == window \o NewSamples(read)
           p == past \o NewReadings(read)
<1>1. n \in Nat /\ m \in Nat /\ r \in Nat /\ n <= m  BY DEF SampleOf
<1>2. /\ Len(w) = n + r
      /\ \A i \in 1 .. n + r : w[i] = IF i <= n THEN window[i] ELSE NewSamples(read)[i - n]
  <2>1. PICK more \in Seq(Sample) : more = NewSamples(read) /\ Len(more) = r  BY NewTypes
  <2>2. /\ Len(window \o more) = Len(window) + Len(more)
        /\ \A i \in 1 .. Len(window) + Len(more) :
             (window \o more)[i] = IF i <= Len(window) THEN window[i] ELSE more[i - Len(window)]
    BY ConcatProperties
  <2> QED  BY <2>1, <2>2
<1>3. /\ Len(p) = m + r
      /\ \A i \in 1 .. m + r : p[i] = IF i <= m THEN past[i] ELSE NewReadings(read)[i - m]
  <2>1. PICK more \in Seq(Dated) : more = NewReadings(read) /\ Len(more) = r  BY NewTypes
  <2>2. /\ Len(past \o more) = Len(past) + Len(more)
        /\ \A i \in 1 .. Len(past) + Len(more) :
             (past \o more)[i] = IF i <= Len(past) THEN past[i] ELSE more[i - Len(past)]
    BY ConcatProperties
  <2> QED  BY <2>1, <2>2
<1> HIDE DEF w, p
<1>4. (m + r) - (n + r) = m - n  BY <1>1
<1>5. Capped(0, Window + 1) = 0  BY Spans DEF Capped
<1>6. ASSUME NEW i \in 1 .. n + r
      PROVE  w[i].weight = p[m - n + i].packet.weight /\ w[i].age = Capped(p[m - n + i].age, Window + 1)
  <2>1. m - n + i \in 1 .. m + r /\ (i <= n <=> m - n + i <= m)  BY <1>1
  <2>2. CASE i <= n
    <3>1. i \in 1 .. n /\ m - n + i <= m  BY <1>1, <2>1, <2>2
    <3>2. w[i] = window[i]  BY <1>2, <2>2
    <3>3. p[m - n + i] = past[m - n + i]  BY <1>3, <2>1, <3>1
    <3>4. window[i].weight = past[m - n + i].packet.weight /\ window[i].age = Capped(past[m - n + i].age, Window + 1)
      BY <3>1 DEF SampleOf
    <3> QED  BY <3>2, <3>3, <3>4
  <2>3. CASE ~(i <= n)
    <3>1. i - n \in 1 .. r /\ (m - n + i) - m = i - n  BY <1>1, <2>3
    <3>2. w[i] = NewSamples(read)[i - n] /\ p[m - n + i] = NewReadings(read)[i - n]
      BY <1>2, <1>3, <2>1, <2>3, <3>1
    <3> QED  BY <1>5, <3>1, <3>2, NewTypes
  <2> QED  BY <2>2, <2>3
<1>7. ASSUME NEW k \in 1 .. m - n PROVE p[k].age > Window
  <2>1. k \in 1 .. m + r /\ k <= m  BY <1>1
  <2>2. p[k] = past[k]  BY <1>3, <2>1
  <2> QED  BY <2>2 DEF SampleOf
<1>8. n + r <= m + r  BY <1>1
<1>9. SampleOf(w, p)  BY <1>2, <1>3, <1>4, <1>6, <1>7, <1>8 DEF SampleOf
<1> QED  BY <1>9 DEF w, p

(* Whole discretes. *)
LEMMA Whole ==
  ASSUME NEW D \in Int, D > 0, NEW q \in Int
  PROVE  (q * D) % D = 0
<1>1. PICK x \in Int : x = q * D  OBVIOUS
<1>2. PICK k \in Int : k = x \div D  OBVIOUS
<1>3. PICK t \in Int : t = x % D  OBVIOUS
<1>4. x = D * k + t /\ t >= 0 /\ t < D  BY <1>2, <1>3
<1>5. PICK e \in Int : e = q - k  OBVIOUS
<1>6. D * e = t  BY <1>1, <1>4, <1>5
<1>7. ~(e >= 1)
  <2> SUFFICES ASSUME e >= 1 PROVE FALSE  OBVIOUS
  <2>1. D * e >= D  OBVIOUS
  <2> QED  BY <1>4, <1>6, <2>1
<1>8. ~(e <= -1)
  <2> SUFFICES ASSUME e <= -1 PROVE FALSE  OBVIOUS
  <2>1. D * e <= -D  OBVIOUS
  <2> QED  BY <1>4, <1>6, <2>1
<1>9. e = 0  BY <1>7, <1>8
<1>10. t = 0  BY <1>6, <1>9
<1> QED  BY <1>1, <1>3, <1>10

LEMMA Below ==
  ASSUME NEW D \in Int, D > 0, NEW x \in Nat
  PROVE  /\ x \div D \in Int /\ (x \div D) * D \in Nat /\ (x \div D) * D <= x
<1>1. PICK k \in Int : k = x \div D  OBVIOUS
<1>2. PICK t \in Int : t = x % D  OBVIOUS
<1>3. x = D * k + t /\ t >= 0 /\ t < D  BY <1>1, <1>2
<1>4. ~(k <= -1)
  <2> SUFFICES ASSUME k <= -1 PROVE FALSE  OBVIOUS
  <2>1. D * k <= -D  OBVIOUS
  <2> QED  BY <1>3, <2>1
<1>5. D * k >= 0  BY <1>4
<1>6. k * D = D * k  OBVIOUS
<1>7. k * D \in Nat /\ k * D <= x  BY <1>3, <1>5, <1>6
<1> QED  BY <1>1, <1>7

(* quantize goes to the discrete towards zero. *)
LEMMA QuantizeIs ==
  ASSUME NEW w \in Int
  PROVE  /\ Quantize(w) \in Int /\ Quantize(w) % Discrete = 0
         /\ IF w < 0 THEN w <= Quantize(w) /\ Quantize(w) <= 0 ELSE 0 <= Quantize(w) /\ Quantize(w) <= w
<1>0. Discrete \in Int /\ Discrete > 0  BY RawRange
<1>1. CASE w < 0
  <2>1. -w \in Nat  BY <1>1
  <2>2. PICK k \in Int : k = (-w) \div Discrete  BY <1>0, <2>1, Below
  <2>3. k * Discrete \in Nat /\ k * Discrete <= -w  BY <1>0, <2>1, <2>2, Below
  <2>4. Quantize(w) = -(k * Discrete)  BY <1>1, <2>2 DEF Quantize
  <2>5. -(k * Discrete) = (-k) * Discrete /\ -k \in Int  BY <1>0
  <2>6. Quantize(w) % Discrete = 0
    <3>1. ((-k) * Discrete) % Discrete = 0  BY <1>0, <2>5, Whole
    <3> QED  BY <2>4, <2>5, <3>1
  <2> QED  BY <1>1, <2>3, <2>4, <2>6
<1>2. CASE ~(w < 0)
  <2>1. w \in Nat  BY <1>2
  <2>2. PICK k \in Int : k = w \div Discrete  BY <1>0, <2>1, Below
  <2>3. k * Discrete \in Nat /\ k * Discrete <= w  BY <1>0, <2>1, <2>2, Below
  <2>4. Quantize(w) = k * Discrete  BY <1>2, <2>2 DEF Quantize
  <2>5. Quantize(w) % Discrete = 0
    <3>1. (k * Discrete) % Discrete = 0  BY <1>0, <2>2, Whole
    <3> QED  BY <2>4, <3>1
  <2> QED  BY <1>2, <2>3, <2>4, <2>5
<1> QED  BY <1>1, <1>2
-----------------------------------------------------------------------------
(***************************************************************************)
(* The invariant of the stream.                                            *)
(***************************************************************************)
PacketsRead == [k \in 1 .. Len(readings) |-> readings[k].packet]
LastAge == readings[Len(readings)].age

Displays == [status : {"ok", "no_data", "port_error"}, weight : Int, stable : BOOLEAN, over : BOOLEAN]

StreamTypes ==
  /\ proto \in {"vesar", "cas22"} /\ reading \in BOOLEAN
  /\ line \in Seq(Byte) /\ got \in Seq(Byte)
  /\ samples \in Seq(Sample) /\ readings \in Seq(Dated)
  /\ quiet \in 0 .. SilenceTime + 1
  /\ display \in Displays
  /\ packets \in 0 .. MaxPackets /\ noise \in 0 .. MaxNoise /\ opens \in 0 .. MaxOpens

(* The buffer is what may still become a packet of the bytes read, and the *)
(* packets are those that stand in them.                                   *)
AllAssembled == Good(got, 1, Fed(buffer, PacketsRead))

(* Readings grow old in their order, the last of them with the silence.    *)
InOrder ==
  /\ \A j, k \in 1 .. Len(readings) : j <= k => readings[j].age >= readings[k].age
  /\ readings # <<>> => quiet = Capped(LastAge, SilenceTime + 1)

Sampled == IF proto = "vesar" THEN SampleOf(samples, readings) ELSE samples = <<>>

(* What is shown as data is of the open port, and only that is stable.     *)
Shows == display.status # "ok" => ~display.stable
Steady ==
  /\ \A j, k \in DOMAIN readings :
       readings[j].age - LastAge <= Window /\ readings[k].age - LastAge <= Window =>
         readings[j].packet.weight - readings[k].packet.weight <= Amplitude
  /\ \E k \in DOMAIN readings :
       readings[k].age - LastAge <= Window /\ readings[k].age - LastAge >= Window - Slack
StableIsSteady == proto = "vesar" /\ display.stable => Steady

StreamIInv ==
  StreamTypes /\ AllAssembled /\ InOrder /\ Sampled /\ Shows /\ StableIsSteady /\ ShownIsFresh

LEMMA RunBounds == {MaxPackets, MaxNoise, MaxOpens} \subseteq Nat
BY BoundAssumption

LEMMA NothingYet == Good(<<>>, 1, Fed(<<>>, <<>>))
<1>1. <<>> \in Seq(Byte) /\ Len(<<>>) = 0 /\ PacketLen = 4  BY LimitRange
<1>2. Packets(<<>>, 1) = {}  BY <1>1 DEF Packets
<1>3. From(<<>>, 1) = <<>>
  <2>1. 1 \in Int /\ 0 \in Int /\ 0 < 1  OBVIOUS
  <2> QED  BY <1>1, <2>1, SubSeqEmpty DEF From
<1>4. 1 \in 1 .. Len(<<>>) + 1  BY <1>1
<1>5. RestAt(<<>>, 1, 1)
  <2>1. Len(<<>>) + 1 - 1 <= PacketLen - 1 /\ Len(<<>>) + 1 - 1 <= CasLimit /\ 1 .. 1 - 1 = {}
    BY <1>1, LimitRange
  <2> QED  BY <1>2, <2>1 DEF RestAt
<1>6. Good(<<>>, 1, Fed(From(<<>>, 1), <<>>))  BY <1>2, <1>4, <1>5, TurnStops
<1> QED  BY <1>3, <1>6

LEMMA NoneRead ==
  ASSUME readings = <<>>
  PROVE  PacketsRead = <<>>
<1>1. Len(readings) = 0 /\ 1 .. 0 = {}  OBVIOUS
<1>2. PacketsRead = [k \in {} |-> readings[k].packet]  BY <1>1 DEF PacketsRead
<1> QED  BY <1>2

LEMMA NoSamples == SampleOf(<<>>, <<>>)
<1>1. Len(<<>>) = 0 /\ 1 .. 0 = {} /\ 0 - 0 = 0  OBVIOUS
<1> QED  BY <1>1 DEF SampleOf

LEMMA NothingShownIs ==
  ASSUME NEW d \in {NothingShown, Failed}
  PROVE  /\ d \in Displays
         /\ d.status # "ok" /\ d.stable = FALSE
<1>1. NothingShown \in Displays /\ NothingShown.status # "ok" /\ NothingShown.stable = FALSE
  BY DEF NothingShown, Displays
<1>2. Failed \in Displays /\ Failed.status # "ok" /\ Failed.stable = FALSE
  BY <1>1 DEF Failed, Displays
<1> QED  BY <1>1, <1>2

(* The port is closed, or not open yet. *)
LEMMA StreamStarts ==
  ASSUME StreamInit
  PROVE  StreamIInv
<1>1. <<>> \in Seq(Byte) /\ <<>> \in Seq(Sample) /\ <<>> \in Seq(Dated)  OBVIOUS
<1>2. /\ display \in Displays
      /\ display.status # "ok" /\ display.stable = FALSE
  BY NothingShownIs DEF StreamInit
<1>3. StreamTypes
  <2>1. line \in Seq(Byte) /\ got \in Seq(Byte) /\ samples \in Seq(Sample) /\ readings \in Seq(Dated)
    BY <1>1 DEF StreamInit
  <2>2. quiet \in 0 .. SilenceTime + 1  BY Spans DEF StreamInit
  <2>3. packets \in 0 .. MaxPackets /\ noise \in 0 .. MaxNoise /\ opens \in 0 .. MaxOpens
    BY RunBounds DEF StreamInit
  <2> QED  BY <1>2, <2>1, <2>2, <2>3 DEF StreamTypes, StreamInit
<1>4. AllAssembled  BY NothingYet, NoneRead DEF AllAssembled, StreamInit
<1>5. InOrder
  <2>1. readings = <<>> /\ Len(readings) = 0 /\ 1 .. 0 = {}  BY DEF StreamInit
  <2> QED  BY <2>1 DEF InOrder
<1>6. Sampled  BY NoSamples DEF Sampled, StreamInit
<1>7. Shows /\ StableIsSteady /\ ShownIsFresh  BY <1>2 DEF Shows, StableIsSteady, ShownIsFresh
<1> QED  BY <1>3, <1>4, <1>5, <1>6, <1>7 DEF StreamIInv

(* What is assembled of bytes depends on nothing but the protocol. *)
LEMMA GoodStays ==
  ASSUME proto' = proto, NEW b, NEW i, NEW fed
  PROVE  Good(b, i, fed)' <=> Good(b, i, fed)
<1>1. ASSUME NEW p PROVE (IsPacket(p)' <=> IsPacket(p)) /\ ReadingOf(p)' = ReadingOf(p)
  BY DEF IsPacket, ReadingOf, VesarPacket, CasPacket, VesarReading, CasReading
<1>2. Packets(b, i)' = Packets(b, i)  BY <1>1 DEF Packets
<1>3. ASSUME NEW s PROVE DeadStart(b, s)' <=> DeadStart(b, s)  BY DEF DeadStart
<1>4. ASSUME NEW r PROVE RestAt(b, i, r)' <=> RestAt(b, i, r)  BY <1>2, <1>3 DEF RestAt
<1>5. Told(b, i, fed.read)' <=> Told(b, i, fed.read)  BY <1>1, <1>2 DEF Told
<1> QED  BY <1>4, <1>5 DEF Good

LEMMA CloseStep ==
  ASSUME StreamIInv, Close, display' \in {NothingShown, Failed}, UNCHANGED <<proto, packets, noise, opens>>
  PROVE  StreamIInv'
<1>0. /\ reading' = FALSE /\ line' = <<>> /\ buffer' = <<>> /\ samples' = <<>> /\ quiet' = 0
      /\ got' = <<>> /\ readings' = <<>>
  BY DEF Close
<1>1. <<>> \in Seq(Byte) /\ <<>> \in Seq(Sample) /\ <<>> \in Seq(Dated)  OBVIOUS
<1>2. /\ display' \in Displays
      /\ display'.status # "ok" /\ display'.stable = FALSE
  BY NothingShownIs
<1>3. StreamTypes'
  <2>1. /\ line' \in Seq(Byte) /\ got' \in Seq(Byte) /\ samples' \in Seq(Sample) /\ readings' \in Seq(Dated)
    BY <1>0, <1>1
  <2>2. quiet' \in 0 .. SilenceTime + 1  BY <1>0, Spans
  <2>3. /\ proto' \in {"vesar", "cas22"} /\ packets' \in 0 .. MaxPackets
        /\ noise' \in 0 .. MaxNoise /\ opens' \in 0 .. MaxOpens
    BY DEF StreamIInv, StreamTypes
  <2> QED  BY <1>0, <1>2, <2>1, <2>2, <2>3 DEF StreamTypes
<1>4. AllAssembled'
  <2>1. PICK fed : fed = Fed(<<>>, <<>>)  OBVIOUS
  <2>2. PacketsRead' = <<>>
    <3>1. Len(readings') = 0 /\ 1 .. 0 = {}  BY <1>0
    <3>2. PacketsRead' = [k \in {} |-> readings'[k].packet]  BY <3>1 DEF PacketsRead
    <3> QED  BY <3>2
  <2>3. Fed(buffer, PacketsRead)' = fed  BY <1>0, <2>1, <2>2 DEF Fed
  <2>4. Good(<<>>, 1, fed)'  BY <2>1, NothingYet, GoodStays
  <2> QED  BY <1>0, <2>3, <2>4 DEF AllAssembled
<1>5. InOrder'
  <2>1. readings' = <<>> /\ Len(readings') = 0 /\ 1 .. 0 = {}  BY <1>0
  <2> QED  BY <2>1 DEF InOrder
<1>6. Sampled'  BY <1>0, NoSamples DEF Sampled
<1>7. Shows' /\ StableIsSteady' /\ ShownIsFresh'  BY <1>2 DEF Shows, StableIsSteady, ShownIsFresh
<1> QED  BY <1>3, <1>4, <1>5, <1>6, <1>7 DEF StreamIInv

(* Nothing but the line, the bounds and the port may change. *)
LEMMA RestStays ==
  ASSUME StreamIInv, StreamTypes', reading => reading',
         UNCHANGED <<proto, buffer, samples, quiet, display, got, readings>>
  PROVE  StreamIInv'
<1>1. AllAssembled'
  <2>1. PICK fed : fed = Fed(buffer, PacketsRead)  OBVIOUS
  <2>2. Fed(buffer, PacketsRead)' = fed  BY <2>1 DEF Fed, PacketsRead
  <2>3. Good(got, 1, fed)'  BY <2>1, GoodStays DEF StreamIInv, AllAssembled
  <2> QED  BY <2>2, <2>3 DEF AllAssembled
<1>2. InOrder'  BY DEF StreamIInv, InOrder, LastAge
<1>3. Sampled'  BY DEF StreamIInv, Sampled, SampleOf
<1>4. Shows' /\ StableIsSteady'  BY DEF StreamIInv, Shows, StableIsSteady, Steady, LastAge
<1>5. ShownIsFresh'  BY DEF StreamIInv, ShownIsFresh
<1> QED  BY <1>1, <1>2, <1>3, <1>4, <1>5 DEF StreamIInv

LEMMA LineSteps ==
  ASSUME StreamIInv, NEW w \in Raw, SendPacket(w) \/ Noise(w)
  PROVE  StreamIInv'
<1>1. \A p \in PacketsOf(w) : p \in Seq(Byte) /\ Len(p) = 4
  <2> SUFFICES ASSUME NEW p \in PacketsOf(w) PROVE p \in Seq(Byte) /\ Len(p) = 4  OBVIOUS
  <2>1. w \in Byte /\ {STX, ETX, LF, CR, ST, OL} \subseteq Byte  BY DEF Byte
  <2>2. p \in {<<STX, w, w, ETX>>, <<ST, w, CR, LF>>, <<OL, OL, CR, LF>>}  BY DEF PacketsOf
  <2>3. CASE p = <<STX, w, w, ETX>>  BY <2>1, <2>3
  <2>4. CASE p = <<ST, w, CR, LF>>  BY <2>1, <2>4
  <2>5. CASE p = <<OL, OL, CR, LF>>  BY <2>1, <2>5
  <2> QED  BY <2>2, <2>3, <2>4, <2>5
<1>2. line' \in Seq(Byte)
  <2>1. CASE SendPacket(w)
    <3>1. PICK p \in PacketsOf(w) : line' = line \o p  BY <2>1 DEF SendPacket
    <3> QED  BY <1>1, <3>1, ConcatProperties DEF StreamIInv, StreamTypes
  <2>2. CASE Noise(w)
    <3>0. PICK p \in PacketsOf(w) : \E b \in {<<p[1]>>, Tail(p), Front(p)} : line' = line \o b
      BY <2>2 DEF Noise
    <3>1. PICK b \in {<<p[1]>>, Tail(p), Front(p)} : line' = line \o b  BY <3>0
    <3>2. p \in Seq(Byte) /\ Len(p) = 4 /\ p # <<>> /\ p[1] \in Byte  BY <1>1
    <3>3. <<p[1]>> \in Seq(Byte) /\ Tail(p) \in Seq(Byte)  BY <3>2, HeadTailProperties
    <3>4. Front(p) \in Seq(Byte)
      <4>1. \A i \in 1 .. 3 : p[i] \in Byte
        <5>1. \A i \in 1 .. 3 : i \in 1 .. Len(p)  BY <3>2
        <5> QED  BY <3>2, <5>1, ElementOfSeq
      <4>2. Front(p) = SubSeq(p, 1, 3)  BY <3>2 DEF Front
      <4> QED  BY <4>1, <4>2, SubSeqProperties
    <3> QED  BY <3>1, <3>3, <3>4, ConcatProperties DEF StreamIInv, StreamTypes
  <2> QED  BY <2>1, <2>2
<1>3. packets' \in 0 .. MaxPackets /\ noise' \in 0 .. MaxNoise
  BY RunBounds DEF StreamIInv, StreamTypes, SendPacket, Noise
<1>4. UNCHANGED <<proto, reading, buffer, samples, quiet, display, got, readings, opens>>
  BY DEF SendPacket, Noise
<1>5. StreamTypes'  BY <1>2, <1>3, <1>4 DEF StreamIInv, StreamTypes
<1> QED  BY <1>4, <1>5, RestStays

LEMMA OpenStep ==
  ASSUME StreamIInv, Open
  PROVE  StreamIInv'
<1>1. StreamTypes'  BY RunBounds DEF StreamIInv, StreamTypes, Open
<1> QED  BY <1>1, RestStays DEF Open

LEMMA MaxOf ==
  ASSUME NEW S \in SUBSET Int, S # {}, NEW b \in Int, \A x \in S : x <= b
  PROVE  Max(S) \in S /\ \A x \in S : x <= Max(S)
<1> DEFINE D == {n \in Nat : b - n \in S}
<1>1. PICK x \in S : TRUE  OBVIOUS
<1>2. x \in Int /\ b - x \in Nat /\ b - (b - x) = x  BY <1>1
<1>3. D # {} /\ D \in SUBSET Nat  BY <1>1, <1>2
<1>4. PICK n \in D : \A k \in D : n <= k
  <2> HIDE DEF D
  <2> QED  BY <1>3, Least
<1>5. n \in Nat /\ b - n \in S  BY <1>4
<1>6. \A y \in S : y <= b - n
  <2> SUFFICES ASSUME NEW y \in S PROVE y <= b - n  OBVIOUS
  <2>1. y \in Int /\ b - y \in Nat /\ b - (b - y) = y  OBVIOUS
  <2>2. b - y \in D  BY <2>1
  <2>3. n <= b - y
    <3> HIDE DEF D
    <3> QED  BY <1>4, <2>2
  <2> QED  BY <1>5, <2>1, <2>3
<1>7. \E m \in S : \A y \in S : m >= y  BY <1>5, <1>6
<1> QED  BY <1>7 DEF Max

LEMMA MinOfInts ==
  ASSUME NEW S \in SUBSET Int, S # {}, NEW b \in Int, \A x \in S : b <= x
  PROVE  Min(S) \in S /\ \A x \in S : Min(S) <= x
<1> DEFINE D == {n \in Nat : b + n \in S}
<1>1. PICK x \in S : TRUE  OBVIOUS
<1>2. x \in Int /\ x - b \in Nat /\ b + (x - b) = x  BY <1>1
<1>3. D # {} /\ D \in SUBSET Nat  BY <1>1, <1>2
<1>4. PICK n \in D : \A k \in D : n <= k
  <2> HIDE DEF D
  <2> QED  BY <1>3, Least
<1>5. n \in Nat /\ b + n \in S  BY <1>4
<1>6. \A y \in S : b + n <= y
  <2> SUFFICES ASSUME NEW y \in S PROVE b + n <= y  OBVIOUS
  <2>1. y \in Int /\ y - b \in Nat /\ b + (y - b) = y  OBVIOUS
  <2>2. y - b \in D  BY <2>1
  <2>3. n <= y - b
    <3> HIDE DEF D
    <3> QED  BY <1>4, <2>2
  <2> QED  BY <1>5, <2>1, <2>3
<1>7. \E m \in S : \A y \in S : m <= y  BY <1>5, <1>6
<1> QED  BY <1>7 DEF Min

LEMMA SampleTypes ==
  ASSUME NEW w \in Seq(Sample), NEW i \in 1 .. Len(w)
  PROVE  w[i].weight \in Int /\ -999 <= w[i].weight /\ w[i].weight <= 999 /\ w[i].age \in Nat
<1>1. w[i] \in Sample  OBVIOUS
<1>2. w[i].weight \in Raw \cup {0} /\ w[i].age \in Nat  BY <1>1 DEF Sample
<1>3. \A x \in Raw : x \in Int /\ -999 <= x /\ x <= 999  BY RawRange
<1>4. 0 \in Int /\ -999 <= 0 /\ 0 <= 999  OBVIOUS
<1>5. PICK x \in Raw \cup {0} : x = w[i].weight  BY <1>2
<1>6. x \in Int /\ -999 <= x /\ x <= 999  BY <1>3, <1>4, <1>5
<1> QED  BY <1>2, <1>5, <1>6

LEMMA DatedTypes ==
  ASSUME NEW p \in Seq(Dated), NEW i \in 1 .. Len(p)
  PROVE  p[i].packet \in Reading /\ p[i].packet.weight \in Int /\ p[i].age \in Nat
<1>1. p[i] \in Dated  OBVIOUS
<1>2. p[i].packet \in Reading /\ p[i].age \in Nat  BY <1>1 DEF Dated
<1>3. p[i].packet.weight \in Raw \cup {0}  BY <1>2 DEF Reading
<1>4. \A x \in Raw : x \in Int  BY RawRange
<1> QED  BY <1>2, <1>3, <1>4

(* A level window: so are the readings that are not older.                 *)
LEMMA LevelMeans ==
  ASSUME NEW w \in Seq(Sample), NEW p \in Seq(Dated), SampleOf(w, p), w # <<>>, w[1].age <= Window, Level(w)
  PROVE  /\ \A j, k \in 1 .. Len(p) : p[j].age <= Window /\ p[k].age <= Window =>
              p[j].packet.weight - p[k].packet.weight <= Amplitude
         /\ \E k \in 1 .. Len(p) : p[k].age <= Window /\ p[k].age >= Window - Slack
<1> DEFINE n == Len(w)
           m == Len(p)
           weights == {w[i].weight : i \in DOMAIN w}
<1>1. n \in Nat /\ m \in Nat /\ n <= m /\ n > 0 /\ DOMAIN w = 1 .. n /\ 1 \in 1 .. n  BY DEF SampleOf
<1>2. PICK low \in Int, high \in Int :
        weights \in SUBSET Int /\ weights # {} /\ (\A x \in weights : x <= high) /\ \A x \in weights : low <= x
  <2>1. \A i \in 1 .. n : w[i].weight \in Int /\ -999 <= w[i].weight /\ w[i].weight <= 999
    BY SampleTypes
  <2>2. weights # {}  BY <1>1
  <2>3. \A x \in weights : \E i \in 1 .. n : x = w[i].weight  BY <1>1
  <2> HIDE DEF weights
  <2>4. \A x \in weights : x \in Int /\ -999 <= x /\ x <= 999  BY <2>1, <2>3
  <2>5. -999 \in Int /\ 999 \in Int  OBVIOUS
  <2>6. weights \in SUBSET Int  BY <2>4
  <2>7. \E high \in Int : \A x \in weights : x <= high
    <3> SUFFICES \A x \in weights : x <= 999  BY <2>5
    <3> QED  BY <2>4
  <2>8. \E low \in Int : \A x \in weights : low <= x
    <3> SUFFICES \A x \in weights : -999 <= x  BY <2>5
    <3> QED  BY <2>4
  <2> QED  BY <2>2, <2>6, <2>7, <2>8
<1>3. \A i \in 1 .. n : w[i].weight \in weights  BY <1>1
<1>4. w[1].age >= Window - Slack /\ Max(weights) - Min(weights) <= Amplitude  BY DEF Level
<1> HIDE DEF weights
<1>5. \A x, y \in weights : x - y <= Amplitude
  <2> SUFFICES ASSUME NEW x \in weights, NEW y \in weights PROVE x - y <= Amplitude  OBVIOUS
  <2>1. Max(weights) \in weights /\ x <= Max(weights)  BY <1>2, MaxOf
  <2>2. Min(weights) \in weights /\ Min(weights) <= y  BY <1>2, MinOfInts
  <2>3. PICK a \in Int : a = Max(weights)  BY <1>2, <2>1
  <2>4. PICK b \in Int : b = Min(weights)  BY <1>2, <2>2
  <2>5. Amplitude \in Int  BY RawRange DEF Amplitude
  <2>6. x \in Int /\ y \in Int /\ x <= a /\ b <= y /\ a - b <= Amplitude  BY <1>2, <1>4, <2>1, <2>2, <2>3, <2>4
  <2> QED  BY <2>5, <2>6
<1>6. ASSUME NEW j \in 1 .. m, p[j].age <= Window PROVE p[j].packet.weight \in weights
  <2>1. ~(j \in 1 .. m - n)
    <3> SUFFICES ASSUME j \in 1 .. m - n PROVE FALSE  OBVIOUS
    <3>1. p[j].age > Window  BY DEF SampleOf
    <3>2. p[j].age \in Nat  BY DatedTypes
    <3> QED  BY <1>6, <3>1, <3>2, Spans
  <2>2. j - (m - n) \in 1 .. n /\ m - n + (j - (m - n)) = j  BY <1>1, <2>1
  <2>3. w[j - (m - n)].weight = p[m - n + (j - (m - n))].packet.weight  BY <2>2 DEF SampleOf
  <2> QED  BY <1>3, <2>2, <2>3
<1>7. \A j, k \in 1 .. m : p[j].age <= Window /\ p[k].age <= Window =>
        p[j].packet.weight - p[k].packet.weight <= Amplitude
  BY <1>5, <1>6
<1>8. m - n + 1 \in 1 .. m  BY <1>1
<1>9. w[1].age = Capped(p[m - n + 1].age, Window + 1)  BY <1>1 DEF SampleOf
<1>10. p[m - n + 1].age \in Nat  BY <1>8, DatedTypes
<1>11. p[m - n + 1].age = w[1].age  BY <1>9, <1>10, Spans DEF Capped
<1>12. p[m - n + 1].age <= Window /\ p[m - n + 1].age >= Window - Slack  BY <1>4, <1>11
<1> QED  BY <1>7, <1>8, <1>12

(* The same age for all that were read: who was within the window is.      *)
LEMMA SteadyLasts ==
  ASSUME NEW a \in Nat, NEW last \in Nat, last + 1 <= SilenceTime
  PROVE  /\ Capped(last + 1, Old) = last + 1
         /\ Capped(a + 1, Old) - (last + 1) <= Window => a - last <= Window
         /\ a - last <= Window => Capped(a + 1, Old) - (last + 1) = a - last
BY Spans DEF Capped, Old

LEMMA AsSequence ==
  ASSUME NEW S, NEW n \in Nat, NEW f \in [1 .. n -> S]
  PROVE  f \in Seq(S) /\ Len(f) = n
<1>1. f \in Seq(S)  BY SeqDef
<1>2. DOMAIN f = 1 .. n  OBVIOUS
<1> QED  BY <1>1, <1>2

(* One turn of the read loop: what becomes of the readings. *)
LEMMA ReadTold ==
  ASSUME StreamIInv, NEW n \in 0 .. Len(line), ReadChunk(n)
  PROVE  LET read == Feed(SubSeq(line, 1, n)).read
             old  == Older(readings, Old)
         IN  /\ read \in Seq(Reading) /\ line' \in Seq(Byte) /\ got' \in Seq(Byte) /\ AllAssembled'
             /\ old \in Seq(Dated) /\ Len(old) = Len(readings)
             /\ readings' = old \o NewReadings(read)
             /\ readings' \in Seq(Dated) /\ Len(readings') = Len(readings) + Len(read)
             /\ \A k \in 1 .. Len(readings) : /\ readings'[k].packet = readings[k].packet
                                              /\ readings'[k].age = Capped(readings[k].age + 1, Old)
             /\ \A k \in 1 .. Len(read) : /\ readings'[Len(readings) + k].packet = read[k]
                                          /\ readings'[Len(readings) + k].age = 0
<1> DEFINE chunk == SubSeq(line, 1, n)
           fed == Feed(chunk)
           read == fed.read
           old == Older(readings, Old)
           m == Len(readings)
           r == Len(read)
<1>1. line \in Seq(Byte) /\ got \in Seq(Byte) /\ readings \in Seq(Dated) /\ Len(line) \in Nat /\ n \in Int /\ m \in Nat
  BY DEF StreamIInv, StreamTypes
<1>2. chunk \in Seq(Byte) /\ line' \in Seq(Byte)
  <2>1. \A i \in 1 .. n : line[i] \in Byte
    <3>1. \A i \in 1 .. n : i \in 1 .. Len(line)  BY <1>1
    <3> QED  BY <1>1, <3>1, ElementOfSeq
  <2>2. \A i \in n + 1 .. Len(line) : line[i] \in Byte
    <3>1. \A i \in n + 1 .. Len(line) : i \in 1 .. Len(line)  BY <1>1
    <3> QED  BY <1>1, <3>1, ElementOfSeq
  <2>3. chunk \in Seq(Byte)  BY <1>1, <2>1, SubSeqProperties
  <2>4. SubSeq(line, n + 1, Len(line)) \in Seq(Byte)
    <3>1. n + 1 \in Int /\ Len(line) \in Int  BY <1>1
    <3> QED  BY <2>2, <3>1, SubSeqProperties
  <2>5. line' = SubSeq(line, n + 1, Len(line))  BY DEF ReadChunk, From
  <2> QED  BY <2>3, <2>4, <2>5
<1>3. /\ buffer' = fed.rest /\ got' = got \o chunk /\ proto' = proto
      /\ readings' = old \o NewReadings(read)
  BY DEF ReadChunk, Old, NewReadings
<1>4. AllAssembled  BY DEF StreamIInv
<1>5. PICK was : was = PacketsRead  OBVIOUS
<1>6. Good(got, 1, Fed(buffer, was))  BY <1>4, <1>5 DEF AllAssembled
<1> HIDE DEF chunk
<1>7. buffer \in Seq(Byte)
  <2>1. PICK s \in 1 .. Len(got) + 1 : Fed(buffer, was).rest = From(got, s)  BY <1>6 DEF Good
  <2>2. buffer = SubSeq(got, s, Len(got))  BY <2>1 DEF Fed, From
  <2>3. s \in Int /\ Len(got) \in Int /\ \A i \in s .. Len(got) : i \in 1 .. Len(got)  BY <1>1
  <2>4. \A i \in s .. Len(got) : got[i] \in Byte  BY <1>1, <2>3, ElementOfSeq
  <2> QED  BY <2>2, <2>3, <2>4, SubSeqProperties
<1>8. Good(buffer \o chunk, 1, fed)
  <2>1. buffer \o chunk \in Seq(Byte)  BY <1>2, <1>7, ConcatProperties
  <2>2. Good(buffer \o chunk, 1, Assembled(buffer \o chunk))  BY <2>1, AssembledGood
  <2> QED  BY <2>2 DEF Feed
<1> HIDE DEF fed
<1>9. Good(got \o chunk, 1, Fed(fed.rest, was \o read))  BY <1>1, <1>2, <1>6, <1>8, ChunkJoins
<1>10. read \in Seq(Reading)  BY <1>8 DEF Good
<1>11. got' \in Seq(Byte)  BY <1>1, <1>2, <1>3, ConcatProperties
<1>12. /\ old \in Seq(Dated) /\ Len(old) = m
       /\ \A i \in 1 .. m : /\ old[i].packet = readings[i].packet
                            /\ old[i].age = Capped(readings[i].age + 1, Old)
  BY <1>1, Spans, OlderReadings
<1>13. PICK more \in Seq(Dated) : more = NewReadings(read) /\ Len(more) = r  BY <1>10, NewTypes
<1> HIDE DEF read, old
<1>14. /\ readings' \in Seq(Dated) /\ Len(readings') = m + r /\ r \in Nat
       /\ \A k \in 1 .. m + r : readings'[k] = IF k <= m THEN old[k] ELSE more[k - m]
  <2>1. /\ old \o more \in Seq(Dated) /\ Len(old \o more) = Len(old) + Len(more)
        /\ \A k \in 1 .. Len(old) + Len(more) :
             (old \o more)[k] = IF k <= Len(old) THEN old[k] ELSE more[k - Len(old)]
    BY <1>12, ConcatProperties
  <2> QED  BY <1>3, <1>10, <1>12, <1>13, <2>1
<1>15. \A k \in 1 .. m : /\ readings'[k].packet = readings[k].packet
                         /\ readings'[k].age = Capped(readings[k].age + 1, Old)
  <2> SUFFICES ASSUME NEW k \in 1 .. m
               PROVE  /\ readings'[k].packet = readings[k].packet
                      /\ readings'[k].age = Capped(readings[k].age + 1, Old)
    OBVIOUS
  <2>1. k \in 1 .. m + r /\ k <= m  BY <1>1, <1>14
  <2>2. readings'[k] = old[k]  BY <1>14, <2>1
  <2> QED  BY <1>12, <2>2
<1>16. \A k \in 1 .. r : readings'[m + k].packet = read[k] /\ readings'[m + k].age = 0
  <2> SUFFICES ASSUME NEW k \in 1 .. r PROVE readings'[m + k].packet = read[k] /\ readings'[m + k].age = 0
    OBVIOUS
  <2>1. m + k \in 1 .. m + r /\ ~(m + k <= m) /\ (m + k) - m = k  BY <1>1, <1>14
  <2>2. readings'[m + k] = more[k]  BY <1>14, <2>1
  <2> QED  BY <1>10, <1>13, <2>2, NewTypes
<1>17. PacketsRead' = was \o read
  <2>1. was \in Seq(Reading) /\ Len(was) = m /\ \A k \in 1 .. m : was[k] = readings[k].packet
    <3>1. \A k \in 1 .. m : readings[k].packet \in Reading  BY <1>1, DatedTypes
    <3>2. was = [k \in 1 .. m |-> readings[k].packet]  BY <1>5 DEF PacketsRead
    <3> HIDE DEF m
    <3>3. was \in [1 .. m -> Reading] /\ \A k \in 1 .. m : was[k] = readings[k].packet  BY <3>1, <3>2
    <3>4. was \in Seq(Reading) /\ Len(was) = m  BY <1>1, <3>3, AsSequence
    <3> QED  BY <3>3, <3>4
  <2>2. /\ PacketsRead' \in Seq(Reading) /\ Len(PacketsRead') = m + r
        /\ \A k \in 1 .. m + r : PacketsRead'[k] = readings'[k].packet
    <3>1. \A k \in 1 .. Len(readings') : readings'[k].packet \in Reading  BY <1>14, DatedTypes
    <3>2. PacketsRead' = [k \in 1 .. Len(readings') |-> readings'[k].packet]  BY DEF PacketsRead
    <3>3. m + r \in Nat /\ Len(readings') = m + r  BY <1>1, <1>14
    <3>4. PacketsRead' \in [1 .. m + r -> Reading]  BY <3>1, <3>2, <3>3
    <3>5. PacketsRead' \in Seq(Reading) /\ Len(PacketsRead') = m + r  BY <3>3, <3>4, AsSequence
    <3> QED  BY <3>2, <3>3, <3>5
  <2>3. /\ was \o read \in Seq(Reading) /\ Len(was \o read) = m + r
        /\ \A k \in 1 .. m + r : (was \o read)[k] = IF k <= m THEN was[k] ELSE read[k - m]
    <3>1. /\ was \o read \in Seq(Reading) /\ Len(was \o read) = Len(was) + Len(read)
          /\ \A k \in 1 .. Len(was) + Len(read) :
               (was \o read)[k] = IF k <= Len(was) THEN was[k] ELSE read[k - Len(was)]
      BY <1>10, <2>1, ConcatProperties
    <3>2. Len(was) = m  BY <2>1
    <3> QED  BY <3>1, <3>2
  <2>4. \A k \in 1 .. m + r : PacketsRead'[k] = (was \o read)[k]
    <3> SUFFICES ASSUME NEW k \in 1 .. m + r PROVE PacketsRead'[k] = (was \o read)[k]  OBVIOUS
    <3>1. CASE k <= m
      <4>1. k \in 1 .. m  BY <1>1, <1>14, <3>1
      <4>2. readings'[k].packet = was[k]  BY <1>15, <2>1, <4>1
      <4> QED  BY <2>2, <2>3, <3>1, <4>2
    <3>2. CASE ~(k <= m)
      <4>1. k - m \in 1 .. r /\ m + (k - m) = k  BY <1>1, <1>14, <3>2
      <4>2. readings'[k].packet = read[k - m]  BY <1>16, <4>1
      <4> QED  BY <2>2, <2>3, <3>2, <4>2
    <3> QED  BY <3>1, <3>2
  <2> QED  BY <2>2, <2>3, <2>4, SeqEqual
<1>18. AllAssembled'
  <2>1. PICK all : all = Fed(fed.rest, was \o read)  OBVIOUS
  <2>2. PICK bytes : bytes = got \o chunk  OBVIOUS
  <2>3. Good(bytes, 1, all)'  BY <1>3, <1>9, <2>1, <2>2, GoodStays
  <2>4. Fed(buffer, PacketsRead)' = all  BY <1>3, <1>17, <2>1 DEF Fed, read
  <2>5. got' = bytes  BY <1>3, <2>2
  <2> QED  BY <2>3, <2>4, <2>5 DEF AllAssembled
<1> QED
  <2>1. readings' = old \o NewReadings(read)  BY <1>3
  <2>2. read = Feed(SubSeq(line, 1, n)).read /\ old = Older(readings, Old)  BY DEF read, fed, chunk, old
  <2> QED  BY <1>2, <1>10, <1>11, <1>12, <1>14, <1>15, <1>16, <1>18, <2>1, <2>2

LEMMA NoneMore ==
  /\ NewReadings(<<>>) = <<>>
  /\ Older(<<>>, Window + 1) = <<>>
<1>1. DOMAIN <<>> = {}  OBVIOUS
<1>2. NewReadings(<<>>) = [i \in {} |-> [packet |-> <<>>[i], age |-> 0]]  BY <1>1 DEF NewReadings
<1>3. Older(<<>>, Window + 1) = [i \in {} |-> [<<>>[i] EXCEPT !.age = Capped(@ + 1, Window + 1)]]
  BY <1>1 DEF Older
<1> QED  BY <1>2, <1>3

(* Nothing came: all grow old, and the last with the silence.              *)
LEMMA SilenceTold ==
  ASSUME StreamIInv, NEW n \in 0 .. Len(line), ReadChunk(n), Feed(SubSeq(line, 1, n)).read = <<>>
  PROVE  /\ quiet' = Capped(quiet + 1, SilenceTime + 1)
         /\ readings' = Older(readings, Old) /\ readings' \in Seq(Dated)
         /\ Len(readings') = Len(readings)
         /\ \A k \in 1 .. Len(readings) : /\ readings'[k].packet = readings[k].packet
                                          /\ readings'[k].age = Capped(readings[k].age + 1, Old)
         /\ IF quiet' > SilenceTime THEN display' = NothingShown /\ samples' = <<>>
            ELSE display' = display /\ samples' = Older(samples, Window + 1)
         /\ readings # <<>> => /\ LastAge \in Nat /\ LastAge' = Capped(LastAge + 1, Old)
                               /\ quiet' = Capped(LastAge', SilenceTime + 1)
<1> DEFINE read == Feed(SubSeq(line, 1, n)).read
           m == Len(readings)
<1>0. read = <<>> /\ Len(read) = 0  OBVIOUS
<1>1. quiet' = Capped(quiet + 1, SilenceTime + 1)  BY DEF ReadChunk, Silent
<1>2. IF quiet' > SilenceTime THEN display' = NothingShown /\ samples' = <<>>
      ELSE display' = display /\ samples' = Older(samples, Window + 1)
  BY DEF ReadChunk
<1>3. /\ readings \in Seq(Dated) /\ m \in Nat /\ quiet \in Nat
      /\ \A k \in 1 .. m : readings[k].age \in Nat
  <2>1. readings \in Seq(Dated) /\ m \in Nat /\ quiet \in Nat  BY Spans DEF StreamIInv, StreamTypes
  <2> QED  BY <2>1, DatedTypes
<1>4. /\ Older(readings, Old) \in Seq(Dated) /\ Len(Older(readings, Old)) = m
      /\ readings' = Older(readings, Old) \o NewReadings(read)
      /\ readings' \in Seq(Dated) /\ Len(readings') = m + Len(read)
      /\ \A k \in 1 .. m : /\ readings'[k].packet = readings[k].packet
                           /\ readings'[k].age = Capped(readings[k].age + 1, Old)
  BY ReadTold
<1>5. readings' = Older(readings, Old)
  <2>1. PICK old \in Seq(Dated) : old = Older(readings, Old)  BY <1>4
  <2>2. old \o <<>> = old  BY ConcatEmptySeq
  <2>3. readings' = old \o <<>>  BY <1>0, <1>4, <2>1, NoneMore
  <2> QED  BY <2>1, <2>2, <2>3
<1>6. Len(readings') = m  BY <1>0, <1>3, <1>4
<1>7. ASSUME readings # <<>>
      PROVE  /\ LastAge \in Nat /\ LastAge' = Capped(LastAge + 1, Old)
             /\ quiet' = Capped(LastAge', SilenceTime + 1)
  <2>1. m \in 1 .. m  BY <1>3, <1>7
  <2>2. LastAge = readings[m].age /\ LastAge' = readings'[m].age  BY <1>6 DEF LastAge
  <2>3. LastAge \in Nat /\ LastAge' = Capped(LastAge + 1, Old)  BY <1>3, <1>4, <2>1, <2>2
  <2>4. quiet = Capped(LastAge, SilenceTime + 1)  BY <1>7 DEF StreamIInv, InOrder
  <2>5. \A a \in Nat : Capped(Capped(a, SilenceTime + 1) + 1, SilenceTime + 1)
                         = Capped(Capped(a + 1, Old), SilenceTime + 1)
    BY Spans DEF Capped, Old
  <2> QED  BY <1>1, <2>3, <2>4, <2>5
<1> QED  BY <1>1, <1>2, <1>4, <1>5, <1>6, <1>7

LEMMA ReadInOrder ==
  ASSUME StreamIInv, NEW n \in 0 .. Len(line), ReadChunk(n)
  PROVE  InOrder' /\ quiet' \in 0 .. SilenceTime + 1
<1> DEFINE read == Feed(SubSeq(line, 1, n)).read
           m == Len(readings)
           r == Len(read)
<1>1. /\ read \in Seq(Reading) /\ r \in Nat /\ m \in Nat /\ quiet \in Nat
      /\ readings' \in Seq(Dated) /\ Len(readings') = m + r
      /\ \A k \in 1 .. m : readings'[k].age = Capped(readings[k].age + 1, Old)
      /\ \A k \in 1 .. r : readings'[m + k].age = 0
      /\ \A k \in 1 .. m : readings[k].age \in Nat
  <2>1. readings \in Seq(Dated) /\ m \in Nat /\ quiet \in Nat  BY Spans DEF StreamIInv, StreamTypes
  <2>2. read \in Seq(Reading)  BY ReadTold
  <2>3. r \in Nat  BY <2>2
  <2> QED  BY <2>1, <2>2, <2>3, ReadTold, DatedTypes
<1> HIDE DEF read, r, m
<1>2. \A j, k \in 1 .. m : j <= k => readings[j].age >= readings[k].age  BY DEF StreamIInv, InOrder, m
<1>3. \A a, b \in Nat : a >= b => Capped(a + 1, Old) >= Capped(b + 1, Old)  BY Spans DEF Capped
<1>4. \A k \in 1 .. m + r : readings'[k].age \in Nat  BY <1>1, DatedTypes
<1>5. \A k \in 1 .. m + r : k > m => readings'[k].age = 0
  <2> SUFFICES ASSUME NEW k \in 1 .. m + r, k > m PROVE readings'[k].age = 0  OBVIOUS
  <2>1. k - m \in 1 .. r /\ m + (k - m) = k  BY <1>1
  <2> QED  BY <1>1, <2>1
<1>6. \A j, k \in 1 .. Len(readings') : j <= k => readings'[j].age >= readings'[k].age
  <2> SUFFICES ASSUME NEW j \in 1 .. m + r, NEW k \in 1 .. m + r, j <= k
               PROVE  readings'[j].age >= readings'[k].age
    BY <1>1
  <2>1. CASE k > m  BY <1>4, <1>5, <2>1
  <2>2. CASE ~(k > m)
    <3>1. j \in 1 .. m /\ k \in 1 .. m  BY <1>1, <2>2
    <3>2. readings[j].age >= readings[k].age  BY <1>2, <3>1
    <3> QED  BY <1>1, <1>3, <3>1, <3>2
  <2> QED  BY <2>1, <2>2
<1>7. CASE read = <<>>
  <2>1. quiet' = Capped(quiet + 1, SilenceTime + 1)  BY <1>7, SilenceTold DEF read
  <2>2. quiet' \in 0 .. SilenceTime + 1  BY <1>1, <2>1, Spans DEF Capped
  <2>3. readings' # <<>> => readings # <<>>
    <3>1. Len(readings') = Len(readings)  BY <1>7, SilenceTold DEF read
    <3> QED  BY <1>1, <3>1
  <2>4. readings' # <<>> => quiet' = Capped(LastAge', SilenceTime + 1)  BY <1>7, <2>3, SilenceTold DEF read
  <2> QED  BY <1>6, <2>2, <2>4 DEF InOrder
<1>8. CASE read # <<>>
  <2>1. r > 0  BY <1>1, <1>8 DEF r
  <2>2. quiet' = 0  BY <1>8 DEF ReadChunk, Silent, read
  <2>3. m + r \in 1 .. m + r /\ m + r > m  BY <1>1, <2>1
  <2>4. LastAge' = 0  BY <1>1, <1>5, <2>3 DEF LastAge
  <2>5. quiet' = Capped(LastAge', SilenceTime + 1)  BY <2>2, <2>4, Spans DEF Capped
  <2>6. quiet' \in 0 .. SilenceTime + 1  BY <2>2, Spans
  <2> QED  BY <1>6, <2>5, <2>6 DEF InOrder
<1> QED  BY <1>7, <1>8

LEMMA ReadSampled ==
  ASSUME StreamIInv, NEW n \in 0 .. Len(line), ReadChunk(n)
  PROVE  Sampled' /\ samples' \in Seq(Sample)
<1> DEFINE read == Feed(SubSeq(line, 1, n)).read
           older == Older(samples, Window + 1)
           old == Older(readings, Old)
<1>1. samples \in Seq(Sample) /\ readings \in Seq(Dated) /\ proto' = proto
  BY DEF StreamIInv, StreamTypes, ReadChunk
<1>2. older \in Seq(Sample)  BY <1>1, Spans, OlderSamples
<1>3. /\ read \in Seq(Reading) /\ old \in Seq(Dated) /\ readings' = old \o NewReadings(read)
      /\ readings' \in Seq(Dated)
  BY ReadTold
<1>4. <<>> \in Seq(Sample) /\ Len(<<>>) = 0  OBVIOUS
<1>5. proto = "vesar" => SampleOf(older, old)
  <2>1. proto = "vesar" => SampleOf(samples, readings)  BY DEF StreamIInv, Sampled
  <2> QED  BY <1>1, <2>1, SamplesAge
<1>6. CASE read = <<>> /\ quiet' > SilenceTime
  <2>1. samples' = <<>>  BY <1>6, SilenceTold
  <2>2. \A k \in 1 .. Len(readings') : readings'[k].age > Window
    <3> SUFFICES ASSUME NEW k \in 1 .. Len(readings') PROVE readings'[k].age > Window  OBVIOUS
    <3>1. Len(readings') \in Nat /\ Len(readings') \in 1 .. Len(readings') /\ k <= Len(readings')  BY <1>3
    <3>2. readings' # <<>> /\ readings # <<>>
      <4>1. Len(readings') = Len(readings)  BY <1>6, SilenceTold
      <4> QED  BY <3>1, <4>1
    <3>3. quiet' = Capped(LastAge', SilenceTime + 1) /\ LastAge' \in Nat
      <4>1. LastAge' = readings'[Len(readings')].age  BY DEF LastAge
      <4> QED  BY <1>3, <1>6, <3>1, <3>2, <4>1, SilenceTold, DatedTypes
    <3>4. LastAge' > Window  BY <1>6, <3>3, Spans DEF Capped
    <3>5. readings'[k].age >= LastAge'  BY <3>1, ReadInOrder DEF InOrder, LastAge
    <3>6. readings'[k].age \in Nat  BY <1>3, DatedTypes
    <3> QED  BY <3>3, <3>4, <3>5, <3>6, Spans
  <2>3. SampleOf(<<>>, readings')
    <3>1. PICK p \in Seq(Dated) : p = readings'  BY <1>3
    <3>2. Len(p) - 0 = Len(p) /\ 0 <= Len(p) /\ 1 .. 0 = {}  OBVIOUS
    <3>3. SampleOf(<<>>, p)  BY <1>4, <2>2, <3>1, <3>2 DEF SampleOf
    <3> QED  BY <3>1, <3>3
  <2>4. SampleOf(samples, readings)'  BY <2>1, <2>3 DEF SampleOf
  <2> QED  BY <1>4, <2>1, <2>4 DEF Sampled
<1>7. CASE read = <<>> /\ ~(quiet' > SilenceTime)
  <2>1. samples' = older /\ readings' = old  BY <1>7, SilenceTold
  <2>2. proto = "vesar" => SampleOf(samples, readings)'  BY <1>5, <2>1 DEF SampleOf
  <2>3. proto # "vesar" => samples' = <<>>
    <3>1. proto # "vesar" => samples = <<>>  BY DEF StreamIInv, Sampled
    <3> QED  BY <2>1, <3>1, NoneMore
  <2> QED  BY <1>1, <1>2, <2>1, <2>2, <2>3 DEF Sampled
<1>8. CASE read # <<>>
  <2>1. samples' = IF proto = "vesar" THEN Kept(older) \o NewSamples(read) ELSE <<>>
    BY <1>8 DEF ReadChunk, Track, NewSamples
  <2>2. CASE proto = "vesar"
    <3>1. Kept(older) \in Seq(Sample) /\ SampleOf(Kept(older), old)  BY <1>2, <1>3, <1>5, <2>2, SamplesKept
    <3>2. SampleOf(Kept(older) \o NewSamples(read), old \o NewReadings(read))  BY <1>3, <3>1, SamplesJoin
    <3>3. samples' = Kept(older) \o NewSamples(read)  BY <2>1, <2>2
    <3>4. SampleOf(samples, readings)'  BY <1>3, <3>2, <3>3 DEF SampleOf
    <3>5. samples' \in Seq(Sample)
      <4>1. NewSamples(read) \in Seq(Sample)  BY <1>3, NewTypes
      <4> QED  BY <3>1, <3>3, <4>1, ConcatProperties
    <3> QED  BY <1>1, <2>2, <3>4, <3>5 DEF Sampled
  <2>3. CASE proto # "vesar"  BY <1>1, <1>4, <2>1, <2>3 DEF Sampled
  <2> QED  BY <2>2, <2>3
<1> QED  BY <1>6, <1>7, <1>8

(* Packets came: the last of them is shown, stable over a level window.    *)
LEMMA ReadShows ==
  ASSUME StreamIInv, NEW n \in 0 .. Len(line), ReadChunk(n), Feed(SubSeq(line, 1, n)).read # <<>>
  PROVE  display' \in Displays /\ display'.status = "ok" /\ StableIsSteady' /\ ShownIsFresh'
<1> DEFINE read == Feed(SubSeq(line, 1, n)).read
           m == Len(readings)
           r == Len(read)
           window == Track(Older(samples, Window + 1), read)
<1>1. /\ read \in Seq(Reading) /\ m \in Nat /\ r \in Nat
      /\ readings' \in Seq(Dated) /\ Len(readings') = m + r
      /\ \A k \in 1 .. r : readings'[m + k].packet = read[k] /\ readings'[m + k].age = 0
  <2>1. m \in Nat  BY DEF StreamIInv, StreamTypes
  <2>2. read \in Seq(Reading)  BY ReadTold
  <2>3. r \in Nat  BY <2>2
  <2> QED  BY <2>1, <2>2, <2>3, ReadTold
<1>2. proto' = proto /\ reading' /\ display' = Shown(read, window)  BY DEF ReadChunk
<1>3. read # <<>>  OBVIOUS
<1>4. samples' = IF proto = "vesar" THEN window ELSE <<>>  BY DEF ReadChunk
<1>5. proto = "vesar" => window # <<>> /\ window[1].age <= Window
  <2> SUFFICES ASSUME proto = "vesar" PROVE window # <<>> /\ window[1].age <= Window  OBVIOUS
  <2>1. samples \in Seq(Sample) /\ readings \in Seq(Dated) /\ SampleOf(samples, readings)
    BY DEF StreamIInv, StreamTypes, Sampled
  <2>2. Older(samples, Window + 1) \in Seq(Sample) /\ Older(readings, Old) \in Seq(Dated)
    BY <2>1, Spans, OlderSamples, OlderReadings
  <2>3. SampleOf(Older(samples, Window + 1), Older(readings, Old))  BY <2>1, SamplesAge
  <2>4. PICK kept \in Seq(Sample) : /\ kept = Kept(Older(samples, Window + 1))
                                    /\ kept # <<>> => kept[1].age <= Window
    BY <2>2, <2>3, SamplesKept
  <2>5. PICK new \in Seq(Sample) : /\ new = NewSamples(read) /\ Len(new) = r
                                   /\ \A i \in 1 .. r : new[i].age = 0
    BY <1>1, NewTypes
  <2>6. window = kept \o new  BY <2>4, <2>5 DEF Track, NewSamples
  <2>7. /\ Len(kept \o new) = Len(kept) + Len(new)
        /\ \A i \in 1 .. Len(kept) + Len(new) :
             (kept \o new)[i] = IF i <= Len(kept) THEN kept[i] ELSE new[i - Len(kept)]
    BY ConcatProperties
  <2> HIDE DEF read, window
  <2>8. r > 0  BY <1>1, <1>3 DEF r
  <2>9. Len(kept) \in Nat /\ 1 \in 1 .. Len(kept) + Len(new)  BY <1>1, <2>5, <2>8
  <2>10. window # <<>>
    <3>1. Len(window) > 0  BY <2>6, <2>7, <2>9
    <3> QED  BY <3>1
  <2>11. CASE kept = <<>>
    <3>1. Len(kept) = 0  BY <2>11
    <3>2. window[1] = new[1]  BY <2>6, <2>7, <2>9, <3>1
    <3>3. 1 \in 1 .. r  BY <1>1, <2>8
    <3> QED  BY <2>5, <2>10, <3>2, <3>3, Spans
  <2>12. CASE kept # <<>>
    <3>1. 1 <= Len(kept)  BY <2>12
    <3>2. window[1] = kept[1]  BY <2>6, <2>7, <2>9, <3>1
    <3> QED  BY <2>4, <2>10, <2>12, <3>2
  <2> QED  BY <2>11, <2>12
<1> HIDE DEF read, window, m, r
<1>6. r > 0 /\ r \in 1 .. r /\ m + r = Len(readings') /\ m + r \in 1 .. m + r  BY <1>1, <1>3 DEF r
<1>7. readings'[Len(readings')].packet = read[r] /\ LastAge' = 0 /\ readings' # <<>>
  <2>1. readings'[m + r].packet = read[r] /\ readings'[m + r].age = 0  BY <1>1, <1>6
  <2> QED  BY <1>1, <1>6, <2>1 DEF LastAge
<1>8. PICK last \in Reading : last = read[r]
  <2>1. read[Len(read)] \in Reading  BY <1>1, <1>6, ElementOfSeq DEF r
  <2> QED  BY <2>1 DEF r
<1>9. display' = [status |-> "ok", over |-> last.over,
                  weight |-> IF proto = "vesar" THEN Quantize(last.weight) ELSE last.weight,
                  stable |-> IF proto = "vesar" THEN Level(window) ELSE last.stable]
  BY <1>2, <1>8 DEF Shown, r
<1>10. last.weight \in Int /\ last.over \in BOOLEAN /\ last.stable \in BOOLEAN
  <2>1. last.weight \in Raw \cup {0} /\ last.over \in BOOLEAN /\ last.stable \in BOOLEAN  BY DEF Reading
  <2>2. \A x \in Raw : x \in Int  BY RawRange
  <2>3. last.weight \in Int  BY <2>1, <2>2
  <2> QED  BY <2>1, <2>3
<1>11. PICK level \in BOOLEAN : level = Level(window)
  <2>1. Level(window) \in BOOLEAN  BY DEF Level
  <2> QED  BY <2>1
<1>12. PICK cut \in Int :
         /\ cut = Quantize(last.weight) /\ cut % Discrete = 0
         /\ IF last.weight < 0 THEN last.weight <= cut /\ cut <= 0 ELSE 0 <= cut /\ cut <= last.weight
  BY <1>10, QuantizeIs
<1>13. /\ display'.status = "ok" /\ display'.over = last.over
       /\ display'.weight = IF proto = "vesar" THEN cut ELSE last.weight
       /\ display'.stable = IF proto = "vesar" THEN level ELSE last.stable
       /\ display' \in Displays
  BY <1>9, <1>10, <1>11, <1>12 DEF Displays
<1>14. StableIsSteady'
  <2> SUFFICES ASSUME proto = "vesar", display'.stable PROVE Steady'  BY <1>2 DEF StableIsSteady
  <2>1. Level(window)  BY <1>11, <1>13
  <2>2. PICK w \in Seq(Sample) : w = window /\ SampleOf(w, readings')
    <3>1. SampleOf(samples, readings)'  BY <1>2, ReadSampled DEF Sampled
    <3>2. samples' \in Seq(Sample) /\ samples' = window  BY <1>4, ReadSampled
    <3> QED  BY <3>1, <3>2 DEF SampleOf
  <2>3. PICK p \in Seq(Dated) : p = readings'  BY <1>1
  <2>4. /\ \A j, k \in 1 .. Len(p) : p[j].age <= Window /\ p[k].age <= Window =>
             p[j].packet.weight - p[k].packet.weight <= Amplitude
        /\ \E k \in 1 .. Len(p) : p[k].age <= Window /\ p[k].age >= Window - Slack
    BY <1>5, <2>1, <2>2, <2>3, LevelMeans
  <2>5. \A k \in 1 .. Len(p) : p[k].age - 0 = p[k].age  BY DatedTypes
  <2>6. DOMAIN p = 1 .. Len(p)  OBVIOUS
  <2> QED  BY <1>7, <2>3, <2>4, <2>5, <2>6 DEF Steady
<1>15. ShownIsFresh'
  <2>1. readings'[Len(readings')].age <= SilenceTime  BY <1>7, Spans DEF LastAge
  <2> QED  BY <1>2, <1>7, <1>8, <1>12, <1>13, <2>1 DEF ShownIsFresh
<1> QED  BY <1>13, <1>14, <1>15

(* Nothing came for too long, or not yet for so long.                      *)
LEMMA SilenceShows ==
  ASSUME StreamIInv, NEW n \in 0 .. Len(line), ReadChunk(n), Feed(SubSeq(line, 1, n)).read = <<>>
  PROVE  display' \in Displays /\ Shows' /\ StableIsSteady' /\ ShownIsFresh'
<1>0. proto' = proto /\ reading' /\ readings \in Seq(Dated) /\ display \in Displays
  BY DEF ReadChunk, StreamIInv, StreamTypes
<1>1. /\ readings' \in Seq(Dated) /\ Len(readings') = Len(readings) /\ Len(readings) \in Nat
      /\ \A k \in 1 .. Len(readings) : /\ readings'[k].packet = readings[k].packet
                                       /\ readings'[k].age = Capped(readings[k].age + 1, Old)
  BY <1>0, SilenceTold
<1>2. CASE quiet' > SilenceTime
  <2>1. display' = NothingShown  BY <1>2, SilenceTold
  <2>2. display' \in Displays /\ display'.status # "ok" /\ display'.stable = FALSE
    BY <2>1, NothingShownIs
  <2> QED  BY <2>2 DEF Shows, StableIsSteady, ShownIsFresh
<1>3. CASE ~(quiet' > SilenceTime)
  <2>1. display' = display  BY <1>3, SilenceTold
  <2>2. Shows'  BY <2>1 DEF StreamIInv, Shows
  <2>3. ASSUME readings # <<>>
        PROVE  /\ LastAge \in Nat /\ LastAge + 1 <= SilenceTime /\ LastAge' = LastAge + 1
               /\ Len(readings) \in 1 .. Len(readings)
    <3>1. /\ LastAge \in Nat /\ LastAge' = Capped(LastAge + 1, Old)
          /\ quiet' = Capped(LastAge', SilenceTime + 1)
      BY <2>3, SilenceTold
    <3>2. LastAge + 1 <= SilenceTime  BY <1>3, <3>1, Spans DEF Capped, Old
    <3> QED  BY <1>0, <1>1, <2>3, <3>1, <3>2, SteadyLasts
  <2>4. StableIsSteady'
    <3> SUFFICES ASSUME proto = "vesar", display.stable PROVE Steady'  BY <1>0, <2>1 DEF StableIsSteady
    <3>1. Steady  BY DEF StreamIInv, StableIsSteady
    <3>2. DOMAIN readings = 1 .. Len(readings) /\ DOMAIN readings' = 1 .. Len(readings)  BY <1>0, <1>1
    <3>3. readings # <<>>  BY <3>1 DEF Steady
    <3>4. \A k \in 1 .. Len(readings) : readings[k].age \in Nat  BY <1>0, DatedTypes
    <3>5. \A k \in 1 .. Len(readings) :
            /\ readings'[k].age - LastAge' <= Window => readings[k].age - LastAge <= Window
            /\ readings[k].age - LastAge <= Window => readings'[k].age - LastAge' = readings[k].age - LastAge
      <4> SUFFICES ASSUME NEW k \in 1 .. Len(readings)
                   PROVE  /\ readings'[k].age - LastAge' <= Window => readings[k].age - LastAge <= Window
                          /\ readings[k].age - LastAge <= Window =>
                               readings'[k].age - LastAge' = readings[k].age - LastAge
        OBVIOUS
      <4>1. PICK a \in Nat : a = readings[k].age  BY <3>4
      <4>2. PICK last \in Nat : last = LastAge /\ last + 1 <= SilenceTime /\ LastAge' = last + 1
        BY <2>3, <3>3
      <4>3. readings'[k].age = Capped(a + 1, Old)  BY <1>1, <4>1
      <4>4. /\ Capped(a + 1, Old) - (last + 1) <= Window => a - last <= Window
            /\ a - last <= Window => Capped(a + 1, Old) - (last + 1) = a - last
        BY <4>2, SteadyLasts
      <4> QED  BY <4>1, <4>2, <4>3, <4>4
    <3>6. \A j, k \in 1 .. Len(readings) :
            readings'[j].age - LastAge' <= Window /\ readings'[k].age - LastAge' <= Window =>
              readings'[j].packet.weight - readings'[k].packet.weight <= Amplitude
      BY <1>1, <3>1, <3>2, <3>5 DEF Steady
    <3>7. PICK k \in 1 .. Len(readings) :
            readings[k].age - LastAge <= Window /\ readings[k].age - LastAge >= Window - Slack
      BY <3>1, <3>2 DEF Steady
    <3>8. readings'[k].age - LastAge' <= Window /\ readings'[k].age - LastAge' >= Window - Slack
      BY <3>5, <3>7
    <3> QED  BY <3>2, <3>6, <3>8 DEF Steady
  <2>5. ShownIsFresh'
    <3> SUFFICES ASSUME display.status = "ok" PROVE ShownIsFresh'  BY <2>1 DEF ShownIsFresh
    <3>1. ShownIsFresh /\ readings # <<>>  BY DEF StreamIInv, ShownIsFresh
    <3>2. readings' # <<>> /\ readings'[Len(readings')].packet = readings[Len(readings)].packet
      BY <1>1, <2>3, <3>1
    <3>3. readings'[Len(readings')].age <= SilenceTime  BY <2>3, <3>1 DEF LastAge
    <3> QED  BY <1>0, <2>1, <3>1, <3>2, <3>3 DEF ShownIsFresh
  <2> QED  BY <1>0, <2>1, <2>2, <2>4, <2>5
<1> QED  BY <1>2, <1>3

LEMMA ReadStep ==
  ASSUME StreamIInv, NEW n \in 0 .. Len(line), ReadChunk(n)
  PROVE  StreamIInv'
<1>1. display' \in Displays /\ Shows' /\ StableIsSteady' /\ ShownIsFresh'
  <2>1. CASE Feed(SubSeq(line, 1, n)).read = <<>>  BY <2>1, SilenceShows
  <2>2. CASE Feed(SubSeq(line, 1, n)).read # <<>>  BY <2>2, ReadShows DEF Shows
  <2> QED  BY <2>1, <2>2
<1>2. InOrder' /\ quiet' \in 0 .. SilenceTime + 1  BY ReadInOrder
<1>3. Sampled' /\ samples' \in Seq(Sample)  BY ReadSampled
<1>4. AllAssembled' /\ line' \in Seq(Byte) /\ got' \in Seq(Byte) /\ readings' \in Seq(Dated)  BY ReadTold
<1>5. StreamTypes'
  <2>1. UNCHANGED <<proto, packets, noise, opens, reading>>  BY DEF ReadChunk
  <2>2. /\ proto' \in {"vesar", "cas22"} /\ packets' \in 0 .. MaxPackets
        /\ noise' \in 0 .. MaxNoise /\ opens' \in 0 .. MaxOpens /\ reading' \in BOOLEAN
    BY <2>1 DEF StreamIInv, StreamTypes
  <2> QED  BY <1>1, <1>2, <1>3, <1>4, <2>2 DEF StreamTypes
<1> QED  BY <1>1, <1>2, <1>3, <1>4, <1>5 DEF StreamIInv

LEMMA StreamStep ==
  ASSUME StreamIInv, [StreamNext]_streamVars
  PROVE  StreamIInv'
<1>1. CASE \E w \in Raw : SendPacket(w) \/ Noise(w)  BY <1>1, LineSteps
<1>2. CASE Open  BY <1>2, OpenStep
<1>3. CASE Read
  <2>1. Len(line) \in Nat /\ DOMAIN line = 1 .. Len(line)  BY DEF StreamIInv, StreamTypes
  <2>2. CASE line = <<>> /\ ReadChunk(0)
    <3>1. 0 \in 0 .. Len(line)  BY <2>1
    <3> QED  BY <2>2, <3>1, ReadStep
  <2>3. CASE \E n \in DOMAIN line : ReadChunk(n)
    <3>1. PICK n \in DOMAIN line : ReadChunk(n)  BY <2>3
    <3>2. n \in 0 .. Len(line)  BY <2>1
    <3> QED  BY <3>1, <3>2, ReadStep
  <2> QED  BY <1>3, <2>2, <2>3 DEF Read
<1>4. CASE PortFails  BY <1>4, CloseStep DEF PortFails
<1>5. CASE SwitchPort  BY <1>5, CloseStep DEF SwitchPort
<1>6. CASE UNCHANGED streamVars
  <2>1. StreamTypes'  BY <1>6 DEF StreamIInv, StreamTypes, streamVars
  <2> QED  BY <1>6, <2>1, RestStays DEF streamVars
<1> QED  BY <1>1, <1>2, <1>3, <1>4, <1>5, <1>6 DEF StreamNext

(* The invariant says what the run checks.                                 *)
LEMMA StreamShown ==
  ASSUME StreamIInv
  PROVE  StreamInv
<1>1. StreamTypes /\ Good(got, 1, Fed(buffer, PacketsRead))  BY DEF StreamIInv, AllAssembled
<1>2. /\ got \in Seq(Byte) /\ readings \in Seq(Dated)
      /\ DOMAIN readings = 1 .. Len(readings) /\ Len(readings) \in Nat
  BY <1>1 DEF StreamTypes
<1>3. Len(PacketsRead) = Len(readings) /\ \A k \in 1 .. Len(readings) : PacketsRead[k] = readings[k].packet
  <2>1. \A k \in 1 .. Len(readings) : readings[k].packet \in Reading  BY <1>2, DatedTypes
  <2>2. PacketsRead \in [1 .. Len(readings) -> Reading]  BY <2>1 DEF PacketsRead
  <2>3. Len(PacketsRead) = Len(readings)  BY <1>2, <2>2, AsSequence
  <2> QED  BY <2>3 DEF PacketsRead
<1>4. StreamTypeOK
  <2>1. PICK s \in 1 .. Len(got) + 1 : buffer = From(got, s) /\ RestAt(got, 1, s)  BY <1>1 DEF Good, Fed
  <2>2. Len(got) \in Nat /\ s \in Int /\ s <= Len(got) + 1  BY <1>2
  <2>3. \A i \in s .. Len(got) : got[i] \in Byte
    <3>1. \A i \in s .. Len(got) : i \in 1 .. Len(got)  BY <1>2
    <3> QED  BY <1>2, <3>1, ElementOfSeq
  <2>4. buffer \in Seq(Byte) /\ Len(buffer) = Len(got) + 1 - s
    <3>1. CASE s <= Len(got)
      <4>1. SubSeq(got, s, Len(got)) \in Seq(Byte) /\ Len(SubSeq(got, s, Len(got))) = Len(got) - s + 1
        BY <2>2, <2>3, <3>1, SubSeqProperties
      <4> QED  BY <2>1, <2>2, <4>1 DEF From
    <3>2. CASE ~(s <= Len(got))
      <4>1. SubSeq(got, s, Len(got)) = <<>>  BY <2>2, <3>2, SubSeqEmpty
      <4>2. Len(got) + 1 - s = 0  BY <2>2, <3>2
      <4>3. <<>> \in Seq(Byte) /\ Len(<<>>) = 0  OBVIOUS
      <4> QED  BY <2>1, <4>1, <4>2, <4>3 DEF From
    <3> QED  BY <3>1, <3>2
  <2>5. Len(buffer) <= IF proto = "vesar" THEN PacketLen - 1 ELSE CasLimit  BY <2>1, <2>4 DEF RestAt
  <2>6. \A k \in DOMAIN readings : readings[k].packet \in Reading  BY <1>2, DatedTypes
  <2>7. display.status \in {"ok", "no_data", "port_error"}  BY <1>1 DEF StreamTypes, Displays
  <2> QED  BY <1>1, <2>4, <2>5, <2>6, <2>7 DEF StreamTypeOK, StreamTypes
<1>5. EveryPacketRead
  <2>0. Told(got, 1, PacketsRead)  BY <1>1 DEF Good, Fed
  <2>1. PICK where \in [1 .. Len(readings) -> Packets(got, 1)] :
          /\ \A s \in Packets(got, 1) : \E k \in 1 .. Len(readings) : where[k] = s
          /\ \A j, k \in 1 .. Len(readings) : j < k => where[j] < where[k]
          /\ \A k \in 1 .. Len(readings) : PacketsRead[k] = ReadingOf(PacketAt(got, where[k]))
    <3>1. PICK n : n = Len(PacketsRead)  OBVIOUS
    <3>2. \E where \in [1 .. n -> Packets(got, 1)] :
            /\ \A s \in Packets(got, 1) : \E k \in 1 .. n : where[k] = s
            /\ \A j, k \in 1 .. n : j < k => where[j] < where[k]
            /\ \A k \in 1 .. n : PacketsRead[k] = ReadingOf(PacketAt(got, where[k]))
      BY <2>0, <3>1 DEF Told
    <3> QED  BY <1>3, <3>1, <3>2
  <2>2. \A k \in 1 .. Len(readings) : readings[k].packet = ReadingOf(PacketAt(got, where[k]))  BY <1>3, <2>1
  <2>3. Packets(got, 1) = {i \in 1 .. Len(got) - PacketLen + 1 : IsPacket(PacketAt(got, i))}  BY DEF Packets
  <2> QED  BY <1>2, <2>1, <2>2, <2>3 DEF EveryPacketRead
<1>6. StableIsLevel
  <2> SUFFICES ASSUME proto = "vesar", display.stable PROVE StableIsLevel  BY DEF StableIsLevel
  <2>1. Steady  BY DEF StreamIInv, StableIsSteady
  <2> QED  BY <2>1 DEF StableIsLevel, Steady, LastAge
<1>7. ShownIsFresh  BY DEF StreamIInv
<1> QED  BY <1>4, <1>5, <1>6, <1>7 DEF StreamInv

(* However the reads cut the line, whatever noise stands in it and however *)
(* often the port fails or is switched: the assemblers and the tracker     *)
(* (PacketAssembler.feed, StabilityTracker.update) lose no packet and make *)
(* none up, a weight is called stable over a level window only, and what   *)
(* is shown as data is the last packet, cut to the discrete and fresh.     *)
THEOREM StreamInvariant == StreamSpec => []StreamInv
<1>1. StreamInit => StreamIInv  BY StreamStarts
<1>2. StreamIInv /\ [StreamNext]_streamVars => StreamIInv'  BY StreamStep
<1>3. StreamIInv => StreamInv  BY StreamShown
<1> QED  BY <1>1, <1>2, <1>3, PTL DEF StreamSpec
===============================================================================
