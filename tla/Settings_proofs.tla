---------------------------- MODULE Settings_proofs ----------------------------
(***************************************************************************)
(* Theorems about the settings of a scale on the weighing PC               *)
(* (ScaleSettings), for any ports, edits, breaks, restarts and hung reads. *)
(***************************************************************************)
EXTENDS ScaleSettings, FiniteSetTheorems, TLAPS

-----------------------------------------------------------------------------
(***************************************************************************)
(* The inductive invariant.                                                *)
(***************************************************************************)

(* The calls of set_port under way; a break of the session leaves the one  *)
(* of its task running, so there are no more of them than breaks and the   *)
(* task that has the lock.                                                 *)
Busy == {w \in Worker : worker[w].pc # "none"}

ThreadsEnough ==
  /\ Cardinality(Busy \ {cur.by}) <= drops
  /\ cur.pc \notin {"moving", "back"} => cur.by \notin Busy
  /\ cur.pc = "none" => cur.by = 0
  /\ cur.pc # "none" => cur.by \in Worker

(* Nobody is told to move to no port at all. *)
PortsGiven ==
  /\ \A w \in Busy : worker[w].port \in Port
  /\ cur.pc # "none" => cur.set.port \in Port /\ cur.old \in Port

(* No session ends half way and no read outlives stop(). *)
Calm == may.drops = 0 /\ may.stuck = 0

(* The place of the call of set_port of the task under way. *)
Place == IF cur.by \in Busy THEN worker[cur.by].pc ELSE "none"

(* Where the driver is while the task moves it, and which ports answered.  *)
MoveInStep ==
  /\ stuck = {}
  /\ cur.pc = "none" => url \in proved
  /\ cur.pc # "none" => cur.old \in proved
  /\ cur.pc = "moving" =>
       /\ Place # "none" => worker[cur.by].port = cur.set.port
       /\ url = IF Place \in {"stop", "url"} THEN cur.old ELSE cur.set.port
  /\ cur.pc = "check" => url = cur.set.port
  /\ cur.pc = "back" =>
       /\ Place # "none" => worker[cur.by].port = cur.old
       /\ Place \notin {"stop", "url"} => url = cur.old

ReaderInStep ==
  /\ Place \in {"url", "state", "start"} => ~reader.alive
  /\ reader.port # Closed => reader.alive /\ reader.port = url
  /\ state /\ Place # "state" => url \in proved

SavedAnswered ==
  /\ Local \in proved
  /\ saved.port # None => saved.port \in proved

CalmKept == Calm => MoveInStep /\ ReaderInStep /\ SavedAnswered

SettingsIInv == TypeOK /\ ThreadsEnough /\ PortsGiven /\ CalmKept

-----------------------------------------------------------------------------
LEMMA TroublesFacts ==
  ASSUME TypeOK
  PROVE  /\ may.drops \in Nat /\ may.drops <= MaxDrop /\ may.stuck \in Nat /\ may.restarts \in Nat
         /\ drops \in Nat /\ drops <= may.drops /\ MaxDrop \in Nat
         /\ restarts \in Nat /\ restarts <= may.restarts
<1>1. may \in [drops : 0 .. MaxDrop, restarts : Nat, stuck : Nat] /\ MaxDrop \in Nat
  BY BoundAssumption DEF TypeOK
<1> QED  BY <1>1 DEF TypeOK

LEMMA WorkersFinite ==
  /\ IsFiniteSet(Worker) /\ Cardinality(Worker) = MaxDrop + 1 /\ 0 \notin Worker
  /\ \A S \in SUBSET Worker : IsFiniteSet(S) /\ Cardinality(S) \in Nat
<1>1. MaxDrop \in Nat  BY BoundAssumption
<1>2. 1 \in Int /\ MaxDrop + 1 \in Int /\ ~(1 > MaxDrop + 1)  BY <1>1
<1>3. IsFiniteSet(Worker) /\ Cardinality(Worker) = MaxDrop + 1
  <2>1. IsFiniteSet(1 .. MaxDrop + 1)
        /\ Cardinality(1 .. MaxDrop + 1) =
             IF 1 > MaxDrop + 1 THEN 0 ELSE (MaxDrop + 1) - 1 + 1
    BY <1>2, FS_Interval
  <2> QED  BY <1>1, <1>2, <2>1 DEF Worker
<1>4. 0 \notin Worker  BY DEF Worker
<1> QED  BY <1>3, <1>4, FS_Subset, FS_CardinalityType

(* A task that needs a thread of its own finds one. *)
LEMMA ThreadIsFree ==
  ASSUME TypeOK, ThreadsEnough, cur.by \notin Busy
  PROVE  FreeWorker \in Worker /\ worker[FreeWorker].pc = "none" /\ FreeWorker \notin Busy
<1>1. Busy \ {cur.by} = Busy  OBVIOUS
<1>2. Cardinality(Busy) <= drops  BY <1>1 DEF ThreadsEnough
<1>3. Busy \in SUBSET Worker  BY DEF Busy
<1>4. Busy # Worker
  <2>1. Cardinality(Busy) \in Nat /\ Cardinality(Worker) = MaxDrop + 1  BY <1>3, WorkersFinite
  <2> QED  BY <1>2, <2>1, TroublesFacts
<1>5. \E w \in Worker : worker[w].pc = "none"  BY <1>3, <1>4 DEF Busy
<1>6. FreeWorker \in Worker /\ worker[FreeWorker].pc = "none"  BY <1>5 DEF FreeWorker
<1> QED  BY <1>6 DEF Busy

LEMMA SettingsStart == Init => SettingsIInv
<1> SUFFICES ASSUME Init PROVE SettingsIInv  OBVIOUS
<1> USE DEF Init
<1>1. Nothing \in Snapshot /\ 0 \in Version /\ NotSending \in Delivery
      /\ NoTask \in [pc : {"none", "moving", "check", "back"}, set : Snapshot,
                     old : Port \cup {None}, by : {0} \cup Worker]
      /\ NoWorker \in [pc : {"none", "stop", "url", "state", "start"}, port : Port \cup {None}]
  BY BoundAssumption DEF Nothing, Snapshot, Version, NotSending, Delivery, NoTask, NoWorker
<1>2. may \in [drops : 0 .. MaxDrop, restarts : Nat, stuck : Nat]  BY BoundAssumption
<1>3. TypeOK
  <2>1. drops \in 0 .. may.drops /\ restarts \in 0 .. may.restarts  BY <1>2
  <2>2. down \in Seq(Snapshot) /\ waiting \in Seq(Snapshot)  OBVIOUS
  <2>3. reader \in [alive : BOOLEAN, port : Port \cup {Closed}]  BY DEF Closed
  <2>4. push \in [Edit -> Delivery] /\ hello \in Delivery /\ want \in Snapshot /\ edits \in Version
    BY <1>1
  <2>5. worker \in [Worker -> [pc : {"none", "stop", "url", "state", "start"}, port : Port \cup {None}]]
    BY <1>1
  <2>6. cur \in [pc : {"none", "moving", "check", "back"}, set : Snapshot,
                 old : Port \cup {None}, by : {0} \cup Worker]
    BY <1>1
  <2> QED  BY <1>1, <2>1, <2>2, <2>3, <2>4, <2>5, <2>6, PortAssumption DEF TypeOK
<1>4. Busy = {}  BY DEF Busy, NoWorker
<1>5. ThreadsEnough
  <2>1. Busy \ {cur.by} = {} /\ Cardinality({}) = 0  BY <1>4, FS_EmptySet
  <2> QED  BY <1>4, <2>1 DEF ThreadsEnough, NoTask
<1>6. PortsGiven  BY <1>4 DEF PortsGiven, NoTask
<1>7. CalmKept
  <2>1. Place = "none"  BY <1>4 DEF Place
  <2> QED  BY <2>1 DEF CalmKept, MoveInStep, ReaderInStep, SavedAnswered, NoTask, Nothing, Closed
<1> QED  BY <1>3, <1>5, <1>6, <1>7 DEF SettingsIInv

-----------------------------------------------------------------------------
(***************************************************************************)
(* The steps.                                                              *)
(***************************************************************************)

(* What the center and the client do reaches neither the task nor the      *)
(* driver.                                                                 *)
LEMMA Elsewhere ==
  ASSUME SettingsIInv, UNCHANGED <<cur, saved, driverVars, boundVars>>, TypeOK'
  PROVE  SettingsIInv'
<1>1. Busy' = Busy  BY DEF Busy, driverVars
<1>2. ThreadsEnough'  BY <1>1 DEF SettingsIInv, ThreadsEnough, boundVars
<1>3. PortsGiven'  BY <1>1 DEF SettingsIInv, PortsGiven, driverVars
<1>4. Place' = Place  BY <1>1 DEF Place, driverVars
<1>5. CalmKept'
  BY <1>4 DEF SettingsIInv, CalmKept, Calm, MoveInStep, ReaderInStep, SavedAnswered, driverVars, boundVars
<1> QED  BY <1>2, <1>3, <1>5 DEF SettingsIInv

LEMMA CenterKeeps ==
  ASSUME SettingsIInv,
         \/ \E p \in Port \cup {None} : SaveSettings(p)
         \/ CenterStep \/ Connect \/ RecvConfig
  PROVE  SettingsIInv'
<1>0. TypeOK  BY DEF SettingsIInv
<1>1. Loaded \in Delivery  BY <1>0 DEF Loaded, Delivery, TypeOK
<1>2. NotSending \in Delivery  BY BoundAssumption DEF NotSending, Delivery, Nothing, Snapshot, Version
<1>3. ASSUME NEW p \in Port \cup {None}, SaveSettings(p) PROVE SettingsIInv'
  <2>1. edits + 1 \in Version /\ edits + 1 \in Edit
    BY <1>0, <1>3, BoundAssumption DEF SaveSettings, TypeOK, Version, Edit
  <2>2. [ver |-> edits + 1, port |-> p] \in Snapshot  BY <2>1 DEF Snapshot
  <2>3. push' \in [Edit -> Delivery]
    <3>1. [push[edits + 1] EXCEPT !.pc = "load"] \in Delivery  BY <1>0, <2>1 DEF TypeOK, Delivery
    <3>2. push' = [push EXCEPT ![edits + 1] = [push[edits + 1] EXCEPT !.pc = "load"]]
      BY <1>3 DEF SaveSettings
    <3> QED  BY <1>0, <3>1, <3>2 DEF TypeOK
  <2>4. UNCHANGED <<hello, down, on, waiting, cur, saved, last, driverVars, boundVars>>
        /\ want' \in Snapshot /\ edits' \in Version
    BY <1>3, <2>1, <2>2 DEF SaveSettings, managerVars
  <2>5. TypeOK'  BY <1>0, <2>3, <2>4 DEF TypeOK, driverVars, boundVars
  <2> QED  BY <2>4, <2>5, Elsewhere
<1>4. ASSUME NEW e \in Edit, PushLoad(e) PROVE SettingsIInv'
  <2>1. push' \in [Edit -> Delivery]  BY <1>0, <1>1, <1>4 DEF PushLoad, TypeOK
  <2>2. UNCHANGED <<want, edits, hello, down, on, waiting, cur, saved, last, driverVars, boundVars>>
    BY <1>4 DEF PushLoad, managerVars
  <2>3. TypeOK'  BY <1>0, <2>1, <2>2 DEF TypeOK, driverVars, boundVars
  <2> QED  BY <2>2, <2>3, Elsewhere
<1>5. ASSUME NEW e \in Edit, PushSend(e) PROVE SettingsIInv'
  <2>1. push' \in [Edit -> Delivery]  BY <1>0, <1>2, <1>5 DEF PushSend, TypeOK
  <2>2. down' \in Seq(Snapshot)
    <3>1. push[e].set \in Snapshot  BY <1>0 DEF TypeOK, Delivery
    <3> QED  BY <1>0, <1>5, <3>1 DEF PushSend, TypeOK
  <2>3. UNCHANGED <<want, edits, hello, on, waiting, cur, saved, last, driverVars, boundVars>>
    BY <1>5 DEF PushSend, managerVars
  <2>4. TypeOK'  BY <1>0, <2>1, <2>2, <2>3 DEF TypeOK, driverVars, boundVars
  <2> QED  BY <2>3, <2>4, Elsewhere
<1>6. CASE HelloLoad
  <2>1. UNCHANGED <<want, edits, push, down, on, waiting, cur, saved, last, driverVars, boundVars>>
        /\ hello' \in Delivery
    BY <1>1, <1>6 DEF HelloLoad, managerVars
  <2>2. TypeOK'  BY <1>0, <2>1 DEF TypeOK, driverVars, boundVars
  <2> QED  BY <2>1, <2>2, Elsewhere
<1>7. CASE HelloSend
  <2>1. UNCHANGED <<want, edits, push, on, waiting, cur, saved, last, driverVars, boundVars>>
        /\ hello' \in Delivery
    BY <1>2, <1>7 DEF HelloSend, managerVars
  <2>2. down' \in Seq(Snapshot)
    <3>1. hello.set \in Snapshot  BY <1>0 DEF TypeOK, Delivery
    <3> QED  BY <1>0, <1>7, <3>1 DEF HelloSend, TypeOK
  <2>3. TypeOK'  BY <1>0, <2>1, <2>2 DEF TypeOK, driverVars, boundVars
  <2> QED  BY <2>1, <2>3, Elsewhere
<1>8. CASE Connect
  <2>1. UNCHANGED <<want, edits, push, down, waiting, cur, saved, last, driverVars, boundVars>>
        /\ on' \in BOOLEAN /\ hello' = [hello EXCEPT !.pc = "load"]
    BY <1>8 DEF Connect, managerVars
  <2>2. hello' \in Delivery  BY <1>0, <2>1 DEF TypeOK, Delivery
  <2>3. TypeOK'  BY <1>0, <2>1, <2>2 DEF TypeOK, driverVars, boundVars
  <2> QED  BY <2>1, <2>3, Elsewhere
<1>9. CASE RecvConfig
  <2>1. UNCHANGED <<want, edits, push, hello, on, cur, saved, driverVars, boundVars>>
        /\ down # <<>> /\ waiting' = Append(waiting, Head(down)) /\ last' = Head(down)
        /\ down' = Tail(down)
    BY <1>9 DEF RecvConfig
  <2>2. Head(down) \in Snapshot /\ Tail(down) \in Seq(Snapshot)  BY <1>0, <2>1 DEF TypeOK
  <2>3. waiting' \in Seq(Snapshot)  BY <1>0, <2>1, <2>2 DEF TypeOK
  <2>4. TypeOK'  BY <1>0, <2>1, <2>2, <2>3 DEF TypeOK, driverVars, boundVars
  <2> QED  BY <2>1, <2>4, Elsewhere
<1> QED  BY <1>3, <1>4, <1>5, <1>6, <1>7, <1>8, <1>9 DEF CenterStep

(* A break: the call of set_port goes on without its task. *)
LEMMA DropKeeps == ASSUME SettingsIInv, Drop PROVE SettingsIInv'
<1>0. TypeOK /\ ThreadsEnough /\ PortsGiven  BY DEF SettingsIInv
<1>1. /\ drops < may.drops /\ drops' = drops + 1
      /\ on' = FALSE /\ down' = <<>> /\ hello' = NotSending /\ waiting' = <<>> /\ cur' = NoTask
      /\ UNCHANGED <<want, edits, push, saved, last, driverVars, restarts, may>>
  BY DEF Drop, EndOfSession
<1>2. /\ NotSending \in Delivery
      /\ NoTask \in [pc : {"none", "moving", "check", "back"}, set : Snapshot,
                     old : Port \cup {None}, by : {0} \cup Worker]
  BY BoundAssumption DEF NotSending, Delivery, Nothing, Snapshot, Version, NoTask
<1>3. TypeOK'
  <2>1. drops' \in 0 .. may'.drops  BY <1>0, <1>1, TroublesFacts
  <2>2. hello' \in Delivery /\ on' \in BOOLEAN /\ down' \in Seq(Snapshot) /\ waiting' \in Seq(Snapshot)
    <3>1. <<>> \in Seq(Snapshot)  OBVIOUS
    <3> QED  BY <1>1, <1>2, <3>1
  <2> QED  BY <1>0, <1>1, <1>2, <2>1, <2>2 DEF TypeOK, driverVars
<1>4. Busy' = Busy  BY <1>1 DEF Busy, driverVars
<1>5. ThreadsEnough'
  <2>1. Busy \in SUBSET Worker  BY DEF Busy
  <2>2. IsFiniteSet(Busy \ {cur.by}) /\ IsFiniteSet(Busy)
        /\ Cardinality(Busy \ {cur.by}) \in Nat /\ Cardinality(Busy) \in Nat
    BY <2>1, WorkersFinite
  <2>3. Cardinality(Busy) <= Cardinality(Busy \ {cur.by}) + 1
    <3>1. CASE cur.by \in Busy  BY <2>2, <3>1, FS_RemoveElement
    <3>2. CASE cur.by \notin Busy
      <4>1. Busy \ {cur.by} = Busy  BY <3>2
      <4> QED  BY <2>2, <4>1
    <3> QED  BY <3>1, <3>2
  <2>4. Cardinality(Busy) <= drops + 1
    BY <1>0, <2>2, <2>3, TroublesFacts DEF ThreadsEnough
  <2>5. Busy \ {0} = Busy  BY <2>1, WorkersFinite
  <2>6. cur'.by = 0 /\ cur'.pc = "none"  BY <1>1 DEF NoTask
  <2>7. 0 \notin Busy  BY <2>1, WorkersFinite
  <2> QED  BY <1>1, <1>4, <2>4, <2>5, <2>6, <2>7 DEF ThreadsEnough
<1>6. PortsGiven'  BY <1>0, <1>1, <1>4 DEF PortsGiven, NoTask, driverVars
<1>7. CalmKept'
  <2>1. may.drops # 0  BY <1>0, <1>1, TroublesFacts
  <2> QED  BY <1>1, <2>1 DEF CalmKept, Calm
<1> QED  BY <1>3, <1>5, <1>6, <1>7 DEF SettingsIInv

LEMMA RestartKeeps == ASSUME SettingsIInv, Restart PROVE SettingsIInv'
<1>0. TypeOK  BY DEF SettingsIInv
<1>1. /\ restarts < may.restarts /\ restarts' = restarts + 1
      /\ on' = FALSE /\ down' = <<>> /\ hello' = NotSending /\ waiting' = <<>> /\ cur' = NoTask
      /\ url' = IF saved.port = None THEN Local ELSE saved.port
      /\ worker' = [w \in Worker |-> NoWorker]
      /\ reader' = [alive |-> TRUE, port |-> Closed]
      /\ stuck' = {} /\ state' = FALSE
      /\ UNCHANGED <<want, edits, push, saved, last, proved, drops, may>>
  BY DEF Restart, EndOfSession
<1>2. /\ NotSending \in Delivery
      /\ NoTask \in [pc : {"none", "moving", "check", "back"}, set : Snapshot,
                     old : Port \cup {None}, by : {0} \cup Worker]
      /\ NoWorker \in [pc : {"none", "stop", "url", "state", "start"}, port : Port \cup {None}]
  BY BoundAssumption DEF NotSending, Delivery, Nothing, Snapshot, Version, NoTask, NoWorker
<1>3. TypeOK'
  <2>1. restarts' \in 0 .. may'.restarts  BY <1>0, <1>1, TroublesFacts
  <2>2. hello' \in Delivery /\ on' \in BOOLEAN /\ down' \in Seq(Snapshot) /\ waiting' \in Seq(Snapshot)
    <3>1. <<>> \in Seq(Snapshot)  OBVIOUS
    <3> QED  BY <1>1, <1>2, <3>1
  <2>3. url' \in Port  BY <1>0, <1>1, PortAssumption DEF TypeOK, Snapshot
  <2>4. worker' \in [Worker -> [pc : {"none", "stop", "url", "state", "start"}, port : Port \cup {None}]]
        /\ reader' \in [alive : BOOLEAN, port : Port \cup {Closed}]
    BY <1>1, <1>2 DEF Closed
  <2> QED  BY <1>0, <1>1, <1>2, <2>1, <2>2, <2>3, <2>4 DEF TypeOK
<1>4. Busy' = {}  BY <1>1 DEF Busy, NoWorker
<1>5. ThreadsEnough'
  <2>1. Busy' \ {cur'.by} = {} /\ Cardinality({}) = 0  BY <1>4, FS_EmptySet
  <2> QED  BY <1>0, <1>1, <1>4, <2>1, TroublesFacts DEF ThreadsEnough, NoTask
<1>6. PortsGiven'  BY <1>1, <1>4 DEF PortsGiven, NoTask
<1>7. CalmKept'
  <2>1. Place' = "none"  BY <1>4 DEF Place
  <2>2. Calm' => Calm  BY <1>1 DEF Calm
  <2> QED  BY <1>1, <2>1, <2>2
    DEF SettingsIInv, CalmKept, MoveInStep, ReaderInStep, SavedAnswered, NoTask, Closed
<1> QED  BY <1>3, <1>5, <1>6, <1>7 DEF SettingsIInv

(* A task gives its thread a call of set_port. *)
LEMMA SetPortFacts ==
  ASSUME SettingsIInv, NEW p \in Port, SetPort(FreeWorker, p), cur.by \notin Busy,
         cur'.by = FreeWorker
  PROVE  /\ worker' \in [Worker -> [pc : {"none", "stop", "url", "state", "start"}, port : Port \cup {None}]]
         /\ Busy' = Busy \cup {FreeWorker} /\ FreeWorker \in Worker
         /\ Cardinality(Busy' \ {cur'.by}) <= drops
         /\ \A w \in Busy' : worker'[w].port \in Port
         /\ worker'[FreeWorker] = [pc |-> "stop", port |-> p]
         /\ Place' = "stop"
<1>0. TypeOK /\ ThreadsEnough /\ PortsGiven  BY DEF SettingsIInv
<1> DEFINE f == FreeWorker
<1>1. f \in Worker /\ f \notin Busy  BY <1>0, ThreadIsFree
<1>2. worker' = [worker EXCEPT ![f] = [pc |-> "stop", port |-> p]]  BY DEF SetPort
<1>3. cur'.by = f  OBVIOUS
<1> HIDE DEF f
<1>4. worker' \in [Worker -> [pc : {"none", "stop", "url", "state", "start"}, port : Port \cup {None}]]
  BY <1>0, <1>2 DEF TypeOK
<1>5. \A w \in Worker : worker'[w] = IF w = f THEN [pc |-> "stop", port |-> p] ELSE worker[w]
  BY <1>0, <1>2 DEF TypeOK
<1>6. Busy' = Busy \cup {f}  BY <1>1, <1>5 DEF Busy
<1>7. Busy' \ {cur'.by} = Busy /\ Busy \ {cur.by} = Busy  BY <1>1, <1>3, <1>6
<1>8. Cardinality(Busy' \ {cur'.by}) <= drops  BY <1>0, <1>7 DEF ThreadsEnough
<1>9. \A w \in Busy' : worker'[w].port \in Port
  BY <1>0, <1>5, <1>6 DEF PortsGiven, Busy
<1>10. Place' = "stop"  BY <1>1, <1>3, <1>5, <1>6 DEF Place
<1> QED  BY <1>1, <1>4, <1>5, <1>6, <1>8, <1>9, <1>10 DEF f

(* The task is over: it leaves no thread behind. *)
LEMMA TaskEnds ==
  ASSUME SettingsIInv, cur.by \notin Busy, cur' = NoTask,
         UNCHANGED <<want, edits, push, hello, down, on, last, driverVars, boundVars>>,
         waiting' \in Seq(Snapshot), saved' \in Snapshot,
         Calm => url \in proved /\ (saved'.port # None => saved'.port \in proved)
  PROVE  SettingsIInv'
<1>0. TypeOK /\ ThreadsEnough /\ PortsGiven  BY DEF SettingsIInv
<1>1. NoTask \in [pc : {"none", "moving", "check", "back"}, set : Snapshot,
                  old : Port \cup {None}, by : {0} \cup Worker]
  BY BoundAssumption DEF Nothing, Snapshot, Version, NoTask
<1>2. TypeOK'  BY <1>0, <1>1 DEF TypeOK, driverVars, boundVars
<1>3. Busy' = Busy /\ Busy \in SUBSET Worker  BY DEF Busy, driverVars
<1>4. cur'.by = 0 /\ cur'.pc = "none" /\ 0 \notin Busy  BY <1>3, WorkersFinite DEF NoTask
<1>5. Busy \ {cur.by} = Busy /\ Busy \ {0} = Busy  BY <1>4
<1>6. ThreadsEnough'  BY <1>0, <1>3, <1>4, <1>5 DEF ThreadsEnough, boundVars
<1>7. PortsGiven'  BY <1>0, <1>3, <1>4 DEF PortsGiven, driverVars
<1>8. CalmKept'
  <2>1. Place' = "none" /\ Place = "none"  BY <1>3, <1>4 DEF Place
  <2> QED  BY <1>4, <2>1
    DEF SettingsIInv, CalmKept, Calm, MoveInStep, ReaderInStep, SavedAnswered, driverVars, boundVars
<1> QED  BY <1>2, <1>6, <1>7, <1>8 DEF SettingsIInv

LEMMA TakeLockKeeps == ASSUME SettingsIInv, TakeLock PROVE SettingsIInv'
<1> DEFINE set == Head(waiting)
<1>0. TypeOK /\ ThreadsEnough /\ PortsGiven /\ CalmKept  BY DEF SettingsIInv
<1>1. /\ cur = NoTask /\ waiting # <<>> /\ waiting' = Tail(waiting) /\ Apply(set)
      /\ UNCHANGED <<want, edits, push, hello, down, on, last, url, reader, stuck, state, proved, boundVars>>
  BY DEF TakeLock, centerVars
<1>2. set \in Snapshot /\ waiting' \in Seq(Snapshot)  BY <1>0, <1>1 DEF TypeOK
<1>3. cur.pc = "none" /\ cur.by \notin Busy  BY <1>0, <1>1 DEF ThreadsEnough, NoTask
<1> HIDE DEF set
<1>4. CASE set.port \in {None, url}
  <2>1. saved' = set /\ cur' = NoTask /\ UNCHANGED worker  BY <1>1, <1>4 DEF Apply, Persist
  <2>2. Calm => url \in proved /\ (saved'.port # None => saved'.port \in proved)
    BY <1>0, <1>3, <1>4, <2>1 DEF CalmKept, MoveInStep
  <2> QED  BY <1>1, <1>2, <1>3, <2>1, <2>2, TaskEnds DEF driverVars
<1>5. CASE set.port \notin {None, url}
  <2>1. /\ SetPort(FreeWorker, set.port) /\ UNCHANGED saved
        /\ cur' = [pc |-> "moving", set |-> set, old |-> url, by |-> FreeWorker]
    BY <1>1, <1>5 DEF Apply
  <2>2. set.port \in Port /\ url \in Port  BY <1>0, <1>2, <1>5 DEF Snapshot, TypeOK
  <2>3. cur'.by = FreeWorker /\ cur'.pc = "moving" /\ cur'.set = set /\ cur'.old = url  BY <2>1
  <2>4. /\ worker' \in [Worker -> [pc : {"none", "stop", "url", "state", "start"}, port : Port \cup {None}]]
        /\ Busy' = Busy \cup {FreeWorker} /\ FreeWorker \in Worker
        /\ Cardinality(Busy' \ {cur'.by}) <= drops
        /\ \A w \in Busy' : worker'[w].port \in Port
        /\ worker'[FreeWorker] = [pc |-> "stop", port |-> set.port]
        /\ Place' = "stop"
    BY <1>3, <2>1, <2>2, <2>3, SetPortFacts
  <2>5. TypeOK'
    <3>1. cur' \in [pc : {"none", "moving", "check", "back"}, set : Snapshot,
                    old : Port \cup {None}, by : {0} \cup Worker]
      BY <1>2, <2>1, <2>2, <2>4
    <3> QED  BY <1>0, <1>1, <1>2, <2>1, <2>4, <3>1 DEF TypeOK, boundVars
  <2>6. ThreadsEnough'  BY <1>1, <2>3, <2>4 DEF ThreadsEnough, boundVars
  <2>7. PortsGiven'  BY <2>2, <2>3, <2>4 DEF PortsGiven
  <2>8. CalmKept'
    <3> SUFFICES ASSUME Calm PROVE MoveInStep' /\ ReaderInStep' /\ SavedAnswered'
      BY <1>1 DEF CalmKept, Calm, boundVars
    <3>1. MoveInStep /\ ReaderInStep /\ SavedAnswered /\ Place = "none"
      BY <1>0, <1>3 DEF CalmKept, Place
    <3>2. MoveInStep'  BY <1>1, <1>3, <2>3, <2>4, <3>1 DEF MoveInStep
    <3>3. ReaderInStep'  BY <1>1, <2>4, <3>1 DEF ReaderInStep, Closed
    <3>4. SavedAnswered'  BY <1>1, <2>1, <3>1 DEF SavedAnswered
    <3> QED  BY <3>2, <3>3, <3>4
  <2> QED  BY <2>5, <2>6, <2>7, <2>8 DEF SettingsIInv
<1> QED  BY <1>4, <1>5

LEMMA MovedKeeps == ASSUME SettingsIInv, Moved PROVE SettingsIInv'
<1>0. TypeOK /\ ThreadsEnough /\ PortsGiven /\ CalmKept  BY DEF SettingsIInv
<1>1. /\ cur.pc = "moving" /\ worker[cur.by].pc = "none"
      /\ cur' = [cur EXCEPT !.pc = "check"]
      /\ UNCHANGED <<want, edits, push, hello, down, on, waiting, saved, last, driverVars, boundVars>>
  BY DEF Moved, centerVars
<1>2. /\ cur' \in [pc : {"none", "moving", "check", "back"}, set : Snapshot,
                   old : Port \cup {None}, by : {0} \cup Worker]
      /\ cur'.pc = "check" /\ cur'.set = cur.set /\ cur'.old = cur.old /\ cur'.by = cur.by
  BY <1>0, <1>1 DEF TypeOK
<1>3. TypeOK'  BY <1>0, <1>1, <1>2 DEF TypeOK, driverVars, boundVars
<1>4. Busy' = Busy /\ cur.by \notin Busy  BY <1>1 DEF Busy, driverVars
<1>5. ThreadsEnough'  BY <1>0, <1>1, <1>2, <1>4 DEF ThreadsEnough, boundVars
<1>6. PortsGiven'  BY <1>0, <1>1, <1>2, <1>4 DEF PortsGiven, driverVars
<1>7. CalmKept'
  <2>1. Place = "none" /\ Place' = "none"  BY <1>2, <1>4 DEF Place
  <2> QED  BY <1>0, <1>1, <1>2, <2>1
    DEF CalmKept, Calm, MoveInStep, ReaderInStep, SavedAnswered, driverVars, boundVars
<1> QED  BY <1>3, <1>5, <1>6, <1>7 DEF SettingsIInv

LEMMA AliveKeeps == ASSUME SettingsIInv, IndicatorAlive PROVE SettingsIInv'
<1>0. TypeOK /\ ThreadsEnough /\ PortsGiven /\ CalmKept  BY DEF SettingsIInv
<1>1. /\ cur.pc = "check" /\ state /\ saved' = cur.set /\ cur' = NoTask
      /\ UNCHANGED <<want, edits, push, hello, down, on, waiting, last, driverVars, boundVars>>
  BY DEF IndicatorAlive, Persist, centerVars
<1>2. cur.by \notin Busy  BY <1>0, <1>1 DEF ThreadsEnough
<1>3. saved' \in Snapshot /\ waiting' \in Seq(Snapshot)  BY <1>0, <1>1 DEF TypeOK
<1>4. Calm => url \in proved /\ (saved'.port # None => saved'.port \in proved)
  <2>1. Place = "none"  BY <1>2 DEF Place
  <2> QED  BY <1>0, <1>1, <2>1 DEF CalmKept, MoveInStep, ReaderInStep
<1> QED  BY <1>1, <1>2, <1>3, <1>4, TaskEnds

LEMMA SilentKeeps == ASSUME SettingsIInv, IndicatorSilent PROVE SettingsIInv'
<1>0. TypeOK /\ ThreadsEnough /\ PortsGiven /\ CalmKept  BY DEF SettingsIInv
<1>1. /\ cur.pc = "check" /\ SetPort(FreeWorker, cur.old)
      /\ cur' = [cur EXCEPT !.pc = "back", !.by = FreeWorker]
      /\ UNCHANGED <<want, edits, push, hello, down, on, waiting, saved, last, url, reader, stuck,
                     state, proved, boundVars>>
  BY DEF IndicatorSilent, centerVars
<1>2. cur.by \notin Busy /\ cur.old \in Port /\ cur.set.port \in Port
  BY <1>0, <1>1 DEF ThreadsEnough, PortsGiven
<1>3. FreeWorker \in Worker  BY <1>0, <1>2, ThreadIsFree
<1>4. /\ cur' \in [pc : {"none", "moving", "check", "back"}, set : Snapshot,
                   old : Port \cup {None}, by : {0} \cup Worker]
      /\ cur'.pc = "back" /\ cur'.set = cur.set /\ cur'.old = cur.old /\ cur'.by = FreeWorker
  BY <1>0, <1>1, <1>3 DEF TypeOK
<1>5. /\ worker' \in [Worker -> [pc : {"none", "stop", "url", "state", "start"}, port : Port \cup {None}]]
      /\ Busy' = Busy \cup {FreeWorker}
      /\ Cardinality(Busy' \ {cur'.by}) <= drops
      /\ \A w \in Busy' : worker'[w].port \in Port
      /\ worker'[FreeWorker] = [pc |-> "stop", port |-> cur.old]
      /\ Place' = "stop"
  BY <1>1, <1>2, <1>4, SetPortFacts
<1>6. TypeOK'  BY <1>0, <1>1, <1>4, <1>5 DEF TypeOK, boundVars
<1>7. ThreadsEnough'  BY <1>1, <1>3, <1>4, <1>5 DEF ThreadsEnough, boundVars
<1>8. PortsGiven'  BY <1>2, <1>4, <1>5 DEF PortsGiven
<1>9. CalmKept'
  <2> SUFFICES ASSUME Calm PROVE MoveInStep' /\ ReaderInStep' /\ SavedAnswered'
    BY <1>1 DEF CalmKept, Calm, boundVars
  <2>1. MoveInStep /\ ReaderInStep /\ SavedAnswered /\ Place = "none"
    BY <1>0, <1>2 DEF CalmKept, Place
  <2>2. MoveInStep'  BY <1>1, <1>4, <1>5, <2>1 DEF MoveInStep
  <2>3. ReaderInStep'  BY <1>1, <1>5, <2>1 DEF ReaderInStep, Closed
  <2>4. SavedAnswered'  BY <1>1, <2>1 DEF SavedAnswered
  <2> QED  BY <2>2, <2>3, <2>4
<1> QED  BY <1>6, <1>7, <1>8, <1>9 DEF SettingsIInv

LEMMA RolledBackKeeps == ASSUME SettingsIInv, RolledBack PROVE SettingsIInv'
<1>0. TypeOK /\ ThreadsEnough /\ PortsGiven /\ CalmKept  BY DEF SettingsIInv
<1>1. /\ cur.pc = "back" /\ worker[cur.by].pc = "none"
      /\ saved' = [cur.set EXCEPT !.port = None] /\ cur' = NoTask
      /\ UNCHANGED <<want, edits, push, hello, down, on, waiting, last, driverVars, boundVars>>
  BY DEF RolledBack, Persist, centerVars
<1>2. cur.by \notin Busy  BY <1>1 DEF Busy
<1>3. saved' \in Snapshot /\ saved'.port = None /\ waiting' \in Seq(Snapshot)
  BY <1>0, <1>1 DEF TypeOK, Snapshot
<1>4. Calm => url \in proved
  <2>1. Place = "none"  BY <1>2 DEF Place
  <2> QED  BY <1>0, <1>1, <2>1 DEF CalmKept, MoveInStep
<1> QED  BY <1>1, <1>2, <1>3, <1>4, TaskEnds

(* With no break of a session, the thread of the task is the only one. *)
LEMMA OneThread == ASSUME SettingsIInv, Calm PROVE Busy \subseteq {cur.by}
<1>1. TypeOK /\ ThreadsEnough  BY DEF SettingsIInv
<1>2. drops = 0  BY <1>1, TroublesFacts DEF Calm
<1>3. Busy \ {cur.by} \in SUBSET Worker  BY DEF Busy
<1>4. Cardinality(Busy \ {cur.by}) = 0  BY <1>1, <1>2, <1>3, WorkersFinite DEF ThreadsEnough
<1>5. Busy \ {cur.by} = {}  BY <1>3, <1>4, WorkersFinite, FS_EmptySet
<1> QED  BY <1>5

(* A step of a thread: it goes on, or it is done. *)
LEMMA ThreadSteps ==
  ASSUME SettingsIInv, NEW w \in Worker, worker[w].pc # "none",
         NEW new \in [pc : {"none", "stop", "url", "state", "start"}, port : Port \cup {None}],
         new.port = worker[w].port \/ new.pc = "none",
         worker' = [worker EXCEPT ![w] = new],
         UNCHANGED <<cur, drops, may>>
  PROVE  /\ worker' \in [Worker -> [pc : {"none", "stop", "url", "state", "start"}, port : Port \cup {None}]]
         /\ ThreadsEnough' /\ PortsGiven'
         /\ Calm => cur.pc \in {"moving", "back"} /\ cur.by = w /\ Place = worker[w].pc
                    /\ Place' = new.pc /\ worker'[cur.by] = new
<1>0. TypeOK /\ ThreadsEnough /\ PortsGiven  BY DEF SettingsIInv
<1>1. /\ worker' \in [Worker -> [pc : {"none", "stop", "url", "state", "start"}, port : Port \cup {None}]]
      /\ \A u \in Worker : worker'[u] = IF u = w THEN new ELSE worker[u]
  BY <1>0 DEF TypeOK
<1>2. Busy' \subseteq Busy /\ (new.pc # "none" => w \in Busy') /\ w \in Busy
      /\ (new.pc = "none" => w \notin Busy')
  BY <1>1 DEF Busy
<1>3. ThreadsEnough'
  <2>1. Busy \ {cur.by} \in SUBSET Worker /\ Busy' \ {cur.by} \subseteq Busy \ {cur.by}
    BY <1>2 DEF Busy
  <2>2. Cardinality(Busy' \ {cur.by}) <= Cardinality(Busy \ {cur.by})
        /\ Cardinality(Busy' \ {cur.by}) \in Nat /\ Cardinality(Busy \ {cur.by}) \in Nat
    BY <2>1, WorkersFinite, FS_Subset
  <2>3. Cardinality(Busy' \ {cur.by}) <= drops  BY <1>0, <2>2, TroublesFacts DEF ThreadsEnough
  <2> QED  BY <1>0, <1>2, <2>3 DEF ThreadsEnough
<1>4. PortsGiven'
  <2>1. \A u \in Busy' : worker'[u].port \in Port
    <3> SUFFICES ASSUME NEW u \in Busy' PROVE worker'[u].port \in Port  OBVIOUS
    <3>1. u \in Busy /\ worker[u].port \in Port /\ u \in Worker  BY <1>0, <1>2 DEF PortsGiven, Busy
    <3>2. u = w => new.pc # "none"  BY <1>2
    <3> QED  BY <1>1, <3>1, <3>2
  <2> QED  BY <1>0, <2>1 DEF PortsGiven
<1>5. ASSUME Calm
      PROVE  cur.pc \in {"moving", "back"} /\ cur.by = w /\ Place = worker[w].pc
             /\ Place' = new.pc /\ worker'[cur.by] = new
  <2>1. cur.by = w  BY <1>2, <1>5, OneThread
  <2>2. cur.pc \in {"moving", "back"}  BY <1>0, <1>2, <2>1 DEF ThreadsEnough
  <2>3. Place = worker[w].pc  BY <1>2, <2>1 DEF Place
  <2>4. worker'[w] = new /\ cur' = cur  BY <1>1
  <2>5. Place' = new.pc
    <3>1. cur'.by = w  BY <2>1, <2>4
    <3>2. CASE new.pc = "none"  BY <1>2, <3>1, <3>2 DEF Place
    <3>3. CASE new.pc # "none"  BY <1>2, <2>4, <3>1, <3>3 DEF Place
    <3> QED  BY <3>2, <3>3
  <2> QED  BY <2>1, <2>2, <2>3, <2>4, <2>5
<1> QED  BY <1>1, <1>3, <1>4, <1>5

LEMMA ThreadKeeps == ASSUME SettingsIInv, NEW w \in Worker, WorkerStep(w) PROVE SettingsIInv'
<1>0. TypeOK /\ ThreadsEnough /\ PortsGiven /\ CalmKept  BY DEF SettingsIInv
<1>1. worker[w] \in [pc : {"none", "stop", "url", "state", "start"}, port : Port \cup {None}]
  BY <1>0 DEF TypeOK
<1>2. worker[w].pc # "none"
      /\ UNCHANGED <<want, edits, push, hello, down, on, waiting, cur, saved, last, drops, restarts, may>>
  BY DEF WorkerStep, Stop, SetUrl, ClearState, Start, centerVars, managerVars, boundVars
<1>3. worker[w].port \in Port  BY <1>0, <1>2 DEF PortsGiven, Busy
<1>4. \A pc \in {"url", "state", "start"} :
        /\ [worker[w] EXCEPT !.pc = pc] \in [pc : {"none", "stop", "url", "state", "start"}, port : Port \cup {None}]
        /\ [worker[w] EXCEPT !.pc = pc].pc = pc /\ [worker[w] EXCEPT !.pc = pc].port = worker[w].port
  BY <1>1
<1> DEFINE Kept(pc) ==
      /\ worker' \in [Worker -> [pc : {"none", "stop", "url", "state", "start"}, port : Port \cup {None}]]
      /\ ThreadsEnough' /\ PortsGiven'
      /\ Calm => cur.pc \in {"moving", "back"} /\ cur.by = w /\ Place = worker[w].pc
                 /\ Place' = pc /\ (pc # "none" => worker'[cur.by].port = worker[w].port)
<1>5. ASSUME NEW pc \in {"url", "state", "start"}, GoOn(w, pc) PROVE Kept(pc)
  <2> DEFINE new == [worker[w] EXCEPT !.pc = pc]
  <2>1. worker' = [worker EXCEPT ![w] = new]  BY <1>5 DEF GoOn
  <2>2. /\ new \in [pc : {"none", "stop", "url", "state", "start"}, port : Port \cup {None}]
        /\ new.pc = pc /\ new.port = worker[w].port
    BY <1>4
  <2> HIDE DEF new
  <2> QED  BY <1>2, <2>1, <2>2, ThreadSteps
<1>6. CASE Stop(w)
  <2>1. /\ worker[w].pc = "stop" /\ GoOn(w, "url") /\ reader' = [alive |-> FALSE, port |-> Closed]
        /\ \/ UNCHANGED stuck
           \/ /\ Cardinality(stuck) < may.stuck /\ reader.port # Closed
              /\ stuck' = stuck \cup {reader.port}
        /\ UNCHANGED <<url, state, proved>>
    BY <1>6 DEF Stop
  <2>2. Kept("url")  BY <1>5, <2>1
  <2>3. TypeOK'
    <3>1. reader' \in [alive : BOOLEAN, port : Port \cup {Closed}]  BY <2>1
    <3>2. stuck' \in SUBSET Port  BY <1>0, <2>1 DEF TypeOK
    <3> QED  BY <1>0, <1>2, <2>1, <2>2, <3>1, <3>2 DEF TypeOK
  <2>4. CalmKept'
    <3> SUFFICES ASSUME Calm PROVE MoveInStep' /\ ReaderInStep' /\ SavedAnswered'
      BY <1>2 DEF CalmKept, Calm
    <3>1. MoveInStep /\ ReaderInStep /\ SavedAnswered /\ Place = "stop" /\ Place' = "url"
          /\ cur.pc \in {"moving", "back"} /\ worker'[cur.by].port = worker[cur.by].port
      BY <1>0, <2>1, <2>2 DEF CalmKept
    <3>2. stuck' = stuck
      <4>1. stuck = {} /\ Cardinality({}) = 0 /\ may.stuck = 0
        BY <3>1, FS_EmptySet DEF MoveInStep, Calm
      <4> QED  BY <2>1, <4>1
    <3>3. MoveInStep'  BY <1>2, <2>1, <3>1, <3>2 DEF MoveInStep
    <3>4. ReaderInStep'  BY <2>1, <3>1 DEF ReaderInStep
    <3>5. SavedAnswered'  BY <1>2, <2>1, <3>1 DEF SavedAnswered
    <3> QED  BY <3>3, <3>4, <3>5
  <2> QED  BY <2>2, <2>3, <2>4 DEF SettingsIInv
<1>7. CASE SetUrl(w)
  <2>1. /\ worker[w].pc = "url" /\ GoOn(w, "state") /\ url' = worker[w].port
        /\ UNCHANGED <<reader, stuck, state, proved>>
    BY <1>7 DEF SetUrl
  <2>2. Kept("state")  BY <1>5, <2>1
  <2>3. TypeOK'  BY <1>0, <1>2, <1>3, <2>1, <2>2 DEF TypeOK
  <2>4. CalmKept'
    <3> SUFFICES ASSUME Calm PROVE MoveInStep' /\ ReaderInStep' /\ SavedAnswered'
      BY <1>2 DEF CalmKept, Calm
    <3>1. MoveInStep /\ ReaderInStep /\ SavedAnswered /\ Place = "url" /\ Place' = "state"
          /\ cur.pc \in {"moving", "back"} /\ worker'[cur.by].port = worker[cur.by].port
          /\ url' = worker[cur.by].port
      BY <1>0, <2>1, <2>2 DEF CalmKept
    <3>3. MoveInStep'  BY <1>2, <2>1, <3>1 DEF MoveInStep
    <3>4. ReaderInStep'  BY <2>1, <3>1 DEF ReaderInStep, Closed
    <3>5. SavedAnswered'  BY <1>2, <2>1, <3>1 DEF SavedAnswered
    <3> QED  BY <3>3, <3>4, <3>5
  <2> QED  BY <2>2, <2>3, <2>4 DEF SettingsIInv
<1>8. CASE ClearState(w)
  <2>1. /\ worker[w].pc = "state" /\ GoOn(w, "start") /\ state' = FALSE
        /\ UNCHANGED <<url, reader, stuck, proved>>
    BY <1>8 DEF ClearState
  <2>2. Kept("start")  BY <1>5, <2>1
  <2>3. TypeOK'  BY <1>0, <1>2, <2>1, <2>2 DEF TypeOK
  <2>4. CalmKept'
    <3> SUFFICES ASSUME Calm PROVE MoveInStep' /\ ReaderInStep' /\ SavedAnswered'
      BY <1>2 DEF CalmKept, Calm
    <3>1. MoveInStep /\ ReaderInStep /\ SavedAnswered /\ Place = "state" /\ Place' = "start"
          /\ cur.pc \in {"moving", "back"} /\ worker'[cur.by].port = worker[cur.by].port
      BY <1>0, <2>1, <2>2 DEF CalmKept
    <3>3. MoveInStep'  BY <1>2, <2>1, <3>1 DEF MoveInStep
    <3>4. ReaderInStep'  BY <2>1, <3>1 DEF ReaderInStep, Closed
    <3>5. SavedAnswered'  BY <1>2, <2>1, <3>1 DEF SavedAnswered
    <3> QED  BY <3>3, <3>4, <3>5
  <2> QED  BY <2>2, <2>3, <2>4 DEF SettingsIInv
<1>9. CASE Start(w)
  <2>1. /\ worker[w].pc = "start" /\ worker' = [worker EXCEPT ![w] = NoWorker]
        /\ reader' = IF reader.alive THEN reader ELSE [alive |-> TRUE, port |-> Closed]
        /\ UNCHANGED <<url, stuck, state, proved>>
    BY <1>9 DEF Start
  <2>2. Kept("none")
    <3>1. NoWorker \in [pc : {"none", "stop", "url", "state", "start"}, port : Port \cup {None}]
          /\ NoWorker.pc = "none"
      BY DEF NoWorker
    <3> HIDE DEF NoWorker
    <3> QED  BY <1>2, <2>1, <3>1, ThreadSteps
  <2>3. TypeOK'
    <3>1. reader' \in [alive : BOOLEAN, port : Port \cup {Closed}]  BY <1>0, <2>1 DEF TypeOK
    <3> QED  BY <1>0, <1>2, <2>1, <2>2, <3>1 DEF TypeOK
  <2>4. CalmKept'
    <3> SUFFICES ASSUME Calm PROVE MoveInStep' /\ ReaderInStep' /\ SavedAnswered'
      BY <1>2 DEF CalmKept, Calm
    <3>1. MoveInStep /\ ReaderInStep /\ SavedAnswered /\ Place = "start" /\ Place' = "none"
          /\ cur.pc \in {"moving", "back"}
      BY <1>0, <2>1, <2>2 DEF CalmKept
    <3>3. MoveInStep'  BY <1>2, <2>1, <3>1 DEF MoveInStep
    <3>4. ReaderInStep'  BY <2>1, <3>1 DEF ReaderInStep, Closed
    <3>5. SavedAnswered'  BY <1>2, <2>1, <3>1 DEF SavedAnswered
    <3> QED  BY <3>3, <3>4, <3>5
  <2> QED  BY <2>2, <2>3, <2>4 DEF SettingsIInv
<1> QED  BY <1>6, <1>7, <1>8, <1>9 DEF WorkerStep

LEMMA ReaderKeeps == ASSUME SettingsIInv, ReaderStep PROVE SettingsIInv'
<1>0. TypeOK /\ ThreadsEnough /\ PortsGiven /\ CalmKept  BY DEF SettingsIInv
<1>1. UNCHANGED <<want, edits, push, hello, down, on, waiting, cur, saved, last, url, worker,
                  drops, restarts, may>>
  BY DEF ReaderStep, OpenPort, ReadPacket, Silence, StuckReadReturns, centerVars, managerVars, boundVars
<1>2. /\ reader' \in [alive : BOOLEAN, port : Port \cup {Closed}]
      /\ stuck' \in SUBSET Port /\ state' \in BOOLEAN /\ proved' \in SUBSET Port /\ proved \subseteq proved'
      /\ Calm => /\ stuck' = {}
                 /\ reader'.alive = reader.alive
                 /\ reader'.port # Closed => reader'.alive /\ reader'.port = url
                 /\ state' => state \/ url \in proved'
  <2>0. Calm => /\ stuck = {} /\ (reader.port # Closed => reader.alive /\ reader.port = url)
    BY <1>0 DEF CalmKept, MoveInStep, ReaderInStep
  <2>1. reader \in [alive : BOOLEAN, port : Port \cup {Closed}] /\ url \in Port /\ url # Closed
        /\ stuck \in SUBSET Port /\ state \in BOOLEAN /\ proved \in SUBSET Port
    BY <1>0, NoneAssumption DEF TypeOK, Closed
  <2>2. CASE OpenPort
    <3>1. /\ reader.alive /\ reader' = [reader EXCEPT !.port = url]
          /\ UNCHANGED <<stuck, state, proved>>
      BY <2>2 DEF OpenPort
    <3> QED  BY <2>0, <2>1, <3>1
  <2>3. CASE ReadPacket
    <3>1. /\ reader.alive /\ reader.port \in Answers /\ state' = TRUE
          /\ proved' = proved \cup {reader.port} /\ UNCHANGED <<reader, stuck>>
      BY <2>3 DEF ReadPacket
    <3>2. reader.port \in Port /\ reader.port # Closed  BY <3>1, PortAssumption, NoneAssumption DEF Closed
    <3> QED  BY <2>0, <2>1, <3>1, <3>2
  <2>4. CASE Silence
    <3>1. /\ reader.alive /\ state' = FALSE /\ reader' \in {reader, [reader EXCEPT !.port = Closed]}
          /\ UNCHANGED <<stuck, proved>>
      BY <2>4 DEF Silence
    <3> QED  BY <2>0, <2>1, <3>1
  <2>5. ASSUME NEW p \in Port, StuckReadReturns(p)
        PROVE  /\ reader' = reader /\ stuck' = stuck \ {p} /\ p \in stuck /\ state' \in BOOLEAN
               /\ proved' \in {proved, proved \cup {p}}
    BY <2>5 DEF StuckReadReturns
  <2> QED  BY <2>0, <2>1, <2>2, <2>3, <2>4, <2>5 DEF ReaderStep
<1>3. TypeOK'  BY <1>0, <1>1, <1>2 DEF TypeOK
<1>4. Busy' = Busy  BY <1>1 DEF Busy
<1>5. ThreadsEnough' /\ PortsGiven'  BY <1>0, <1>1, <1>4 DEF ThreadsEnough, PortsGiven
<1>6. Place' = Place  BY <1>1, <1>4 DEF Place
<1>7. CalmKept'
  <2> SUFFICES ASSUME Calm PROVE MoveInStep' /\ ReaderInStep' /\ SavedAnswered'
    BY <1>1 DEF CalmKept, Calm
  <2>1. MoveInStep /\ ReaderInStep /\ SavedAnswered  BY <1>0 DEF CalmKept
  <2>2. MoveInStep'  BY <1>1, <1>2, <1>6, <2>1 DEF MoveInStep
  <2>3. ReaderInStep'  BY <1>1, <1>2, <1>6, <2>1 DEF ReaderInStep, Closed
  <2>4. SavedAnswered'  BY <1>1, <1>2, <2>1 DEF SavedAnswered
  <2> QED  BY <2>2, <2>3, <2>4
<1> QED  BY <1>3, <1>5, <1>7 DEF SettingsIInv

LEMMA SettingsStep == SettingsIInv /\ [Next]_vars => SettingsIInv'
<1> SUFFICES ASSUME SettingsIInv, [Next]_vars PROVE SettingsIInv'  OBVIOUS
<1>1. CASE Next
  BY <1>1, CenterKeeps, DropKeeps, TakeLockKeeps, MovedKeeps, AliveKeeps, SilentKeeps,
     RolledBackKeeps, ThreadKeeps, ReaderKeeps, RestartKeeps
  DEF Next, ManagerStep
<1>2. CASE UNCHANGED vars
  <2>1. UNCHANGED <<want, edits, push, hello, down, on, waiting, cur, saved, last, driverVars, boundVars>>
    BY <1>2 DEF vars, centerVars, managerVars
  <2>2. TypeOK'  BY <2>1 DEF SettingsIInv, TypeOK, driverVars, boundVars
  <2> QED  BY <2>1, <2>2, Elsewhere
<1> QED  BY <1>1, <1>2

(* For any ports, edits of the page, restarts and steps of the threads: as *)
(* long as no break cancels a check half way and no read outlives stop(),  *)
(* the port the agent will listen on after a restart has answered once     *)
(* (SettingsManager._apply, set_port of the driver).                       *)
THEOREM SettingsInvariant == Spec => []SettingsInv
<1>1. Init => SettingsIInv  BY SettingsStart
<1>2. SettingsIInv /\ [Next]_vars => SettingsIInv'  BY SettingsStep
<1>3. SettingsIInv => SettingsInv
  BY DEF SettingsIInv, SettingsInv, DeadPortNotKept, CalmKept, Calm, SavedAnswered
<1> QED  BY <1>1, <1>2, <1>3, PTL DEF Spec
==================
