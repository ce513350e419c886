------------------------------- MODULE MCCenter -------------------------------
(***************************************************************************)
(* The parts of the center that share no state with one another, in the    *)
(* models: what is said of a tare over the months, the import of tarings   *)
(* from the AIS, monitoring, the outbox of events, the notifier of the     *)
(* chat, the accounts of the panel, the lists of operators, the pause      *)
(* after failed sign-ins and the periods of the reports. A behaviour is    *)
(* one of theirs; the others stay where they begin.                        *)
(***************************************************************************)
EXTENDS TareStory, TareImport, Alerts, EventOutbox, PanelSignIn, OperatorSync, ReportPeriods, TLC

CONSTANTS
  Parts,  \* the parts a run looks at
  o1, o2, o3, p1

VARIABLE part

allVars ==
  <<part, storyVars, importVars, monitorVars, outboxVars, chatVars, accessVars, operatorVars,
    throttleVars, periodVars>>

(* Around the ends of February and May: one taring in the term again after *)
(* it was out of it.                                                       *)
SomeMoments ==
  << At(Date(2027, 2, 28), 0), At(Date(2027, 5, 28), 1), At(Date(2027, 5, 29), 0),
     At(Date(2027, 6, 1), 0) >>

(* Two tarings of one vehicle, a number twice, an object without a site, a *)
(* vehicle the center has tared too, and lines with a reason to be passed  *)
(* over.                                                                   *)
Exported(ref, object, car, at, mass) ==
  [ref |-> ref, object |-> object, car |-> car, at |-> at, mass |-> mass,
   kg |-> TRUE, completed |-> TRUE, ignored |-> FALSE]
SomeFile ==
  << Exported("t1", "kant", "car1", 10, 15), Exported("t2", "kant", "car1", 14, 15),
     Exported("t1", "kant", "car1", 10, 15), Exported("t3", "kerben", "car1", 10, 15),
     Exported("t4", "kant", "car2", 12, 16), Exported("t5", "kant", "car2", 4, 16),
     Exported("t6", "kant", NoCar, 12, 16), Exported("t7", "kant", "car2", 12, 99),
     [Exported("t8", "kant", "car2", 11, 10) EXCEPT !.completed = FALSE],
     [Exported("t9", "kant", "car2", 12, 10) EXCEPT !.ignored = TRUE],
     Exported(NoRef, "kant", "car2", 12, 16),
     [Exported("t10", "kant", "car2", 12, 16) EXCEPT !.kg = FALSE] >>

(* The AIS never told the number of the first; its clock is behind. *)
Recorded(ref, document, car, at, mass) ==
  [ref |-> ref, document |-> document, car |-> car, at |-> at, mass |-> mass, site |-> "s1"]
SomeOwn ==
  (o1 :> Recorded(NoRef, "t1", "car1", 11, 15)) @@ (o2 :> Recorded("t2", "t2", "car1", 14, 15))
  @@ (o3 :> Recorded("t4", "t4", "car2", 12, 16))

SomeSites == ("kant" :> "s1") @@ ("kerben" :> Absent)

(* A link must be silent for a while; a bad camera and waiting events tell at once. *)
SomeDelays == ("offline" :> 1) @@ ("camera" :> 0) @@ ("ais_events" :> 0)

(* Ends of short and long months, of a leap year and of the year. *)
LookDays ==
  {Ordinal(d) : d \in {Date(2027, 2, 28), Date(2027, 3, 31), Date(2027, 6, 30), Date(2028, 2, 29)}}
TypedDays ==
  {Ordinal(d) : d \in {Date(2024, 2, 29), Date(2025, 1, 1), Date(2027, 1, 1), Date(2027, 2, 1),
                       Date(2027, 2, 28), Date(2027, 3, 15), Date(2027, 3, 31), Date(2027, 6, 30),
                       Date(2027, 7, 1), Date(2028, 2, 29)}}
FirstDay == Ordinal(Date(2000, 1, 1))

CenterInit ==
  /\ part \in Parts
  /\ StoryInit /\ ImportInit /\ MonitorInit /\ OutboxInit /\ ChatInit /\ AccessInit
  /\ OperatorInit /\ ThrottleInit /\ PeriodInit

Story ==
  /\ part = "story" /\ StoryNext
  /\ UNCHANGED <<part, importVars, monitorVars, outboxVars, chatVars, accessVars,
                 operatorVars, throttleVars, periodVars>>
TheImport ==
  /\ part = "import" /\ ImportNext
  /\ UNCHANGED <<part, storyVars, monitorVars, outboxVars, chatVars, accessVars,
                 operatorVars, throttleVars, periodVars>>
Monitor ==
  /\ part = "monitor" /\ MonitorNext
  /\ UNCHANGED <<part, storyVars, importVars, outboxVars, chatVars, accessVars,
                 operatorVars, throttleVars, periodVars>>
Outbox ==
  /\ part = "outbox" /\ OutboxNext
  /\ UNCHANGED <<part, storyVars, importVars, monitorVars, chatVars, accessVars,
                 operatorVars, throttleVars, periodVars>>
Chat ==
  /\ part = "chat" /\ ChatNext
  /\ UNCHANGED <<part, storyVars, importVars, monitorVars, outboxVars, accessVars,
                 operatorVars, throttleVars, periodVars>>
Access ==
  /\ part = "access" /\ AccessNext
  /\ UNCHANGED <<part, storyVars, importVars, monitorVars, outboxVars, chatVars,
                 operatorVars, throttleVars, periodVars>>
Operators ==
  /\ part = "operators" /\ OperatorNext
  /\ UNCHANGED <<part, storyVars, importVars, monitorVars, outboxVars, chatVars,
                 accessVars, throttleVars, periodVars>>
Throttle ==
  /\ part = "throttle" /\ ThrottleNext
  /\ UNCHANGED <<part, storyVars, importVars, monitorVars, outboxVars, chatVars,
                 accessVars, operatorVars, periodVars>>
Periods ==
  /\ part = "periods" /\ PeriodNext
  /\ UNCHANGED <<part, storyVars, importVars, monitorVars, outboxVars, chatVars,
                 accessVars, operatorVars, throttleVars>>

CenterNext ==
  \/ Story \/ TheImport \/ Monitor \/ Outbox \/ Chat \/ Access
  \/ Operators \/ Throttle \/ Periods

(* The fairness of MonitorSpec and OutboxSpec, each in its own behaviours. *)
CenterFairness ==
  /\ WF_monitorVars(part = "monitor" /\ TickReads)
  /\ WF_monitorVars(part = "monitor" /\ TickChecks)
  /\ WF_monitorVars(part = "monitor" /\ MonitorTime)
  /\ WF_outboxVars(part = "outbox" /\ PublisherTurn)

CenterSpec == CenterInit /\ [][CenterNext]_allVars /\ CenterFairness
===============================================================================
