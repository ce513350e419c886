------------------------------ MODULE Monitoring ------------------------------
(***************************************************************************)
(* What the center knows of one weighing PC and whom it tells: the          *)
(* handlers of its connections, which keep the mark of presence and the     *)
(* last self-diagnosis; the detectors, in memory, that turn both into       *)
(* alerts and write an event at every turn.                                 *)
(***************************************************************************)
EXTENDS Naturals

CONSTANTS
  StaleAfter,      \* stale_heartbeat_s, in units of time
  Delay,           \* kind of a problem -> how long it must last to be an alert
  MaxLinks,        \* bound: connections of the agent
  MaxReports,      \* bound: heartbeats, changes of the queue of events
  MaxMishaps       \* bound: restarts of the center, failures of its database

ASSUME MonitorBounds == {StaleAfter, MaxLinks, MaxReports, MaxMishaps} \subseteq Nat
ASSUME DelayAssumption == Delay \in [{"offline", "camera", "ais_events"} -> Nat]

Problem == DOMAIN Delay
LinkNo  == 1 .. MaxLinks

VARIABLES
  handler,    \* per connection: where agents_ws is
  hubLink,    \* AgentHub._links of the scale; 0: none
  equipment,  \* AgentHub._equipment: what it says of the camera; "none"
  agentRow,   \* the agent's status and the age of last_seen_at
  aisQueue,   \* events to the AIS wait too long
  detector,   \* MonitoringService._states: the age of first_bad_at, active
  tick,       \* a pass of the detectors: the row it has read
  event,      \* monitoring_events: per kind, the severity last written since the start
  mishap      \* history and bounds

monitorVars == <<handler, hubLink, equipment, agentRow, aisQueue, detector, tick, event, mishap>>

Calm   == [age |-> 0, on |-> FALSE, active |-> FALSE]
NoTick == [at |-> "rest", online |-> FALSE]

MonitorInit ==
  /\ handler = [n \in LinkNo |-> "new"]
  /\ hubLink = 0
  /\ equipment = "none"
  /\ agentRow = [online |-> FALSE, age |-> 0]
  /\ aisQueue = FALSE
  /\ detector = [k \in Problem |-> Calm]
  /\ tick = NoTick
  /\ event = [k \in Problem |-> "none"]
  /\ mishap = [count |-> 0, reports |-> 0, lost |-> FALSE, orphans |-> {},
               late |-> FALSE, camera |-> "none"]

MonitorMishap == mishap.count < MaxMishaps

(* set_agent_status: the mark and last_seen_at. *)
RowSays(online) == agentRow' = [online |-> online, age |-> 0]

(***************************************************************************)
(* Connections                                                             *)
(***************************************************************************)

(* attach: the new connection takes the place of the old one at once.      *)
LinkAttaches(n) ==
  /\ handler[n] = "new" /\ \A m \in 1 .. n - 1 : handler[m] # "new"
  /\ handler' = [handler EXCEPT ![n] = "attached"]
  /\ hubLink' = n
  /\ UNCHANGED <<equipment, agentRow, aisQueue, detector, tick, event, mishap>>

(* The mark of presence, before the try: a failure of the database there   *)
(* ends the handler with nobody to detach its link.                        *)
LinkMarks(n) ==
  /\ handler[n] = "attached"
  /\ \/ /\ handler' = [handler EXCEPT ![n] = "serving"]
        /\ RowSays(TRUE)
        /\ UNCHANGED mishap
     \/ /\ MonitorMishap
        /\ handler' = [handler EXCEPT ![n] = "ended"]
        /\ mishap' = [mishap EXCEPT !.count = @ + 1, !.orphans = @ \cup {n}]
        /\ UNCHANGED agentRow
  /\ UNCHANGED <<hubLink, equipment, aisQueue, detector, tick, event>>

(* hello and heartbeat, of whichever connection still has a handler.       *)
LinkReports(n) ==
  /\ handler[n] = "serving"
  /\ mishap.reports < MaxReports
  /\ \E camera \in {"ok", "bad", "absent"} :
       /\ equipment' = camera
       /\ mishap' = [mishap EXCEPT !.reports = @ + 1, !.camera = camera,
                                   !.late = @ \/ n # hubLink]
  /\ RowSays(TRUE)
  /\ UNCHANGED <<handler, hubLink, aisQueue, detector, tick, event>>

Detached == hubLink' = 0 /\ equipment' = "none" /\ RowSays(FALSE)

Replaced == UNCHANGED <<hubLink, equipment, agentRow>>

(* detach, then OFFLINE without an await: only for the link in use.        *)
LinkEnds(n) ==
  /\ handler[n] = "serving"
  /\ handler' = [handler EXCEPT ![n] = "ended"]
  /\ IF hubLink = n THEN Detached ELSE Replaced
  /\ UNCHANGED <<aisQueue, detector, tick, event, mishap>>

(***************************************************************************)
(* Detectors                                                               *)
(***************************************************************************)
(* Mutant: the mark of the row is believed, however old. *)
MarkedOnline == agentRow.online

AgentOnline == agentRow.online /\ agentRow.age <= StaleAfter

(* An event that repeats the one before it would tell the same turn twice. *)
Written(k, severity) == IF event[k] = severity THEN "repeated" ELSE severity

(* Mutant: the end of a problem writes no event. *)
TransitionInSilence(k, bad) ==
  LET old == detector[k]
      now == IF old.on THEN old ELSE [Calm EXCEPT !.on = TRUE]
  IN IF ~bad THEN [state |-> Calm, told |-> event[k]]
     ELSE IF ~now.active /\ now.age >= Delay[k]
     THEN [state |-> [now EXCEPT !.active = TRUE], told |-> Written(k, "problem")]
     ELSE [state |-> now, told |-> event[k]]

(* _transition: the memory of the detector and what is written.            *)
Transition(k, bad) ==
  LET old == detector[k]
      now == IF old.on THEN old ELSE [Calm EXCEPT !.on = TRUE]
  IN IF ~bad THEN [state |-> Calm, told |-> IF old.active THEN Written(k, "ok") ELSE event[k]]
     ELSE IF ~now.active /\ now.age >= Delay[k]
     THEN [state |-> [now EXCEPT !.active = TRUE], told |-> Written(k, "problem")]
     ELSE [state |-> now, told |-> event[k]]

Frozen(k) == [state |-> detector[k], told |-> event[k]]

TickReads ==
  /\ tick.at = "rest"
  /\ tick' = [at |-> "check", online |-> AgentOnline]
  /\ UNCHANGED <<handler, hubLink, equipment, agentRow, aisQueue, detector, event, mishap>>

(* Without a link or a word of the agent the camera's state is not known.  *)
(* "camera" stands for each detector the self-diagnosis feeds (no data,    *)
(* the queues of records and photos, the disk): they share both branches.  *)
CameraChecked ==
  IF ~tick.online \/ equipment \in {"none", "absent"} THEN Frozen("camera")
  ELSE Transition("camera", equipment = "bad")

(* _check_scale with the row read before and the equipment of now; then    *)
(* one commit of all events, after the memory has changed.                 *)
Checked ==
  [k \in Problem |->
     CASE k = "offline"    -> Transition(k, ~tick.online)
       [] k = "camera"     -> CameraChecked
       [] k = "ais_events" -> Transition(k, aisQueue)]

TickChecks ==
  /\ tick.at = "check"
  /\ tick' = NoTick
  /\ detector' = [k \in Problem |-> Checked[k].state]
  /\ LET told == [k \in Problem |-> Checked[k].told]
     IN \/ event' = told /\ UNCHANGED mishap
        \/ /\ told # event /\ MonitorMishap
           /\ mishap' = [mishap EXCEPT !.count = @ + 1, !.lost = TRUE]
           /\ UNCHANGED event
  /\ UNCHANGED <<handler, hubLink, equipment, agentRow, aisQueue>>

(***************************************************************************)
(* Time, the queue of the AIS, the center                                  *)
(***************************************************************************)

Aged(age, top) == IF age < top THEN age + 1 ELSE age

MonitorTime ==
  /\ agentRow' = [agentRow EXCEPT !.age = Aged(@, StaleAfter + 1)]
  /\ detector' = [k \in Problem |-> [detector[k] EXCEPT
                    !.age = IF detector[k].on THEN Aged(@, Delay[k]) ELSE 0]]
  /\ <<agentRow', detector'>> # <<agentRow, detector>>
  /\ UNCHANGED <<handler, hubLink, equipment, aisQueue, tick, event, mishap>>

AisQueueTurns ==
  /\ mishap.reports < MaxReports
  /\ mishap' = [mishap EXCEPT !.reports = @ + 1]
  /\ aisQueue' = ~aisQueue
  /\ UNCHANGED <<handler, hubLink, equipment, agentRow, detector, tick, event>>

(* The table stays; what was written before the start tells nothing now.   *)
CenterRestarts ==
  /\ MonitorMishap
  /\ mishap' = [mishap EXCEPT !.count = @ + 1, !.lost = FALSE, !.orphans = {}]
  /\ handler' = [n \in LinkNo |-> IF handler[n] = "new" THEN "new" ELSE "ended"]
  /\ hubLink' = 0 /\ equipment' = "none"
  /\ detector' = [k \in Problem |-> Calm]
  /\ event' = [k \in Problem |-> "none"]
  /\ tick' = NoTick
  /\ UNCHANGED <<agentRow, aisQueue>>

MonitorNext ==
  \/ \E n \in LinkNo : LinkAttaches(n) \/ LinkMarks(n) \/ LinkReports(n) \/ LinkEnds(n)
  \/ TickReads \/ TickChecks
  \/ MonitorTime \/ AisQueueTurns \/ CenterRestarts

(* The passes of the detectors and time go on. *)
MonitorSpec ==
  /\ MonitorInit /\ [][MonitorNext]_monitorVars
  /\ WF_monitorVars(TickReads) /\ WF_monitorVars(TickChecks) /\ WF_monitorVars(MonitorTime)

-----------------------------------------------------------------------------
(* The rows and memories have the shapes monitoring.py and hub.py give them. *)
MonitorTypeOK ==
  /\ handler \in [LinkNo -> {"new", "attached", "serving", "ended"}]
  /\ hubLink \in {0} \cup LinkNo
  /\ agentRow \in [online : BOOLEAN, age : 0 .. StaleAfter + 1]
  /\ \A k \in Problem : detector[k].age <= Delay[k] /\ (detector[k].active => detector[k].on)

(* An alert on the dashboard is one whose problem was the last event        *)
(* written of its kind since the start, and the other way round: no alert   *)
(* without its event, no recovery untold or told twice, whatever comes      *)
(* between the reading of the row and the check.  The exception is a commit *)
(* that failed after the memory had changed.                                *)
AlertsMatchEvents ==
  mishap.lost \/ \A k \in Problem :
    event[k] # "repeated" /\ (detector[k].active <=> event[k] = "problem")

(* The hub keeps the link of a handler that lives, and the agent of a       *)
(* handler that serves is online; the exception is a handler that failed    *)
(* before its try.                                                          *)
LinkHasHandler ==
  /\ hubLink # 0 => handler[hubLink] \in {"attached", "serving"} \/ hubLink \in mishap.orphans
  /\ hubLink # 0 /\ handler[hubLink] = "serving" => agentRow.online

(* The self-diagnosis shown is of an agent in touch, unless a replaced      *)
(* connection still had something to say.                                   *)
EquipmentOfLink == equipment # "none" => hubLink # 0 \/ mishap.late

(* The alert of a camera closes only on a report that it works.             *)
RecoveryHasEvidence ==
  [][detector["camera"].active /\ ~detector'["camera"].active
       => mishap.camera = "ok" \/ event'["camera"] = "none"]_monitorVars

(* An agent that stays silent comes to an alert, whatever handlers and      *)
(* links are left of it.                                                    *)
SilenceIsTold ==
  agentRow.age > StaleAfter ~> detector["offline"].active \/ agentRow.age <= StaleAfter

(* Links, the rows of the agents and the alerts about them agree.          *)
MonitorInv == MonitorTypeOK /\ AlertsMatchEvents /\ LinkHasHandler /\ EquipmentOfLink

(* What monitoring tells over time: silence comes to an alert, a recovery  *)
(* to be told has been seen.                                               *)
MonitorTells == RecoveryHasEvidence /\ SilenceIsTold
===============================================================================
