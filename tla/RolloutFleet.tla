----------------------------- MODULE RolloutFleet -----------------------------
(***************************************************************************)
(* The roll-out over all weighing PCs: the catalogue of releases with its  *)
(* channels, edited by administrators in transactions of their own, and    *)
(* the tick of the engine, which plans from one reading of the database    *)
(* and sends item by item.  The PCs answer whatever they like.             *)
(***************************************************************************)
EXTENDS RolloutJournal, FiniteSets, FiniteSetsExt

CONSTANTS
  Release,      \* versions in the catalogue
  Station,
  Admin,
  Pilot,        \* agents of the pilot channel
  MaxInFlight,  \* RolloutService.max_in_flight
  MaxCatalogEdits,     \* bound: transactions on the catalogue
  MaxTurns    \* bound: reports and hellos of the agents

ASSUME ReleaseAssumption == Release \subseteq Nat \ {0} /\ IsFiniteSet(Release)
ASSUME PilotAssumption   == Pilot \subseteq Station /\ IsFiniteSet(Station)
ASSUME FleetBounds       == {MaxInFlight, MaxCatalogEdits, MaxTurns} \subseteq Nat

VARIABLES
  files,    \* versions whose archive lies in the directory
  chan,     \* agent_releases: the channel of a version, "gone" without a row
  edit,     \* per administrator: the transaction under way, with what it read
  updates,  \* agent_updates
  auto,     \* pairs last commanded by the engine (origin)
  saidVersion, \* agents.version
  linked,   \* hub: the agents connected
  service,     \* the engine: the items left of its plan, the one marked and not sent yet
  past      \* history and bounds

fleetVars == <<files, chan, edit, updates, auto, saidVersion, linked, service, past>>

Channel == {"pilot", "stable"}
Oldest  == 0                      \* the version before every release
NoEdit  == [kind |-> "none", v |-> 0, c |-> "none", others |-> {}]
NoItems == [left |-> {}, sending |-> {}]

FleetInit ==
  /\ files = Release
  /\ chan = [v \in Release |-> IF v = Max(Release) THEN "stable" ELSE "none"]
  /\ edit = [a \in Admin |-> NoEdit]
  /\ updates = [a \in Station |-> [v \in Release |-> NoRow]]
  /\ auto = {}
  /\ saidVersion = [a \in Station |-> Oldest]
  /\ linked = Station
  /\ service = NoItems
  /\ past = [edits |-> 0, reports |-> 0, overlap |-> FALSE, revived |-> {}]

(***************************************************************************)
(* The catalogue                                                           *)
(***************************************************************************)

(* release_catalog, channel_targets: files and rows together; of two       *)
(* versions on one channel the older is left, the last of the list.        *)
Present(c)  == {v \in Release : chan[v] = c /\ v \in files}
TargetOf(c) == IF Present(c) = {} THEN Oldest ELSE Min(Present(c))

(* target_for *)
TargetFor(a) ==
  IF a \in Pilot /\ TargetOf("pilot") # Oldest THEN TargetOf("pilot")
  ELSE TargetOf("stable")

Begin(a, new) ==
  /\ edit[a] = NoEdit
  /\ past.edits < MaxCatalogEdits
  /\ edit' = [edit EXCEPT ![a] = new]
  /\ past' = [past EXCEPT !.edits = @ + 1,
                          !.overlap = @ \/ \E b \in Admin \ {a} : edit[b] # NoEdit]

(* The versions that leave a channel when v gets it. *)
LeaveChannel(v, c) == IF c = "none" THEN {} ELSE {w \in Release \ {v} : chan[w] = c}

(* set_release_channel up to its flush: the file is there, or the version  *)
(* is only taken off its channel; a version without a row gets one.        *)
ChannelBegins(a, v, c) ==
  /\ v \in files \/ (c = "none" /\ chan[v] # "gone")
  /\ Begin(a, [kind |-> "channel", v |-> v, c |-> c, others |-> LeaveChannel(v, c)])
  /\ UNCHANGED <<files, chan, updates, auto, saidVersion, linked, service>>

(* Its commit: rows are written by their id; one that is gone meanwhile    *)
(* fails the transaction.                                                  *)
ChannelCommits(a) ==
  LET e == edit[a]
  IN /\ e.kind = "channel"
     /\ chan' = IF \E w \in e.others : chan[w] = "gone" THEN chan
                ELSE [w \in Release |-> IF w = e.v THEN e.c
                                        ELSE IF w \in e.others THEN "none" ELSE chan[w]]
     /\ edit' = [edit EXCEPT ![a] = NoEdit]
     /\ UNCHANGED <<files, updates, auto, saidVersion, linked, service, past>>

(* delete_release: not while on a channel; the file goes before the row.   *)
DeleteBegins(a, v) ==
  /\ chan[v] \in {"none", "gone"}
  /\ v \in files \/ chan[v] # "gone"
  /\ Begin(a, [NoEdit EXCEPT !.kind = "delete", !.v = v])
  /\ files' = files \ {v}
  /\ UNCHANGED <<chan, updates, auto, saidVersion, linked, service>>

DeleteCommits(a) ==
  /\ edit[a].kind = "delete"
  /\ chan' = [chan EXCEPT ![edit[a].v] = "gone"]
  /\ edit' = [edit EXCEPT ![a] = NoEdit]
  /\ UNCHANGED <<files, updates, auto, saidVersion, linked, service, past>>

(* releases_upload: a version is never written over; the row after it.     *)
Upload(a, v) ==
  /\ v \notin files
  /\ past.edits < MaxCatalogEdits
  /\ edit[a] = NoEdit
  /\ files' = files \cup {v}
  /\ chan' = IF chan[v] = "gone" THEN [chan EXCEPT ![v] = "none"] ELSE chan
  /\ past' = [past EXCEPT !.edits = @ + 1]
  /\ UNCHANGED <<edit, updates, auto, saidVersion, linked, service>>

(***************************************************************************)
(* The engine                                                              *)
(***************************************************************************)
Pair      == Station \X Release
RowOf(p)  == updates[p[1]][p[2]]
InRoom    == {p \in Pair : TakesRoom(RowOf(p))}

(* _plan: agents on the line, below their target, settled, with a row that *)
(* may be sent on; no more of them than there is room for.                 *)
Wanted ==
  {a \in linked : /\ TargetFor(a) > saidVersion[a]
                  /\ \A v \in Release : Settled(updates[a][v])
                  /\ ShouldSend(updates[a][TargetFor(a)])}

(* Mutant: what is in flight already takes no room. *)
RoomOfTick == MaxInFlight

Room == Max({0, MaxInFlight - Cardinality(InRoom)})

TickPlans ==
  /\ service = NoItems
  /\ \E agents \in SUBSET Wanted :
       /\ agents # {} /\ Cardinality(agents) = Min({Room, Cardinality(Wanted)})
       /\ service' = [NoItems EXCEPT !.left = {<<a, TargetFor(a)>> : a \in agents}]
  /\ UNCHANGED <<files, chan, edit, updates, auto, saidVersion, linked, past>>

SetRow(p, new) == updates' = [updates EXCEPT ![p[1]][p[2]] = new]

(* The agents come in no order: select(Agent) names none. *)
TickMarks ==
  /\ service.sending = {}
  /\ \E p \in service.left :
       /\ SetRow(p, Commanded(RowOf(p)))
       /\ auto' = auto \cup {p}
       /\ service' = [left |-> service.left \ {p}, sending |-> {p}]
  /\ UNCHANGED <<files, chan, edit, saidVersion, linked, past>>

TickSends ==
  /\ \E p \in service.sending :
       IF p[1] \in linked THEN UNCHANGED updates ELSE SetRow(p, SendFailed(RowOf(p)))
  /\ service' = [service EXCEPT !.sending = {}]
  /\ UNCHANGED <<files, chan, edit, auto, saidVersion, linked, past>>

(* _command_update: the send went well, the row is written after it. *)
Press(a) ==
  /\ past.reports < MaxTurns
  /\ a \in linked
  /\ TargetFor(a) > saidVersion[a]
  /\ SetRow(<<a, TargetFor(a)>>, Commanded(updates[a][TargetFor(a)]))
  /\ auto' = auto \ {<<a, TargetFor(a)>>}
  /\ past' = [past EXCEPT !.reports = @ + 1]
  /\ UNCHANGED <<files, chan, edit, saidVersion, linked, service>>

(***************************************************************************)
(* What comes from the agents                                              *)
(***************************************************************************)

(* A report on a row the engine had given up takes room again. *)
StationReports(a, v, outcome) ==
  /\ past.reports < MaxTurns
  /\ a \in linked
  /\ updates[a][v].status # "none"
  /\ LET new == Reported(updates[a][v], outcome)
     IN /\ updates' = [updates EXCEPT ![a][v] = new]
        /\ past' = [past EXCEPT !.reports = @ + 1,
             !.revived = IF TakesRoom(new) /\ ~TakesRoom(updates[a][v])
                         THEN @ \cup {<<a, v>>} ELSE @]
  /\ UNCHANGED <<files, chan, edit, auto, saidVersion, linked, service>>

(* The agent leaves, and comes back with the version it runs now: the one  *)
(* before, or one it was sent.                                             *)
Leave(a) ==
  /\ past.reports < MaxTurns
  /\ a \in linked
  /\ linked' = linked \ {a}
  /\ past' = [past EXCEPT !.reports = @ + 1]
  /\ UNCHANGED <<files, chan, edit, updates, auto, saidVersion, service>>

Comes(a, w) ==
  /\ a \notin linked
  /\ w # saidVersion[a] => w \in {v \in Release : updates[a][v].attempts > 0}
  /\ linked' = linked \cup {a}
  /\ saidVersion' = [saidVersion EXCEPT ![a] = w]
  /\ updates' = [updates EXCEPT ![a] = [v \in Release |-> Hello(@[v], v, w)]]
  /\ UNCHANGED <<files, chan, edit, auto, service, past>>

(* Half an hour over every row but those of a tick under way. *)
Later ==
  /\ service = NoItems
  /\ \E p \in Pair : Older(RowOf(p)) # RowOf(p)
  /\ updates' = [a \in Station |-> [v \in Release |-> Older(updates[a][v])]]
  /\ UNCHANGED <<files, chan, edit, auto, saidVersion, linked, service, past>>

FleetNext ==
  \/ \E a \in Admin, v \in Release :
       \/ \E c \in Channel \cup {"none"} : ChannelBegins(a, v, c)
       \/ DeleteBegins(a, v)
       \/ Upload(a, v)
  \/ \E a \in Admin : ChannelCommits(a) \/ DeleteCommits(a)
  \/ TickPlans \/ TickMarks \/ TickSends
  \/ \E a \in Station :
       \/ Press(a) \/ Leave(a)
       \/ \E v \in Release, outcome \in Outcome : StationReports(a, v, outcome)
       \/ \E w \in {saidVersion[a]} \cup Release : Comes(a, w)
  \/ Later

FleetSpec == FleetInit /\ [][FleetNext]_fleetVars

-----------------------------------------------------------------------------

(* _agent_status: the pill of an agent on the release page. *)
StatusOf(a) ==
  LET target == TargetFor(a)
      row    == updates[a][target]
  IN IF target = Oldest THEN "no_target"
     ELSE IF saidVersion[a] >= target
          THEN IF row.status = "installed" THEN "installed" ELSE "current"
     ELSE IF row.status = "none" THEN IF a \in linked THEN "pending" ELSE "offline"
     ELSE IF row.status \in InFlight /\ a \notin linked THEN "offline"
     ELSE row.status

(* agent_releases and agent_updates have the columns of their models. *)
FleetTypeOK ==
  /\ files \subseteq Release
  /\ chan \in [Release -> Channel \cup {"none", "gone"}]
  /\ updates \in [Station -> [Release -> Row]]
  /\ saidVersion \in [Station -> {Oldest} \cup Release]
  /\ linked \subseteq Station

(* max_in_flight bounds the updates the engine started, whatever agents    *)
(* report or leave in the middle of a tick; a report on an update it had   *)
(* given up may add one.                                                   *)
EngineWithinLimit ==
  Cardinality({p \in InRoom \cap auto : p \notin past.revived}) <= MaxInFlight

(* While the catalogue is edited by one administrator at a time, a channel *)
(* has one version, and the version it had kept its file.                  *)
OneVersionPerChannel ==
  ~past.overlap => \A c \in Channel :
    /\ Cardinality({v \in Release : chan[v] = c}) <= 1
    /\ {v \in Release : chan[v] = c} \subseteq files

(* What the release page says and what the engine will do agree: whoever   *)
(* "waits for the queue" is in the next plan once settled, and nobody in   *)
(* the plan is shown as having arrived, as taken back or as out of reach.  *)
PanelAgreesWithEngine ==
  \A a \in Station :
    /\ StatusOf(a) = "pending" =>
         a \in Wanted \/ \E v \in Release : ~Settled(updates[a][v])
    /\ a \in Wanted => StatusOf(a) \in {"pending", "failed", "commanded", "started"}

(* The catalogue and the queue over several PCs: the limit of the engine,  *)
(* one version of a channel, and a page that says what the engine will do. *)
FleetInv == FleetTypeOK /\ EngineWithinLimit /\ OneVersionPerChannel /\ PanelAgreesWithEngine
===============================================================================
