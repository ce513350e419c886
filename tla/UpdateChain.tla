------------------------------ MODULE UpdateChain ------------------------------
(***************************************************************************)
(* A release on its way to one agent: the engine of the roll-out and the   *)
(* button of the panel in the center, the session, the weighing PC, and    *)
(* the journal of the roll-out the answers and the hellos come back to.    *)
(***************************************************************************)
EXTENDS SelfUpdate, RolloutJournal

CONSTANT MaxPress   \* bound: presses of the button, none after the last attempt

ASSUME MaxPressAssumption == MaxPress \in Nat

VARIABLES
  row,      \* agent_updates of the agent
  known,    \* agents.version, of the last hello
  engine,   \* the version of the plan between _plan and _mark, _mark and send
  button,   \* the version of a press between the send and mark_commanded
  presses,
  again,    \* history: versions the engine planned although they were rolled back
  overtaken \* history: versions whose report a command, or its failure, was written over

centerVars == <<row, known, engine, button, presses, again, overtaken>>
vars == <<pcVars, centerVars>>

Target == LastVersion             \* the release of the agent's channel
NoPlan == [pc |-> "idle", v |-> Absent]

TypeOK ==
  /\ PcTypeOK
  /\ row \in [Version -> Row]
  /\ known \in Version
  /\ engine \in [pc : {"idle", "mark", "send"}, v : 0 .. LastVersion]
  /\ button \in 0 .. LastVersion
  /\ again \subseteq Version /\ overtaken \subseteq Version

Init ==
  /\ PcInit
  /\ row = [v \in Version |-> NoRow]
  /\ known = FirstVersion
  /\ engine = NoPlan
  /\ button = Absent
  /\ presses = 0
  /\ again = {}
  /\ overtaken = {}

(* The half hours of the journal: a tick of the engine, a press of the     *)
(* button and the batch of the PC are over in seconds or minutes.          *)
TimePasses(v) ==
  /\ Older(row[v]) # row[v]
  /\ engine = NoPlan /\ button = Absent
  /\ bat.at = "idle"
  /\ row' = [row EXCEPT ![v] = Older(@)]
  /\ UNCHANGED <<pcVars, known, engine, button, presses, again, overtaken>>

(* The news of a rollback is still to come: from the file, the outbox or   *)
(* the session.                                                            *)
NewsOf(v) ==
  \/ disk.rb = v \/ bat.v = v
  \/ \E m \in Entries(proc.out \o up) : m.v = v /\ m.outcome = "rolled_back"

(* RolloutService._plan *)
EnginePlan ==
  /\ engine = NoPlan
  /\ link
  /\ known < Target
  /\ \A v \in Version : Settled(row[v])
  /\ ShouldSend(row[Target])
  /\ engine' = [pc |-> "mark", v |-> Target]
  /\ again' = IF Target \in hist.undone /\ ~NewsOf(Target)
              THEN again \cup {Target} ELSE again
  /\ UNCHANGED <<pcVars, row, known, button, presses, overtaken>>

(* mark_commanded and mark_send_failed do not look at what the row has     *)
(* become meanwhile.                                                       *)
Overwrite(v, new) ==
  /\ row' = [row EXCEPT ![v] = new]
  /\ overtaken' = IF row[v].status = "rolled_back" THEN overtaken \cup {v} ELSE overtaken

(* tick: the row before the message, so that no answer overtakes it. *)
EngineMark ==
  /\ engine.pc = "mark"
  /\ Overwrite(engine.v, Commanded(row[engine.v]))
  /\ engine' = [engine EXCEPT !.pc = "send"]
  /\ UNCHANGED <<pcVars, known, button, presses, again>>

EngineSend ==
  /\ engine.pc = "send"
  /\ engine' = NoPlan
  /\ \/ Receive(engine.v) /\ UNCHANGED <<row, overtaken>>
     \/ /\ ~link
        /\ Overwrite(engine.v, SendFailed(row[engine.v]))
        /\ UNCHANGED pcVars
  /\ UNCHANGED <<known, button, presses, again>>

(* _command_update: the message first, the row after it. *)
PressSend ==
  /\ button = Absent
  /\ presses < MaxPress /\ row[Target].attempts < MaxAttempts
  /\ known < Target
  /\ Receive(Target)
  /\ button' = Target
  /\ presses' = presses + 1
  /\ UNCHANGED <<row, known, engine, again, overtaken>>

PressMark ==
  /\ button # Absent
  /\ Overwrite(button, Commanded(row[button]))
  /\ button' = Absent
  /\ UNCHANGED <<pcVars, known, engine, presses, again>>

(* A command sent before the report of the rollback came fails after it.   *)
Undoes(outcome, r) == outcome = "failed" /\ r.status = "rolled_back"

(* The handler of the connection: note_agent_hello, apply_update_status. *)
Handle ==
  /\ up # <<>>
  /\ up' = Tail(up)
  /\ LET m == Head(up)
     IN IF m.type = "hello"
        THEN /\ known' = m.v
             /\ row' = [v \in Version |-> Hello(row[v], v, m.v)]
             /\ UNCHANGED overtaken
        ELSE /\ row' = [row EXCEPT ![m.v] = Reported(@, m.outcome)]
             /\ overtaken' = IF button = m.v \/ Undoes(m.outcome, row[m.v])
                             THEN overtaken \cup {m.v} ELSE overtaken
             /\ UNCHANGED known
  /\ UNCHANGED <<disk, proc, bat, link, hist, engine, button, presses, again>>

Center == EnginePlan \/ EngineMark \/ EngineSend \/ PressSend \/ PressMark \/ Handle

(* The batch takes two seconds and more before it stops the service; the   *)
(* center is done with its row and its message by then.                    *)
CenterKeepsUp == bat.at = "stop" /\ bat' # bat => engine = NoPlan /\ button = Absent

Next ==
  \/ PcStep /\ CenterKeepsUp /\ UNCHANGED centerVars
  \/ Center
  \/ \E v \in Version : TimePasses(v)

Spec == Init /\ [][Next]_vars

-----------------------------------------------------------------------------

Only(mishaps) == hist.mishaps \subseteq mishaps

(* Whatever a batch meets, it leaves an installation that can start and a  *)
(* service that runs it; only a power cut in its middle or a folder it     *)
(* could not remove can not.                                               *)
AgentSurvives ==
  bat.at = "idle" /\ Only({"stuck", "double"}) =>
    disk.app \in Version /\ (disk.app \notin Broken => proc.ver = disk.app)

(* When no batch runs, the version in service is one that was in service   *)
(* before or passed its self-check, unless the way back was cut off.       *)
OnlyConfirmedStays ==
  bat.at = "idle" /\ Only({"double"}) => disk.app \in hist.good

(* The engine sends no version again that was rolled back, unless the news *)
(* of the rollback was lost, or a command wrote its row over the report or *)
(* failed after it.                                                        *)
RollbackIsTerminal == again \subseteq hist.lost \cup overtaken \/ "cut" \in hist.mishaps

Quiet ==
  /\ link /\ up = <<>> /\ proc.out = <<>> /\ proc.begun
  /\ proc.upd = "none" /\ proc.check = "idle" /\ proc.watch = Absent
  /\ bat.at = "idle" /\ engine = NoPlan /\ button = Absent

(* When nothing is on its way, the journal tells what the PC came to: an   *)
(* update in flight is one whose news was lost, a version installed runs   *)
(* or a newer one does, a version rolled back was taken back.              *)
JournalTellsOutcome ==
  Quiet => \A v \in Version :
    /\ row[v].status = "installed" => proc.ver >= v
    /\ row[v].status \in InFlight => v \in hist.lost \cup overtaken \/ ~Only({"held", "stuck"})
    /\ row[v].status = "rolled_back" => v \in hist.undone

(* One update of one PC, cut off anywhere once: the PC keeps a working     *)
(* version that was confirmed, a rollback is not undone, and the journal   *)
(* of the center tells the outcome.                                        *)
ChainInv ==
  TypeOK /\ AgentSurvives /\ OnlyConfirmedStays /\ RollbackIsTerminal /\ JournalTellsOutcome
===============================================================================
