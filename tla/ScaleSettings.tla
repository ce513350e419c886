---------------------------- MODULE ScaleSettings ----------------------------
(***************************************************************************)
(* The settings of a scale from the page of the panel to the weighing PC:  *)
(* the pushes of the center, SettingsManager with its check of the COM     *)
(* port, the threads of the serial driver.                                 *)
(*                                                                         *)
(* A snapshot of settings is its version and the port in it; cycle,        *)
(* cameras and the rest are applied with the version.                      *)
(***************************************************************************)
EXTENDS Naturals, Sequences, FiniteSets

CONSTANTS
  Port,        \* COM ports of the weighing PC
  Local,       \* the port of config.toml
  Answers,     \* the ports an indicator answers on
  MaxEdit,     \* bound: saves of the settings page
  MaxDrop,     \* bound: sessions that end
  Troubles,    \* bounds: what may go wrong in a behaviour is one of these
  None

ASSUME PortAssumption  == Local \in Port /\ Answers \subseteq Port
ASSUME NoneAssumption  == None \notin Port
ASSUME BoundAssumption ==
  /\ {MaxEdit, MaxDrop} \subseteq Nat
  /\ Troubles \subseteq [drops : 0 .. MaxDrop, restarts : Nat, stuck : Nat]

Version  == 0 .. MaxEdit
Snapshot == [ver : Version, port : Port \cup {None}]
Edit     == 1 .. MaxEdit
Worker   == 1 .. MaxDrop + 1

VARIABLES
  (* the center *)
  want,      \* the settings of the scale in the database; ver 0: nothing set
  edits,
  push,      \* _push_scale_config of an edit
  hello,     \* send_scale_config of the handler after hello
  down,      \* what is sent and not yet received
  (* the agent client and SettingsManager *)
  on,        \* a session is up
  waiting,   \* request tasks that wait for the lock of SettingsManager
  cur,       \* the one that has it
  saved,     \* scale_settings in SQLite
  last,      \* the last snapshot received in a session (history)
  (* the driver *)
  url,       \* _port_url
  worker,    \* set_port calls in threads
  reader,    \* the thread in _run: the port it has open
  stuck,     \* ports of readers stop() did not wait for
  state,     \* state.status is OK
  proved,    \* ports a packet came from, and the one of config.toml (history)
  drops, restarts,
  may        \* how many sessions may end, restarts come and reads of a port hang
             \* past the join of stop()

centerVars  == <<want, edits, push, hello, down>>
managerVars == <<waiting, cur, saved, last>>
driverVars  == <<url, worker, reader, stuck, state, proved>>
boundVars   == <<drops, restarts, may>>
vars == <<centerVars, on, managerVars, driverVars, boundVars>>

Nothing   == [ver |-> 0, port |-> None]
Delivery  == [pc : {"none", "load", "send"}, set : Snapshot]
NotSending == [pc |-> "none", set |-> Nothing]
NoTask    == [pc |-> "none", set |-> Nothing, old |-> None, by |-> 0]
NoWorker  == [pc |-> "none", port |-> None]
Closed    == None

TypeOK ==
  /\ want \in Snapshot /\ edits \in Version
  /\ push \in [Edit -> Delivery] /\ hello \in Delivery
  /\ down \in Seq(Snapshot)
  /\ on \in BOOLEAN
  /\ waiting \in Seq(Snapshot)
  /\ cur \in [pc : {"none", "moving", "check", "back"}, set : Snapshot,
              old : Port \cup {None}, by : {0} \cup Worker]
  /\ saved \in Snapshot /\ last \in Snapshot
  /\ url \in Port
  /\ worker \in [Worker -> [pc : {"none", "stop", "url", "state", "start"}, port : Port \cup {None}]]
  /\ reader \in [alive : BOOLEAN, port : Port \cup {Closed}]
  /\ stuck \in SUBSET Port
  /\ state \in BOOLEAN
  /\ proved \in SUBSET Port
  /\ may \in Troubles
  /\ drops \in 0 .. may.drops /\ restarts \in 0 .. may.restarts

Init ==
  /\ want = Nothing /\ edits = 0
  /\ push = [e \in Edit |-> NotSending]
  /\ hello = NotSending
  /\ down = <<>>
  /\ on = FALSE
  /\ waiting = <<>> /\ cur = NoTask
  /\ saved = Nothing /\ last = Nothing
  /\ url = Local
  /\ worker = [w \in Worker |-> NoWorker]
  /\ reader = [alive |-> TRUE, port |-> Closed]
  /\ stuck = {} /\ state = FALSE
  /\ proved = {Local}
  /\ drops = 0 /\ restarts = 0 /\ may \in Troubles

(***************************************************************************)
(* The center.                                                             *)
(***************************************************************************)
SaveSettings(p) ==
  /\ edits < MaxEdit
  /\ edits' = edits + 1
  /\ want' = [ver |-> edits + 1, port |-> p]
  /\ push' = [push EXCEPT ![edits + 1].pc = "load"]
  /\ UNCHANGED <<hello, down, on, managerVars, driverVars, boundVars>>

Loaded == [pc |-> IF want = Nothing THEN "none" ELSE "send", set |-> want]

(* _push_scale_config: the settings are read, then other reads are awaited *)
(* and then they are sent, if the PC is connected by then.                 *)
PushLoad(e) ==
  /\ push[e].pc = "load"
  /\ push' = [push EXCEPT ![e] = Loaded]
  /\ UNCHANGED <<want, edits, hello, down, on, managerVars, driverVars, boundVars>>

PushSend(e) ==
  /\ push[e].pc = "send"
  /\ push' = [push EXCEPT ![e] = NotSending]
  /\ down' = IF on THEN Append(down, push[e].set) ELSE down
  /\ UNCHANGED <<want, edits, hello, on, managerVars, driverVars, boundVars>>

HelloLoad ==
  /\ hello.pc = "load"
  /\ hello' = Loaded
  /\ UNCHANGED <<want, edits, push, down, on, managerVars, driverVars, boundVars>>

HelloSend ==
  /\ hello.pc = "send"
  /\ hello' = NotSending
  /\ down' = Append(down, hello.set)
  /\ UNCHANGED <<want, edits, push, on, managerVars, driverVars, boundVars>>

(***************************************************************************)
(* The client of the agent.                                                *)
(***************************************************************************)
Connect ==
  /\ ~on
  /\ on' = TRUE
  /\ hello' = [hello EXCEPT !.pc = "load"]
  /\ UNCHANGED <<want, edits, push, down, managerVars, driverVars, boundVars>>

(* The request tasks are cancelled wherever they await; a set_port that a  *)
(* thread is in the middle of goes on.                                     *)
EndOfSession ==
  /\ on' = FALSE
  /\ down' = <<>>
  /\ hello' = NotSending
  /\ waiting' = <<>> /\ cur' = NoTask

Drop ==
  /\ on /\ drops < may.drops
  /\ drops' = drops + 1
  /\ EndOfSession
  /\ UNCHANGED <<want, edits, push, saved, last, driverVars, restarts, may>>

RecvConfig ==
  /\ on /\ down # <<>>
  /\ waiting' = Append(waiting, Head(down))
  /\ last' = Head(down)
  /\ down' = Tail(down)
  /\ UNCHANGED <<want, edits, push, hello, on, cur, saved, driverVars, boundVars>>

(***************************************************************************)
(* SettingsManager.                                                        *)
(***************************************************************************)
Persist(set) == saved' = set

(* asyncio.to_thread(set_port, p), by the thread w. *)
FreeWorker == CHOOSE w \in Worker : worker[w].pc = "none"
SetPort(w, p) == worker' = [worker EXCEPT ![w] = [pc |-> "stop", port |-> p]]

(* _apply up to its first await: without a port, or with the one the       *)
(* driver has already, it is all there is.                                 *)
Apply(set) ==
  IF set.port \in {None, url}
  THEN /\ Persist(set)
       /\ cur' = NoTask
       /\ UNCHANGED worker
  ELSE /\ SetPort(FreeWorker, set.port)
       /\ cur' = [pc |-> "moving", set |-> set, old |-> url, by |-> FreeWorker]
       /\ UNCHANGED saved

(* Mutant: any of the waiting tasks. *)
TakeLockAnyOrder ==
  /\ cur = NoTask /\ waiting # <<>>
  /\ \E i \in 1 .. Len(waiting) :
       /\ Apply(waiting[i])
       /\ waiting' = SubSeq(waiting, 1, i - 1) \o SubSeq(waiting, i + 1, Len(waiting))
  /\ UNCHANGED <<centerVars, on, last, url, reader, stuck, state, proved, boundVars>>

(* The lock of SettingsManager lets the tasks in by order of arrival. *)
TakeLock ==
  /\ cur = NoTask /\ waiting # <<>>
  /\ Apply(Head(waiting))
  /\ waiting' = Tail(waiting)
  /\ UNCHANGED <<centerVars, on, last, url, reader, stuck, state, proved, boundVars>>

Moved ==
  /\ cur.pc = "moving" /\ worker[cur.by].pc = "none"
  /\ cur' = [cur EXCEPT !.pc = "check"]
  /\ UNCHANGED <<centerVars, on, waiting, saved, last, driverVars, boundVars>>

IndicatorAlive ==
  /\ cur.pc = "check" /\ state
  /\ Persist(cur.set)
  /\ cur' = NoTask
  /\ UNCHANGED <<centerVars, on, waiting, last, driverVars, boundVars>>

(* PORT_CHECK_TIMEOUT_S went by: back to the old port. *)
IndicatorSilent ==
  /\ cur.pc = "check"
  /\ SetPort(FreeWorker, cur.old)
  /\ cur' = [cur EXCEPT !.pc = "back", !.by = FreeWorker]
  /\ UNCHANGED <<centerVars, on, waiting, saved, last, url, reader, stuck, state, proved, boundVars>>

(* Mutant: the snapshot is saved with the port that was rolled back. *)
RolledBackKeepsPort ==
  /\ cur.pc = "back" /\ worker[cur.by].pc = "none"
  /\ Persist(cur.set)
  /\ cur' = NoTask
  /\ UNCHANGED <<centerVars, on, waiting, last, driverVars, boundVars>>

(* A port that failed is not saved. *)
RolledBack ==
  /\ cur.pc = "back" /\ worker[cur.by].pc = "none"
  /\ Persist([cur.set EXCEPT !.port = None])
  /\ cur' = NoTask
  /\ UNCHANGED <<centerVars, on, waiting, last, driverVars, boundVars>>

(***************************************************************************)
(* The driver: the steps of set_port and the thread that reads.            *)
(***************************************************************************)
GoOn(w, pc) == worker' = [worker EXCEPT ![w].pc = pc]

(* stop(): the event is set and the thread waited for, 5 seconds at most.  *)
Stop(w) ==
  /\ worker[w].pc = "stop"
  /\ GoOn(w, "url")
  /\ reader' = [alive |-> FALSE, port |-> Closed]
  /\ \/ UNCHANGED stuck
     \/ Cardinality(stuck) < may.stuck /\ reader.port # Closed /\ stuck' = stuck \cup {reader.port}
  /\ UNCHANGED <<centerVars, on, managerVars, url, state, proved, boundVars>>

SetUrl(w) ==
  /\ worker[w].pc = "url"
  /\ GoOn(w, "state")
  /\ url' = worker[w].port
  /\ UNCHANGED <<centerVars, on, managerVars, reader, stuck, state, proved, boundVars>>

ClearState(w) ==
  /\ worker[w].pc = "state"
  /\ GoOn(w, "start")
  /\ state' = FALSE
  /\ UNCHANGED <<centerVars, on, managerVars, url, reader, stuck, proved, boundVars>>

(* start(): nothing if a thread runs that was not told to stop. *)
Start(w) ==
  /\ worker[w].pc = "start"
  /\ worker' = [worker EXCEPT ![w] = NoWorker]
  /\ reader' = IF reader.alive THEN reader ELSE [alive |-> TRUE, port |-> Closed]
  /\ UNCHANGED <<centerVars, on, managerVars, url, stuck, state, proved, boundVars>>

OpenPort ==
  /\ reader.alive /\ reader.port = Closed
  /\ reader' = [reader EXCEPT !.port = url]
  /\ UNCHANGED <<centerVars, on, managerVars, url, worker, stuck, state, proved, boundVars>>

ReadPacket ==
  /\ reader.alive /\ reader.port \in Answers
  /\ state' = TRUE
  /\ proved' = proved \cup {reader.port}
  /\ UNCHANGED <<centerVars, on, managerVars, url, worker, reader, stuck, boundVars>>

(* No data for a while, or an error of the port, which is then reopened. *)
Silence ==
  /\ reader.alive /\ reader.port # Closed
  /\ state' = FALSE
  /\ reader' \in {reader, [reader EXCEPT !.port = Closed]}
  /\ UNCHANGED <<centerVars, on, managerVars, url, worker, stuck, proved, boundVars>>

(* A stuck read comes back: the packet is applied before the event is seen. *)
StuckReadReturns(p) ==
  /\ p \in stuck
  /\ stuck' = stuck \ {p}
  /\ \/ p \in Answers /\ state' = TRUE /\ proved' = proved \cup {p}
     \/ state' = FALSE /\ UNCHANGED proved
  /\ UNCHANGED <<centerVars, on, managerVars, url, worker, reader, boundVars>>

(* The service starts on the local settings under the saved snapshot.      *)
(* A session still up ends with it.                                        *)
Restart ==
  /\ restarts < may.restarts
  /\ restarts' = restarts + 1
  /\ EndOfSession
  /\ url' = IF saved.port = None THEN Local ELSE saved.port
  /\ worker' = [w \in Worker |-> NoWorker]
  /\ reader' = [alive |-> TRUE, port |-> Closed]
  /\ stuck' = {} /\ state' = FALSE
  /\ UNCHANGED <<want, edits, push, saved, last, proved, drops, may>>

-----------------------------------------------------------------------------
CenterStep  == (\E e \in Edit : PushLoad(e) \/ PushSend(e)) \/ HelloLoad \/ HelloSend
ManagerStep == TakeLock \/ Moved \/ IndicatorAlive \/ IndicatorSilent \/ RolledBack
WorkerStep(w) == Stop(w) \/ SetUrl(w) \/ ClearState(w) \/ Start(w)
ReaderStep  == OpenPort \/ ReadPacket \/ Silence \/ (\E p \in Port : StuckReadReturns(p))

Next ==
  \/ \E p \in Port \cup {None} : SaveSettings(p)
  \/ CenterStep \/ Connect \/ Drop \/ RecvConfig \/ ManagerStep
  \/ \E w \in Worker : WorkerStep(w)
  \/ ReaderStep \/ Restart

(* Both event loops and the threads of set_port run, the client reconnects *)
(* for ever. The indicator owes nothing.                                   *)
Fairness ==
  /\ \A e \in Edit : WF_vars(PushLoad(e) \/ PushSend(e))
  /\ WF_vars(HelloLoad \/ HelloSend)
  /\ WF_vars(Connect) /\ WF_vars(RecvConfig)
  /\ WF_vars(TakeLock \/ Moved \/ IndicatorSilent \/ RolledBack)
  /\ \A w \in Worker : WF_vars(WorkerStep(w))

Spec     == Init /\ [][Next]_vars
FairSpec == Spec /\ Fairness

-----------------------------------------------------------------------------
(***************************************************************************)
(* Properties.                                                             *)
(***************************************************************************)

(* A port that the next start will listen on has answered once, or is the  *)
(* one of config.toml ("a port that failed is not saved: after a restart   *)
(* the agent must not listen on a dead port again", SettingsManager) - as  *)
(* long as no break of the session cancels a check half way and no read    *)
(* outlives stop().                                                        *)
DeadPortNotKept ==
  may.drops = 0 /\ may.stuck = 0 /\ saved.port # None => saved.port \in proved

(* Of two snapshots received the later is the one that stays, however long *)
(* the port check of the first takes: the lock is fair, and a break that   *)
(* cancels both is followed by a hello that brings them again.             *)
LastReceivedStays == <>[](saved.ver = last.ver)

(* The settings of the PC through the port check: well typed, and no start *)
(* listens on a port that never answered.                                  *)
SettingsInv == TypeOK /\ DeadPortNotKept
=============================================================================
