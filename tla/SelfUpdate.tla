------------------------------ MODULE SelfUpdate ------------------------------
(***************************************************************************)
(* The update of an agent on its weighing PC: the command handler of       *)
(* AgentUpdater, the batch file that swaps the folders of the installation *)
(* while the service is stopped, the self-check of the version that starts *)
(* and the way back.  The folders and the marker files outlive the         *)
(* processes; the handler, the batch and the service die one by one.       *)
(***************************************************************************)
EXTENDS Naturals, Sequences

Entries(s) == {s[i] : i \in DOMAIN s}

CONSTANTS
  LastVersion,  \* the versions are 1 .. LastVersion
  FirstVersion, \* the version the PC starts with; it replaced the one before it
  Broken,       \* versions that may fall on start: nssm restarts them in vain
  Held,         \* a file of an old folder may be held open: rmdir leaves it behind
  MaxMishap     \* bound: power cuts, deaths of the agent process, sessions that end

Version == 1 .. LastVersion
Absent  == 0
Junk    == LastVersion + 1          \* a folder without ves-agent.exe at its top
Folder  == 0 .. LastVersion + 1

ASSUME LastAssumption   == LastVersion \in Nat \ {0}
ASSUME FirstAssumption  == FirstVersion \in Version
ASSUME BrokenAssumption == Broken \subseteq (FirstVersion + 1) .. LastVersion
ASSUME HeldAssumption   == Held \in BOOLEAN
ASSUME BoundAssumption  == MaxMishap \in Nat

VARIABLES
  disk,   \* the installation: folders, staged archive, files of the protocol
  proc,   \* the agent process; ver Absent: none
  bat,    \* self-update.bat: the label it is at, the version it installs
  link,   \* the session with the center is up
  up,     \* what is sent to the center and not handled yet
  hist    \* history: mishaps of the batch (its power cut, a folder that could not
          \* be removed, no way back from a busy app, two updates at once),
          \* versions confirmed and taken back, versions whose news was lost

pcVars == <<disk, proc, bat, link, up, hist>>

NoContext == [from |-> Absent, to |-> Absent]
NoProcess == [ver |-> Absent, begun |-> FALSE, check |-> "idle", upd |-> "none",
              to |-> Absent, staged |-> FALSE, spawn |-> FALSE, watch |-> Absent, out |-> <<>>]
NoBatch   == [at |-> "idle", v |-> Absent]
Started(ver) == [NoProcess EXCEPT !.ver = ver]

Label == {"idle", "unpack", "stop", "clean", "out", "in", "start", "verify",
          "rstop", "rclean", "rout", "rin", "rstart"}
Report(v, outcome) == [type |-> "status", v |-> v, outcome |-> outcome]
HelloOf(v) == [type |-> "hello", v |-> v, outcome |-> "none"]

PcTypeOK ==
  /\ disk \in [app : Folder, new : Folder, old : Folder, bad : Folder,
               zip : 0 .. LastVersion, ctx : [from : 0 .. LastVersion, to : 0 .. LastVersion],
               ok : BOOLEAN, fail : BOOLEAN, rb : 0 .. LastVersion]
  /\ proc.ver \in 0 .. LastVersion /\ proc.check \in {"idle", "pending", "ok", "failed"}
  /\ proc.upd \in {"none", "hold", "prepare", "ready"} /\ proc.to \in 0 .. LastVersion
  /\ bat \in [at : Label, v : 0 .. LastVersion]
  /\ link \in BOOLEAN
  /\ link => proc.ver # Absent

PcInit ==
  /\ disk = [app |-> FirstVersion, new |-> Absent, old |-> FirstVersion - 1, bad |-> Absent, zip |-> Absent,
             ctx |-> NoContext, ok |-> FALSE, fail |-> FALSE, rb |-> Absent]
  /\ proc = [Started(FirstVersion) EXCEPT !.begun = TRUE]
  /\ bat = NoBatch
  /\ link = TRUE
  /\ up = <<>>
  /\ hist = [count |-> 0, mishaps |-> {},
             good |-> 1 .. FirstVersion, undone |-> {}, lost |-> {}]

After(mishap) == [hist EXCEPT !.mishaps = @ \cup {mishap}]

(* What an end takes with it: the reports in the outbox of the client and  *)
(* on the way in the session, the answer of a handler that did not finish, *)
(* the word of the watchdog about a batch that gave up.                    *)
Lost(h, reports, p) ==
  [h EXCEPT !.lost = @ \cup {m.v : m \in {r \in Entries(reports) : r.type = "status"}}
                       \cup IF p.upd = "none" THEN {} ELSE {p.to}]

Ends(p, h, queue) ==
  Lost([h EXCEPT !.lost = @ \cup ({p.watch} \ {Absent})], p.out \o queue, p)

(***************************************************************************)
(* The service                                                             *)
(***************************************************************************)

(* nssm start: what lies in app runs, unless it falls at once. *)
ServiceStart(app) ==
  (IF app \in Version THEN {Started(app)} ELSE {})
    \cup (IF app \in Version \ Broken THEN {} ELSE {NoProcess})

(* nssm stop, a power cut, a fall: the process and its session are gone. *)
Killed ==
  /\ link' = FALSE
  /\ up' = <<>>

(* _session: hello goes first.  The self-check has no await before its     *)
(* wait, so it has read the files when the session is there.               *)
Connect ==
  /\ proc.ver # Absent /\ proc.begun
  /\ ~link
  /\ link' = TRUE
  /\ up' = <<HelloOf(proc.ver)>>
  /\ UNCHANGED <<disk, proc, bat, hist>>

(* The end of a session cancels the command handler; what it had prepared  *)
(* is removed, the context of an update already handed to the batch too.   *)
Idle(p)      == [p EXCEPT !.upd = "none", !.to = Absent]
CleanedUp(d) == [d EXCEPT !.zip = Absent, !.new = Absent, !.ctx = NoContext]

Drop ==
  /\ link
  /\ hist.count < MaxMishap
  /\ Killed
  /\ proc' = Idle(proc)
  /\ disk' = IF proc.upd \in {"prepare", "ready"} THEN CleanedUp(disk) ELSE disk
  /\ hist' = [Lost(hist, up, proc) EXCEPT !.count = @ + 1]
  /\ UNCHANGED bat

(* _flush_outbox with a heartbeat *)
Flush ==
  /\ link
  /\ proc.out # <<>>
  /\ up' = Append(up, Head(proc.out))
  /\ proc' = [proc EXCEPT !.out = Tail(@)]
  /\ UNCHANGED <<disk, bat, link, hist>>

(***************************************************************************)
(* The command handler                                                     *)
(***************************************************************************)
Answer(v, outcome) == up' = Append(up, Report(v, outcome))

(* handle() and the head of _run: refusals, or the wait for the            *)
(* self-check of the update before.                                        *)
Receive(v) ==
  /\ link
  /\ UNCHANGED <<disk, bat, link, hist>>
  /\ \/ /\ proc.upd # "none"
        /\ Answer(v, "running")
        /\ UNCHANGED proc
     \/ /\ proc.upd = "none" /\ v = proc.ver
        /\ Answer(v, "already")
        /\ UNCHANGED proc
     \/ /\ proc.upd = "none" /\ v # proc.ver
        /\ proc' = [proc EXCEPT !.upd = "hold", !.to = v]
        /\ UNCHANGED up

(* _wait_selfcheck: refused at once after a failed check, and after 420 s. *)
HoldRefuses ==
  /\ proc.upd = "hold"
  /\ proc.check # "idle"
  /\ proc' = Idle(proc)
  /\ Answer(proc.to, "failed")
  /\ UNCHANGED <<disk, bat, link, hist>>

(* Nothing looks for a batch of an update before that has not stopped the  *)
(* service yet.                                                            *)
HoldEnds ==
  /\ proc.upd = "hold"
  /\ proc.check = "idle"
  /\ proc' = [proc EXCEPT !.upd = "prepare"]
  /\ hist' = IF proc.spawn \/ bat.at # "idle" THEN After("double") ELSE hist
  /\ UNCHANGED <<disk, bat, link, up>>

(* _extract_via_tools or, when the agent's child may not write, the        *)
(* archive left for the batch.                                             *)
Prepare ==
  /\ proc.upd = "prepare"
  /\ \/ /\ disk' = [disk EXCEPT !.new = proc.to]
        /\ proc' = [proc EXCEPT !.upd = "ready", !.staged = FALSE]
     \/ /\ disk' = [disk EXCEPT !.new = Absent, !.zip = proc.to]
        /\ proc' = [proc EXCEPT !.upd = "ready", !.staged = TRUE]
  /\ UNCHANGED <<bat, link, up, hist>>

(* A refused archive, no room, scales busy for more than ten minutes. *)
PrepareFails ==
  /\ proc.upd \in {"prepare", "ready"}
  /\ proc' = Idle(proc)
  /\ disk' = CleanedUp(disk)
  /\ Answer(proc.to, "failed")
  /\ UNCHANGED <<bat, link, hist>>

(* The scales are free: no await from here to the answer.  The old markers *)
(* go, the context is written, the batch starts two seconds later.         *)
Commit ==
  /\ proc.upd = "ready"
  /\ disk' = [disk EXCEPT !.ok = FALSE, !.fail = FALSE, !.rb = Absent,
                          !.ctx = [from |-> proc.ver, to |-> proc.to]]
  /\ proc' = [Idle(proc) EXCEPT !.spawn = TRUE, !.watch = proc.to]
  /\ Answer(proc.to, "started")
  /\ UNCHANGED <<bat, link, hist>>

(* _spawn_updater: the scheduler starts no second instance of its task. *)
Spawn ==
  /\ proc.spawn
  /\ proc' = [proc EXCEPT !.spawn = FALSE]
  /\ bat' = IF bat.at # "idle" THEN bat
            ELSE [at |-> IF proc.staged THEN "unpack" ELSE "stop", v |-> proc.watch]
  /\ UNCHANGED <<disk, link, up, hist>>

(* _watchdog: still alive a quarter of an hour after the batch began. *)
Watchdog ==
  /\ proc.watch # Absent /\ ~proc.spawn
  /\ bat.at = "idle"
  /\ proc' = [proc EXCEPT !.watch = Absent, !.out = Append(@, Report(proc.watch, "failed"))]
  /\ disk' = [disk EXCEPT !.ctx = NoContext]
  /\ UNCHANGED <<bat, link, up, hist>>

(***************************************************************************)
(* The batch file                                                          *)
(***************************************************************************)

(* move of a folder: into the folder of that name when there is one. *)
Moved(from, onto) == IF onto = Absent THEN from ELSE onto

(* rmdir /s /q: all of it, or a rest somebody holds open. *)
Removed(folder) ==
  {Absent} \cup IF folder # Absent /\ Held THEN {Junk} ELSE {}

To(label) == bat' = [bat EXCEPT !.at = label]

BatUnpack ==
  /\ bat.at = "unpack"
  /\ \/ /\ disk.zip # Absent
        /\ disk' = [disk EXCEPT !.new = disk.zip, !.zip = Absent]
        /\ To("stop")
     \/ /\ disk' = CleanedUp(disk)
        /\ bat' = NoBatch
  /\ UNCHANGED <<proc, link, up, hist>>

BatStop ==
  /\ bat.at \in {"stop", "rstop"}
  /\ To(IF bat.at = "stop" THEN "clean" ELSE "rclean")
  /\ proc' = NoProcess
  /\ Killed
  /\ hist' = Lost(hist, proc.out \o up, proc)
  /\ UNCHANGED disk

BatClean ==
  /\ bat.at = "clean"
  /\ \E old \in Removed(disk.old), bad \in Removed(disk.bad) :
       /\ disk' = [disk EXCEPT !.old = old, !.bad = bad]
       /\ hist' = IF Junk \in {old, bad} THEN After("held") ELSE hist
  /\ To("out")
  /\ UNCHANGED <<proc, link, up>>

(* app is held through six tries: the old version is started again. *)
BatSwapOut ==
  /\ bat.at = "out"
  /\ \/ /\ disk.app # Absent
        /\ disk' = [disk EXCEPT !.old = Moved(disk.app, @), !.app = Absent]
        /\ To("in")
        /\ UNCHANGED proc
     \/ /\ proc' \in ServiceStart(disk.app)
        /\ bat' = NoBatch
        /\ UNCHANGED disk
  /\ UNCHANGED <<link, up, hist>>

BatSwapIn ==
  /\ bat.at = "in"
  /\ disk' = [disk EXCEPT !.app = Moved(disk.new, @), !.new = Absent]
  /\ To(IF disk'.app \in Version THEN "start" ELSE "rstop")
  /\ UNCHANGED <<proc, link, up, hist>>

BatStart ==
  /\ bat.at = "start"
  /\ proc' \in ServiceStart(disk.app)
  /\ To("verify")
  /\ UNCHANGED <<disk, link, up, hist>>

(* Mutant: the new version answers, so it is good. *)
VersionRuns == disk.ok \/ proc.ver = bat.v

(* The mark the new version leaves when its self-check is over. *)
VerifiedByMark == disk.ok

(* Every five seconds: the ok marker first, then the fail marker; after    *)
(* six minutes neither will do.                                            *)
BatVerify ==
  /\ bat.at = "verify"
  /\ \/ /\ VerifiedByMark
        /\ disk' = [disk EXCEPT !.ok = FALSE, !.ctx = NoContext]
        /\ bat' = NoBatch
     \/ /\ ~VerifiedByMark
        /\ To("rstop")
        /\ UNCHANGED disk
  /\ UNCHANGED <<proc, link, up, hist>>

BatRollbackClean ==
  /\ bat.at = "rclean"
  /\ \E bad \in Removed(disk.bad) :
       /\ disk' = [disk EXCEPT !.ok = FALSE, !.ctx = NoContext, !.bad = bad]
       /\ hist' = IF bad = Junk THEN After("held") ELSE hist
  /\ To("rout")
  /\ UNCHANGED <<proc, link, up>>

(* :rollback_retry, with :rollback_stuck after six tries *)
BatRollbackOut ==
  /\ bat.at = "rout"
  /\ \/ /\ disk' = [disk EXCEPT !.bad = IF disk.app = Absent THEN @ ELSE Moved(disk.app, @),
                                !.app = Absent]
        /\ To("rin")
        /\ UNCHANGED <<proc, hist>>
     \/ /\ disk.app # Absent
        /\ disk' = [disk EXCEPT !.rb = bat.v]
        /\ proc' \in ServiceStart(disk.app)
        /\ bat' = NoBatch
        /\ hist' = [After("stuck") EXCEPT !.undone = @ \cup {bat.v}]
  /\ UNCHANGED <<link, up>>

(* :rollback_swap: what came back is looked at for the exe only; without   *)
(* it the failed version is put back.                                      *)
BatRollbackIn ==
  /\ bat.at = "rin"
  /\ LET app == Moved(disk.old, disk.app)
     IN disk' = IF app \in Version
                THEN [disk EXCEPT !.app = app, !.old = Absent]
                ELSE [disk EXCEPT !.app = Moved(disk.bad, app), !.old = Absent, !.bad = Absent]
  /\ hist' = [hist EXCEPT !.undone = @ \cup {bat.v}]
  /\ To("rstart")
  /\ UNCHANGED <<proc, link, up>>

BatRollbackStart ==
  /\ bat.at = "rstart"
  /\ disk' = [disk EXCEPT !.rb = bat.v]
  /\ proc' \in ServiceStart(disk.app)
  /\ bat' = NoBatch
  /\ UNCHANGED <<link, up, hist>>

(***************************************************************************)
(* The self-check of the version that starts                               *)
(***************************************************************************)

Posted(p, v, outcome) == [p EXCEPT !.begun = TRUE, !.out = Append(@, Report(v, outcome))]

(* clear_update_markers(context=True) *)
Cleared(d) == [d EXCEPT !.ok = FALSE, !.fail = FALSE, !.rb = Absent, !.ctx = NoContext]

(* UpdateSelfCheck._run up to the check itself: a rollback is told and its *)
(* traces removed; so is a swap that did not happen.                       *)
SelfCheckBegins ==
  /\ proc.ver # Absent /\ ~proc.begun
  /\ \/ /\ disk.rb # Absent
        /\ proc' = Posted(proc, disk.rb, "rolled_back")
        /\ disk' = Cleared(disk)
     \/ /\ disk.rb = Absent /\ disk.ctx = NoContext
        /\ proc' = [proc EXCEPT !.begun = TRUE]
        /\ UNCHANGED disk
     \/ /\ disk.rb = Absent /\ disk.ctx # NoContext /\ disk.ctx.to # proc.ver
        /\ proc' = Posted(proc, disk.ctx.to, "failed")
        /\ disk' = Cleared(disk)
     \/ /\ disk.rb = Absent /\ disk.ctx # NoContext /\ disk.ctx.to = proc.ver
        /\ proc' = [proc EXCEPT !.begun = TRUE, !.check = "pending"]
        /\ UNCHANGED disk
  /\ UNCHANGED <<bat, link, up, hist>>

(* The operator's page answers, the center is there, the indicator sends   *)
(* if it did before.                                                       *)
SelfCheckPasses ==
  /\ proc.check = "pending"
  /\ link
  /\ disk' = [disk EXCEPT !.ok = TRUE, !.ctx = NoContext]
  /\ proc' = [Posted(proc, proc.ver, "installed") EXCEPT !.check = "ok"]
  /\ hist' = [hist EXCEPT !.good = @ \cup {proc.ver}]
  /\ UNCHANGED <<bat, link, up>>

SelfCheckFails ==
  /\ proc.check = "pending"
  /\ disk' = [disk EXCEPT !.fail = TRUE]
  /\ proc' = [proc EXCEPT !.check = "failed"]
  /\ UNCHANGED <<bat, link, up, hist>>

(* SETTLE_S is longer than a turn of the batch's loop. *)
Settle ==
  /\ proc.check = "ok"
  /\ bat.at # "verify"
  /\ proc' = [proc EXCEPT !.check = "idle"]
  /\ UNCHANGED <<disk, bat, link, up, hist>>

(***************************************************************************)
(* Mishaps                                                                 *)
(***************************************************************************)

(* The power goes and comes: the batch is gone, the service starts. *)
PowerCut ==
  /\ hist.count < MaxMishap
  /\ hist' = [Ends(proc, hist, up) EXCEPT !.count = @ + 1,
                     !.mishaps = IF bat.at = "idle" THEN @ ELSE @ \cup {"cut"}]
  /\ bat' = NoBatch
  /\ proc' \in ServiceStart(disk.app)
  /\ Killed
  /\ UNCHANGED disk

(* The process falls and nssm starts it again; the batch goes on. *)
ProcessFalls ==
  /\ hist.count < MaxMishap
  /\ proc.ver # Absent
  /\ hist' = [Ends(proc, hist, up) EXCEPT !.count = @ + 1]
  /\ proc' \in ServiceStart(disk.app)
  /\ Killed
  /\ UNCHANGED <<disk, bat>>

Batch ==
  \/ BatUnpack \/ BatStop \/ BatClean \/ BatSwapOut \/ BatSwapIn \/ BatStart \/ BatVerify
  \/ BatRollbackClean \/ BatRollbackOut \/ BatRollbackIn \/ BatRollbackStart

AgentStep ==
  \/ Connect \/ Flush
  \/ HoldRefuses \/ HoldEnds \/ Prepare \/ PrepareFails \/ Commit \/ Spawn \/ Watchdog
  \/ SelfCheckBegins \/ SelfCheckPasses \/ SelfCheckFails \/ Settle

PcStep == Batch \/ AgentStep \/ Drop \/ PowerCut \/ ProcessFalls
===============================================================================
