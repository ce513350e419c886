---------------------------- MODULE WeighDelivery ----------------------------
(***************************************************************************)
(* The path of one weighing operation: the AIS command of API v2, the      *)
(* agent hub and the WebSocket handler of the center, the client of the    *)
(* weighing PC with its local journal, and the way back - by the live      *)
(* weigh_result or, after a break, by offline_sync.                        *)
(*                                                                         *)
(* Every await at which another task may run is a boundary between two     *)
(* actions; code between two awaits is one action.                         *)
(***************************************************************************)
EXTENDS Naturals, Sequences, FiniteSets

CONSTANTS
  Calls,        \* POST /api/v2/weighings requests, each a request_id and record uuid
  Manuals,      \* records of the manual mode of the weighing PC
  Ref,          \* numbers of AIS documents (WEI... / TAR...)
  Scale,        \* scales; one weighing PC and at most one current link each
  RefOf,        \* the ais_ref of a call
  ScaleOf,      \* the scale of a call or of a manual record
  BatchSize,    \* ClientConfig.sync_batch_size
  MaxConn,      \* bound: connections a weighing PC opens
  MaxCrash,     \* bound: restarts of the center
  None          \* "no value"

Rec == Calls \cup Manuals

ASSUME DisjointAssumption == Calls \cap Manuals = {}
ASSUME RefOfAssumption    == RefOf \in [Calls -> Ref]
ASSUME ScaleOfAssumption  == ScaleOf \in [Rec -> Scale]
ASSUME BatchAssumption    == BatchSize \in Nat \ {0}
ASSUME BoundsAssumption   == MaxConn \in Nat /\ MaxCrash \in Nat
ASSUME NoneAssumption     == None \notin Rec \cup Ref \cup {"offline", "internal", "refused", "lost"}
ASSUME RecAssumption      == Rec \cap {"offline", "internal", "refused", "lost"} = {}

Conn == 0 .. MaxConn      \* connection numbers of one scale; 0 is "no connection"

VARIABLES
  (* the weighing PC; the journal and its synced flags survive a restart *)
  local,      \* weighings_local: records of the local journals
  synced,     \* those with synced = 1
  task,       \* request task of a call: none, run (under the lock), saved
  sess,       \* the connection the client of a scale is in, 0 when disconnected
  inFlight,   \* _sync_in_flight
  nconn,      \* connections opened so far
  (* the wire: one FIFO queue per direction of a connection *)
  up, down,
  (* the center; the journal and the links survive a restart *)
  journal,    \* weighings
  refLink,    \* weighing_ais_refs: the record an AIS number is linked to
  link,       \* hub._links: the current connection of a scale
  hdl,        \* the WebSocket handler of a connection
  pend,       \* hub._pending: the future of a call
  inflight,   \* ais_ref -> call being executed
  call,       \* where the HTTP handler of a call is
  reply,      \* what the AIS was answered
  crashes

agentVars  == <<local, synced, task, sess, inFlight, nconn>>
wireVars   == <<up, down>>
centerVars == <<journal, refLink, link, hdl, pend, inflight, call, reply, crashes>>
vars == <<local, synced, task, sess, inFlight, nconn, up, down, journal, refLink,
          link, hdl, pend, inflight, call, reply, crashes>>

(***************************************************************************)
(* Messages and handler states.                                            *)
(***************************************************************************)
WeighRequestMsg(c)   == [type |-> "weigh_request", call |-> c]
AckMsg(R)            == [type |-> "offline_sync_ack", recs |-> R]
WeighResultMsg(c, b) == [type |-> "weigh_result", call |-> c, ok |-> b]
OfflineSyncMsg(R)    == [type |-> "offline_sync", recs |-> R]

DownMsg == [type : {"weigh_request"}, call : Calls]
             \cup [type : {"offline_sync_ack"}, recs : SUBSET Rec]
UpMsg   == [type : {"weigh_result"}, call : Calls, ok : BOOLEAN]
             \cup [type : {"offline_sync"}, recs : SUBSET Rec]

Failure == {"offline", "internal", "refused", "lost"}

(* "off": not running; "recv": awaiting a message; "resolve": the record of *)
(* a weigh_result is saved, the waiter not yet woken; "sync": in the loop   *)
(* over an offline_sync, todo still to save, done saved.                    *)
HandlerState == [pc : {"off", "recv", "resolve", "sync"}, todo : SUBSET Rec,
                 done : SUBSET Rec, call : Calls \cup {None}, ok : BOOLEAN]
Off  == [pc |-> "off",  todo |-> {}, done |-> {}, call |-> None, ok |-> FALSE]
Recv == [pc |-> "recv", todo |-> {}, done |-> {}, call |-> None, ok |-> FALSE]

TypeOK ==
  /\ local \in SUBSET Rec
  /\ synced \in SUBSET Rec
  /\ task \in [Calls -> {"none", "run", "saved"}]
  /\ sess \in [Scale -> Conn]
  /\ inFlight \in [Scale -> BOOLEAN]
  /\ nconn \in [Scale -> Conn]
  /\ up \in [Scale -> [Conn -> Seq(UpMsg)]]
  /\ down \in [Scale -> [Conn -> Seq(DownMsg)]]
  /\ journal \in SUBSET Rec
  /\ refLink \in [Ref -> Rec \cup {None}]
  /\ link \in [Scale -> Conn]
  /\ hdl \in [Scale -> [Conn -> HandlerState]]
  /\ pend \in [Calls -> {"none", "wait", "ok", "refused", "offline"}]
  /\ inflight \in [Ref -> Calls \cup {None}]
  /\ call \in [Calls -> {"idle", "join", "check", "hint", "wait", "done"}]
  /\ reply \in [Calls -> Rec \cup Failure \cup {None}]
  /\ crashes \in 0 .. MaxCrash

Init ==
  /\ local = {} /\ synced = {}
  /\ task = [c \in Calls |-> "none"]
  /\ sess = [s \in Scale |-> 0]
  /\ inFlight = [s \in Scale |-> FALSE]
  /\ nconn = [s \in Scale |-> 0]
  /\ up = [s \in Scale |-> [k \in Conn |-> <<>>]]
  /\ down = [s \in Scale |-> [k \in Conn |-> <<>>]]
  /\ journal = {}
  /\ refLink = [f \in Ref |-> None]
  /\ link = [s \in Scale |-> 0]
  /\ hdl = [s \in Scale |-> [k \in Conn |-> Off]]
  /\ pend = [c \in Calls |-> "none"]
  /\ inflight = [f \in Ref |-> None]
  /\ call = [c \in Calls |-> "idle"]
  /\ reply = [c \in Calls |-> None]
  /\ crashes = 0

(***************************************************************************)
(* The weighing PC.                                                        *)
(***************************************************************************)

(* A send reaches the peer only while its handler still reads the socket. *)
SendUp(s, m) ==
  up' = IF hdl[s][sess[s]].pc = "off"
        THEN up ELSE [up EXCEPT ![s][sess[s]] = Append(@, m)]

(* Storage.save_weighing and Storage.mark_synced. *)
SaveWeighing(r) == local' = local \cup {r}
MarkSynced(R)   == synced' = synced \cup (R \cap local)

(* The lock of AutoOperationRunner. *)
Busy(s) == \E c \in Calls : ScaleOf[c] = s /\ task[c] = "run"

Unsynced(s) == {r \in local \ synced : ScaleOf[r] = s}

(* One portion: the oldest by created_at, which is the wall clock of the   *)
(* PC and can be set back - any records of the queue.                      *)
Portions(queue) ==
  {B \in SUBSET queue :
     /\ B # {}
     /\ Cardinality(B) <= BatchSize
     /\ Cardinality(B) < BatchSize => B = queue}

(* hub.attach: the new link displaces an old one at once. *)
Attach(s, k) ==
  /\ link' = [link EXCEPT ![s] = k]
  /\ hdl' = [hdl EXCEPT ![s][k] = Recv]

(* One turn of the reconnect loop that gets through to the center. *)
Connect(s) ==
  /\ sess[s] = 0
  /\ nconn[s] < MaxConn
  /\ LET k == nconn[s] + 1 IN
       /\ nconn' = [nconn EXCEPT ![s] = k]
       /\ sess' = [sess EXCEPT ![s] = k]
       /\ Attach(s, k)
  /\ UNCHANGED <<local, synced, task, inFlight, up, down, journal, refLink,
                 pend, inflight, call, reply, crashes>>

(* The session ends on the PC - the network, or the service itself: the    *)
(* request tasks die with it, an unconfirmed portion is forgotten, the     *)
(* tail of what was sent may never arrive. The records stay. The bound     *)
(* keeps the last connection, so that "eventually connected" holds.        *)
AgentDrop(s) ==
  /\ sess[s] # 0
  /\ nconn[s] < MaxConn
  /\ LET k == sess[s] IN
       /\ \E n \in 0 .. Len(up[s][k]) :
            up' = [up EXCEPT ![s][k] = SubSeq(@, 1, n)]
       /\ down' = [down EXCEPT ![s][k] = <<>>]
  /\ sess' = [sess EXCEPT ![s] = 0]
  /\ inFlight' = [inFlight EXCEPT ![s] = FALSE]
  /\ task' = [c \in Calls |-> IF ScaleOf[c] = s THEN "none" ELSE task[c]]
  /\ UNCHANGED <<local, synced, nconn, journal, refLink, link, hdl, pend,
                 inflight, call, reply, crashes>>

(* A weigh_request: busy answers at once; a refusal (no indicator, no      *)
(* fixation, too heavy for a taring) saves nothing; otherwise the          *)
(* operation runs under the lock.                                          *)
RecvRequest(s) ==
  /\ sess[s] # 0
  /\ down[s][sess[s]] # <<>>
  /\ LET m == Head(down[s][sess[s]]) IN
       /\ m.type = "weigh_request"
       /\ down' = [down EXCEPT ![s][sess[s]] = Tail(@)]
       /\ \/ /\ ~Busy(s)
             /\ task' = [task EXCEPT ![m.call] = "run"]
             /\ UNCHANGED up
          \/ /\ SendUp(s, WeighResultMsg(m.call, FALSE))
             /\ UNCHANGED task
  /\ UNCHANGED <<local, synced, sess, inFlight, nconn, journal, refLink, link,
                 hdl, pend, inflight, call, reply, crashes>>

(* End of _capture_and_record: a failed shot refuses, else the record is   *)
(* in the local journal before anything is sent.                           *)
Record(c) ==
  /\ task[c] = "run"
  /\ \/ /\ SaveWeighing(c)
        /\ task' = [task EXCEPT ![c] = "saved"]
        /\ UNCHANGED up
     \/ /\ SendUp(ScaleOf[c], WeighResultMsg(c, FALSE))
        /\ task' = [task EXCEPT ![c] = "none"]
        /\ UNCHANGED local
  /\ UNCHANGED <<synced, sess, inFlight, nconn, down, journal, refLink, link,
                 hdl, pend, inflight, call, reply, crashes>>

SendResult(c) ==
  /\ task[c] = "saved"
  /\ SendUp(ScaleOf[c], WeighResultMsg(c, TRUE))
  /\ task' = [task EXCEPT ![c] = "none"]
  /\ UNCHANGED <<local, synced, sess, inFlight, nconn, down, journal, refLink,
                 link, hdl, pend, inflight, call, reply, crashes>>

(* A confirmed manual operation: one more record of the same journal. *)
ManualRecord(m) ==
  /\ m \notin local
  /\ SaveWeighing(m)
  /\ UNCHANGED <<synced, task, sess, inFlight, nconn, wireVars, centerVars>>

(* _send_pending of the session start and of every heartbeat. *)
SendPending(s) ==
  /\ sess[s] # 0
  /\ ~inFlight[s]
  /\ \E B \in Portions(Unsynced(s)) : SendUp(s, OfflineSyncMsg(B))
  /\ inFlight' = [inFlight EXCEPT ![s] = TRUE]
  /\ UNCHANGED <<local, synced, task, sess, nconn, down, centerVars>>

(* offline_sync_ack, with the next portion sent from the same handler. *)
RecvAck(s) ==
  /\ sess[s] # 0
  /\ down[s][sess[s]] # <<>>
  /\ LET m == Head(down[s][sess[s]])
         rest == Unsynced(s) \ m.recs
     IN
       /\ m.type = "offline_sync_ack"
       /\ down' = [down EXCEPT ![s][sess[s]] = Tail(@)]
       /\ MarkSynced(m.recs)
       /\ \/ /\ rest = {}
             /\ inFlight' = [inFlight EXCEPT ![s] = FALSE]
             /\ UNCHANGED up
          \/ /\ \E B \in Portions(rest) : SendUp(s, OfflineSyncMsg(B))
             /\ inFlight' = [inFlight EXCEPT ![s] = TRUE]
  /\ UNCHANGED <<local, task, sess, nconn, centerVars>>

(***************************************************************************)
(* The WebSocket handler of the center, one per connection.                *)
(***************************************************************************)

(* Mutant: the late record of a repeated command takes the number over. *)
SaveTakesNumber(r) ==
  /\ journal' = journal \cup {r}
  /\ refLink' = IF r \in Calls \ journal THEN [refLink EXCEPT ![RefOf[r]] = r] ELSE refLink

(* save_weighing_record in its transaction: idempotent by uuid; a command's *)
(* number is linked unless another operation has it already.               *)
Save(r) ==
  /\ journal' = journal \cup {r}
  /\ refLink' = IF r \in Calls \ journal /\ refLink[RefOf[r]] = None
                THEN [refLink EXCEPT ![RefOf[r]] = r] ELSE refLink

HandleResult(s, k) ==
  /\ hdl[s][k].pc = "recv"
  /\ up[s][k] # <<>>
  /\ LET m == Head(up[s][k]) IN
       /\ m.type = "weigh_result"
       /\ up' = [up EXCEPT ![s][k] = Tail(@)]
       /\ IF m.ok THEN Save(m.call) ELSE UNCHANGED <<journal, refLink>>
       /\ hdl' = [hdl EXCEPT ![s][k] =
                     [Recv EXCEPT !.pc = "resolve", !.call = m.call, !.ok = m.ok]]
  /\ UNCHANGED <<agentVars, down, link, pend, inflight, call, reply, crashes>>

(* hub.resolve_result, once the thread of the save has returned: nobody    *)
(* may be waiting any more.                                                *)
ResolveResult(s, k) ==
  /\ hdl[s][k].pc = "resolve"
  /\ LET c == hdl[s][k].call IN
       pend' = IF pend[c] = "wait" /\ ScaleOf[c] = s
               THEN [pend EXCEPT ![c] = IF hdl[s][k].ok THEN "ok" ELSE "refused"]
               ELSE pend
  /\ hdl' = [hdl EXCEPT ![s][k] = Recv]
  /\ UNCHANGED <<agentVars, wireVars, journal, refLink, link, inflight, call,
                 reply, crashes>>

HandleSync(s, k) ==
  /\ hdl[s][k].pc = "recv"
  /\ up[s][k] # <<>>
  /\ LET m == Head(up[s][k]) IN
       /\ m.type = "offline_sync"
       /\ up' = [up EXCEPT ![s][k] = Tail(@)]
       /\ hdl' = [hdl EXCEPT ![s][k] = [Recv EXCEPT !.pc = "sync", !.todo = m.recs]]
  /\ UNCHANGED <<agentVars, down, journal, refLink, link, pend, inflight, call,
                 reply, crashes>>

(* accepted.append, whether the record was new or a repetition. *)
Accepted(h, r) == [h EXCEPT !.todo = @ \ {r}, !.done = @ \cup {r}]

(* Mutant: only records new to the journal are acknowledged. *)
SyncOneNewOnly(s, k) ==
  /\ hdl[s][k].pc = "sync"
  /\ \E r \in hdl[s][k].todo :
       /\ Save(r)
       /\ hdl' = [hdl EXCEPT ![s][k] =
                     [@ EXCEPT !.todo = @ \ {r},
                               !.done = IF r \in journal THEN @ ELSE @ \cup {r}]]
  /\ UNCHANGED <<agentVars, wireVars, link, pend, inflight, call, reply, crashes>>

SyncOne(s, k) ==
  /\ hdl[s][k].pc = "sync"
  /\ \E r \in hdl[s][k].todo :
       /\ Save(r)
       /\ hdl' = [hdl EXCEPT ![s][k] = Accepted(@, r)]
  /\ UNCHANGED <<agentVars, wireVars, link, pend, inflight, call, reply, crashes>>

(* Mutant: the portion is acknowledged before its records are saved. *)
SyncAckFirst(s, k) ==
  /\ hdl[s][k].pc = "sync"
  /\ LET R == hdl[s][k].todo \cup hdl[s][k].done IN
       down' = IF sess[s] = k
               THEN [down EXCEPT ![s][k] = Append(@, AckMsg(R))] ELSE down
  /\ hdl' = [hdl EXCEPT ![s][k] = Recv]
  /\ UNCHANGED <<agentVars, up, journal, refLink, link, pend, inflight, call,
                 reply, crashes>>

SyncAck(s, k) ==
  /\ hdl[s][k].pc = "sync"
  /\ hdl[s][k].todo = {}
  /\ down' = IF sess[s] = k
             THEN [down EXCEPT ![s][k] = Append(@, AckMsg(hdl[s][k].done))] ELSE down
  /\ hdl' = [hdl EXCEPT ![s][k] = Recv]
  /\ UNCHANGED <<agentVars, up, journal, refLink, link, pend, inflight, call,
                 reply, crashes>>

(* fail_pending_for_scale: the commands of this scale, not of the others. *)
FailPending(s) ==
  pend' = [c \in Calls |-> IF ScaleOf[c] = s /\ pend[c] = "wait" THEN "offline" ELSE pend[c]]

(* hub.detach: TRUE only for the current connection. *)
IsCurrent(s, k) == link[s] = k

(* Mutant: any connection that ends fails the commands of its scale. *)
HandlerEndFailsAll(s, k) ==
  /\ hdl[s][k].pc \in {"recv", "sync"}
  /\ sess[s] = k => nconn[s] < MaxConn
  /\ hdl' = [hdl EXCEPT ![s][k] = Off]
  /\ up' = [up EXCEPT ![s][k] = <<>>]
  /\ link' = IF link[s] = k THEN [link EXCEPT ![s] = 0] ELSE link
  /\ FailPending(s)
  /\ UNCHANGED <<agentVars, down, journal, refLink, inflight, call, reply, crashes>>

(* The finally clause: only the current connection takes the scale offline *)
(* and fails the commands that wait for it. The handler ends when it sees  *)
(* the peer gone, or by itself: keepalive, a database error in a save.     *)
HandlerEnd(s, k) ==
  /\ hdl[s][k].pc \in {"recv", "sync"}
  /\ sess[s] = k => nconn[s] < MaxConn
  /\ hdl' = [hdl EXCEPT ![s][k] = Off]
  /\ up' = [up EXCEPT ![s][k] = <<>>]
  /\ IF IsCurrent(s, k)
     THEN link' = [link EXCEPT ![s] = 0] /\ FailPending(s)
     ELSE UNCHANGED <<link, pend>>
  /\ UNCHANGED <<agentVars, down, journal, refLink, inflight, call, reply, crashes>>

(***************************************************************************)
(* The HTTP handler of an AIS command, weigh_v2.                           *)
(***************************************************************************)

(* The future of inflight is set and the entry removed: the call and the   *)
(* repeats that joined it are answered alike.                              *)
Finish(c, v) ==
  LET answered == {c} \cup {d \in Calls : call[d] = "join" /\ RefOf[d] = RefOf[c]} IN
    /\ reply' = [d \in Calls |-> IF d \in answered THEN v ELSE reply[d]]
    /\ call' = [d \in Calls |-> IF d \in answered THEN "done" ELSE call[d]]
    /\ inflight' = [inflight EXCEPT ![RefOf[c]] = None]

(* Mutant: a repeat does not look at inflight. *)
ArriveUnregistered(c) ==
  /\ call[c] = "idle"
  /\ call' = [call EXCEPT ![c] = "check"]
  /\ UNCHANGED <<agentVars, wireVars, journal, refLink, link, hdl, pend, inflight,
                 reply, crashes>>

(* The number is registered before the journal is asked. *)
Arrive(c) ==
  /\ call[c] = "idle"
  /\ IF inflight[RefOf[c]] # None
     THEN /\ call' = [call EXCEPT ![c] = "join"]
          /\ UNCHANGED inflight
     ELSE /\ call' = [call EXCEPT ![c] = "check"]
          /\ inflight' = [inflight EXCEPT ![RefOf[c]] = c]
  /\ UNCHANGED <<agentVars, wireVars, journal, refLink, link, hdl, pend, reply, crashes>>

(* _document_by_ais_ref: an operation done under this number is repeated. *)
Existing(f) == refLink[f]

CheckExisting(c) ==
  /\ call[c] = "check"
  /\ IF Existing(RefOf[c]) # None
     THEN Finish(c, Existing(RefOf[c]))
     ELSE /\ call' = [call EXCEPT ![c] = "hint"]
          /\ UNCHANGED <<reply, inflight>>
  /\ UNCHANGED <<agentVars, wireVars, journal, refLink, link, hdl, pend, crashes>>

(* send_weigh_request after the tare hint was read. Writing to a half-open *)
(* connection fails or is lost.                                            *)
SendCommand(c) ==
  LET s == ScaleOf[c]
      alive == link[s] # 0 /\ sess[s] = link[s]
  IN
  /\ call[c] = "hint"
  /\ \/ /\ ~alive
        /\ Finish(c, "offline")
        /\ UNCHANGED <<down, pend>>
     \/ /\ link[s] # 0
        /\ pend' = [pend EXCEPT ![c] = "wait"]
        /\ call' = [call EXCEPT ![c] = "wait"]
        /\ down' = IF alive
                   THEN [down EXCEPT ![s][link[s]] = Append(@, WeighRequestMsg(c))]
                   ELSE down
        /\ UNCHANGED <<reply, inflight>>
  /\ UNCHANGED <<agentVars, up, journal, refLink, link, hdl, crashes>>

(* The coroutine wakes: by the result, by the break, or by the timeout. *)
Wake(c) ==
  /\ call[c] = "wait"
  /\ pend' = [pend EXCEPT ![c] = "none"]
  /\ \/ pend[c] = "ok" /\ Finish(c, IF c \in journal THEN c ELSE "internal")
     \/ pend[c] = "refused" /\ Finish(c, "refused")
     \/ pend[c] = "offline" /\ Finish(c, "offline")
  /\ UNCHANGED <<agentVars, wireVars, journal, refLink, link, hdl, crashes>>

(* Mutant: the timeout of the future is not turned into an AgentHubError. *)
CommandTimeoutUncoded(c) ==
  /\ call[c] = "wait" /\ pend[c] = "wait"
  /\ pend' = [pend EXCEPT ![c] = "none"]
  /\ Finish(c, "timeout")
  /\ UNCHANGED <<agentVars, wireVars, journal, refLink, link, hdl, crashes>>

CommandTimeout(c) ==
  /\ call[c] = "wait" /\ pend[c] = "wait"
  /\ pend' = [pend EXCEPT ![c] = "none"]
  /\ Finish(c, "internal")
  /\ UNCHANGED <<agentVars, wireVars, journal, refLink, link, hdl, crashes>>

(* Mutant: the exception leaves the future of inflight unset. *)
CallFailsSilently(c) ==
  /\ call[c] \in {"check", "hint", "wait"}
  /\ call[c] = "wait" => pend[c] # "wait"
  /\ pend' = [pend EXCEPT ![c] = "none"]
  /\ call' = [call EXCEPT ![c] = "done"]
  /\ reply' = [reply EXCEPT ![c] = "internal"]
  /\ inflight' = [inflight EXCEPT ![RefOf[c]] = None]
  /\ UNCHANGED <<agentVars, wireVars, journal, refLink, link, hdl, crashes>>

(* An exception on the way (the audit row, the journal): the first gets    *)
(* its error, the joined repeats ERR_INTERNAL.                             *)
CallFails(c) ==
  /\ call[c] \in {"check", "hint", "wait"}
  /\ call[c] = "wait" => pend[c] # "wait"
  /\ pend' = [pend EXCEPT ![c] = "none"]
  /\ Finish(c, "internal")
  /\ UNCHANGED <<agentVars, wireVars, journal, refLink, link, hdl, crashes>>

(* link_ais_ref: neither the operation nor the number is taken. *)
Linkable(r, f) == refLink[f] = None /\ \A g \in Ref : refLink[g] # r

(* Mutants: the record's own number, the number's own record not checked. *)
LinkCallbackAgain(r, f) ==
  /\ r \in journal
  /\ refLink[f] = None
  /\ refLink' = [refLink EXCEPT ![f] = r]
  /\ UNCHANGED <<agentVars, wireVars, journal, link, hdl, pend, inflight, call,
                 reply, crashes>>
LinkCallbackSteals(r, f) ==
  /\ r \in journal
  /\ \A g \in Ref : refLink[g] # r
  /\ refLink' = [refLink EXCEPT ![f] = r]
  /\ UNCHANGED <<agentVars, wireVars, journal, link, hdl, pend, inflight, call,
                 reply, crashes>>

(* POST .../{id}/ais_ref: AIS links a number to an operation, once. *)
LinkCallback(r, f) ==
  /\ r \in journal
  /\ Linkable(r, f)
  /\ refLink' = [refLink EXCEPT ![f] = r]
  /\ UNCHANGED <<agentVars, wireVars, journal, link, hdl, pend, inflight, call,
                 reply, crashes>>

(* The center process restarts: the database stays, everything else goes,  *)
(* the clients of the open calls get no answer.                            *)
CenterCrash ==
  /\ crashes < MaxCrash
  /\ \A s \in Scale : nconn[s] < MaxConn
  /\ crashes' = crashes + 1
  /\ link' = [s \in Scale |-> 0]
  /\ hdl' = [s \in Scale |-> [k \in Conn |-> Off]]
  /\ up' = [s \in Scale |-> [k \in Conn |-> <<>>]]
  /\ pend' = [c \in Calls |-> "none"]
  /\ inflight' = [f \in Ref |-> None]
  /\ call' = [c \in Calls |-> IF call[c] = "idle" THEN "idle" ELSE "done"]
  /\ reply' = [c \in Calls |-> IF call[c] \in {"idle", "done"} THEN reply[c] ELSE "lost"]
  /\ UNCHANGED <<agentVars, down, journal, refLink>>

(***************************************************************************)
(* Specification.                                                          *)
(***************************************************************************)
AgentStep(s)    == RecvRequest(s) \/ RecvAck(s) \/ SendPending(s)
TaskStep(c)     == Record(c) \/ SendResult(c)
HandlerStep(s, k) ==
  HandleResult(s, k) \/ ResolveResult(s, k) \/ HandleSync(s, k)
    \/ SyncOne(s, k) \/ SyncAck(s, k)
CallStep(c)     == CheckExisting(c) \/ SendCommand(c) \/ Wake(c) \/ CommandTimeout(c)

Next ==
  \/ \E s \in Scale : Connect(s) \/ AgentDrop(s) \/ AgentStep(s)
  \/ \E s \in Scale, k \in Conn : HandlerStep(s, k) \/ HandlerEnd(s, k)
  \/ \E c \in Calls : TaskStep(c) \/ Arrive(c) \/ CallStep(c) \/ CallFails(c)
  \/ \E m \in Manuals : ManualRecord(m)
  \/ \E r \in Rec, f \in Ref : LinkCallback(r, f)
  \/ CenterCrash

(* The client reconnects for ever, the tasks and handlers of both event    *)
(* loops run, keepalive ends a session or a handler whose peer is gone;    *)
(* breaks, restarts, manual records and the AIS are under no obligation.   *)
Fairness ==
  /\ \A s \in Scale :
       /\ WF_vars(Connect(s))
       /\ WF_vars(AgentStep(s))
       /\ WF_vars(sess[s] # 0 /\ hdl[s][sess[s]].pc = "off" /\ AgentDrop(s))
       /\ \A k \in Conn : /\ WF_vars(HandlerStep(s, k))
                          /\ WF_vars(sess[s] # k /\ HandlerEnd(s, k))
  /\ \A c \in Calls : WF_vars(TaskStep(c)) /\ WF_vars(CallStep(c))

Spec == Init /\ [][Next]_vars
FairSpec == Spec /\ Fairness

-----------------------------------------------------------------------------
(***************************************************************************)
(* Properties.                                                             *)
(***************************************************************************)

(* A record is marked synced on the PC only when the journal of the center *)
(* has it (OfflineSyncAck is sent after every save of the portion and      *)
(* arrives after any break or restart), and the center has no record the   *)
(* PC did not save first.                                                  *)
DurableSync ==
  /\ synced \subseteq journal
  /\ journal \subseteq local

(* Why it holds: what is on the way from a PC is in its journal, what is on *)
(* the way to it - or already counted as accepted - is in the center's.    *)
SoundUp   == {m \in UpMsg : /\ m.type = "weigh_result" /\ m.ok => m.call \in local
                            /\ m.type = "offline_sync" => m.recs \subseteq local}
SoundDown == {m \in DownMsg : m.type = "offline_sync_ack" => m.recs \subseteq journal}
DeliveryInv ==
  /\ DurableSync
  /\ up \in [Scale -> [Conn -> Seq(SoundUp)]]
  /\ down \in [Scale -> [Conn -> Seq(SoundDown)]]
  /\ \A s \in Scale, k \in Conn :
       LET h == hdl[s][k] IN
         /\ h.todo \subseteq local /\ h.done \subseteq journal
         /\ h.pc = "resolve" /\ h.ok => h.call \in journal
  /\ \A c \in Calls : /\ task[c] = "saved" => c \in local
                      /\ pend[c] = "ok" => c \in journal

(* weigh_v2 never wakes to an OK whose record is missing: the handler saves *)
(* before it resolves ("only on a failed save", says the code).            *)
OkHasRecord == \A c \in Calls : pend[c] = "ok" => c \in journal

(* weighing_ais_refs: numbers belong to journal records, no record has two *)
(* - whichever of weigh_result, offline_sync and callback came first.      *)
LinksSound ==
  /\ \A f \in Ref : refLink[f] # None => refLink[f] \in journal
  /\ \A f, g \in Ref : refLink[f] = refLink[g] /\ refLink[f] # None => f = g

(* An OK answer names a record of the journal: the one the call or the     *)
(* call it joined made, or the one its number is linked to.                *)
AnswerSound ==
  \A c \in Calls : reply[c] \in Rec =>
    /\ reply[c] \in journal
    /\ \/ reply[c] \in Calls /\ RefOf[reply[c]] = RefOf[c]
       \/ refLink[RefOf[c]] = reply[c]

(* The agent's own refusal leaves no record behind, now or later, so that  *)
(* the same number may be tried again (contract v2, 4.5).                  *)
RefusalLeavesNothing ==
  \A c \in Calls : reply[c] = "refused" => c \notin local

(* Two operations under one AIS number happen only if the AIS was told of  *)
(* a failure of the connection or of the center in between: registration   *)
(* in inflight, the journal check and the link made by the save together   *)
(* exclude it otherwise.                                                   *)
SecondOperationOnlyAfterFailure ==
  \A c, d \in local \cap Calls :
    c # d /\ RefOf[c] = RefOf[d] =>
      \E x \in {c, d} : reply[x] \in {"offline", "internal", "lost"}

(* A waiting command fails as "offline" only when the handler of the       *)
(* current connection of its own scale ends: neither the end of a          *)
(* displaced connection nor a break on another scale touches it.           *)
OfflineOnlyByBreak ==
  [][\A c \in Calls : pend[c] = "wait" /\ pend'[c] = "offline" =>
       LET s == ScaleOf[c] IN
         /\ link[s] # 0
         /\ hdl[s][link[s]].pc # "off"
         /\ hdl'[s][link[s]].pc = "off"]_vars

(* What contract v2 says of a repeat (4.5): the number of an operation that *)
(* took place is answered with the same document. It is not what the code  *)
(* does: see the README.                                                   *)
SameDocument ==
  \A c, d \in Calls :
    RefOf[c] = RefOf[d] /\ reply[c] \in Rec /\ reply[d] \in Rec => reply[c] = reply[d]

(* "Until the ack a new portion is not sent" and the flag never sticks:    *)
(* while the center reads the connection, _sync_in_flight is set exactly   *)
(* when one portion or its ack is on the way.                              *)
PortionsUnderWay(s) ==
  LET k == sess[s] IN
    {<<"up", i>> : i \in {j \in 1 .. Len(up[s][k]) : up[s][k][j].type = "offline_sync"}}
      \cup {<<"down", i>> : i \in {j \in 1 .. Len(down[s][k]) :
                                   down[s][k][j].type = "offline_sync_ack"}}
      \cup {<<"center", 0>> : i \in {j \in {0} : hdl[s][k].pc = "sync"}}
OnePortion ==
  \A s \in Scale : sess[s] # 0 =>
    LET n == Cardinality(PortionsUnderWay(s)) IN
      /\ n <= 1
      /\ n = 1 => inFlight[s]
      /\ inFlight[s] /\ hdl[s][sess[s]].pc # "off" => n = 1

(* The whole path keeps the promises of OperationJournal. *)
Told == [c \in Calls |-> IF reply[c] \in Rec THEN reply[c] ELSE None]
Promise == INSTANCE OperationJournal
             WITH performed <- local, acked <- synced, number <- refLink, told <- Told
KeepsPromise == Promise!Spec

(* No operation is lost: every record of a PC is eventually acknowledged,  *)
(* through any bounded number of breaks and restarts of the center.        *)
EveryRecordDelivered == \A r \in Rec : r \in local ~> r \in synced

(* Every command of the AIS gets an answer or a broken connection.         *)
EveryCallAnswered == \A c \in Calls : call[c] # "idle" ~> call[c] = "done"

(* What crosses the whole path of a command: a refusal leaves nothing, a   *)
(* number is weighed twice only after a failure, one portion is under way. *)
PathInv == RefusalLeavesNothing /\ SecondOperationOnlyAfterFailure /\ OnePortion
=============================================================================
