---------------------------- MODULE TareReplication ----------------------------
(***************************************************************************)
(* Replication of the tare registry to the weighing PCs: the numbered      *)
(* journal of changes, publish_tare_registry and sync_agent of the center, *)
(* snapshots in parts, deltas and catching up on the PC.                   *)
(*                                                                         *)
(* A row of the registry is the number of the change that put it there, 0  *)
(* is "no row": what a row says is not looked at by the replication.       *)
(***************************************************************************)
EXTENDS Naturals, Sequences, FiniteSets

CONSTANTS
  Agent,        \* weighing PCs (0.4.37 and later), one link at most each
  Pair,         \* vehicle + trailer: the keys of the registry
  Publisher,    \* tasks that change the registry: AIS taring, sync, storno
  ChunkSize,    \* SNAPSHOT_CHUNK_RECORDS
  MaxDelta,     \* TARE_CHANGES_MAX_DELTA
  Trimmed,      \* bound: may a change find the journal older than its retention
  MaxSeq,       \* bound: changes of the registry
  MaxConn,      \* bound: connections a weighing PC opens
  MaxCrash,     \* bound: restarts of the center
  MaxLost,      \* bound: changes whose publication fails or is never begun
  MaxQueue,     \* bound: answers on the way when a heartbeat is sent
  None

ASSUME ChunkAssumption  == ChunkSize \in Nat \ {0}
ASSUME DeltaAssumption  == MaxDelta \in Nat \ {0}
ASSUME BoundsAssumption == Trimmed \in BOOLEAN /\ {MaxSeq, MaxConn, MaxCrash, MaxLost, MaxQueue} \subseteq Nat
ASSUME PairAssumption   == IsFiniteSet(Pair)
ASSUME NoneAssumption   == None \notin Nat /\ None \notin Agent

Conn == 0 .. MaxConn
Seqno == 0 .. MaxSeq
Rows  == [Pair -> Seqno]

VARIABLES
  (* the database *)
  log,        \* tare_registry_changes, the trimmed part kept as history
  oldest,     \* min(seq) the retention left
  (* the center process *)
  hubLast,    \* hub.last_tare_seq
  pub,        \* publish_tare_registry of each publisher
  link,       \* hub._links
  known,      \* hub._versions: hello of the link has been read
  hdl,        \* the WebSocket handler of a connection
  (* the wire *)
  up, down,
  (* the weighing PC: replica, seq and staging are in SQLite *)
  sess, nconn,
  replica,    \* tare_registry_replica
  aseq,       \* agent_settings.tare_registry_seq
  staging,    \* tare_registry_staging
  inProgress, \* _tare_snapshot_in_progress
  seen,       \* _tare_delta_seen
  crashes, lost

dbVars     == <<log, oldest>>
centerVars == <<hubLast, pub, link, known, hdl>>
wireVars   == <<up, down>>
sessVars   == <<sess, nconn>>
agentVars  == <<replica, aseq, staging, inProgress, seen>>
boundVars  == <<crashes, lost>>
vars == <<dbVars, centerVars, wireVars, sessVars, agentVars, boundVars>>

(***************************************************************************)
(* The registry as of change n.                                            *)
(***************************************************************************)
ChangesOf(p, n) == {i \in 1 .. n : log[i].pair = p}
LastChange(p, n) == CHOOSE i \in ChangesOf(p, n) : \A j \in ChangesOf(p, n) : j <= i
Row(p, n) ==
  IF ChangesOf(p, n) = {} \/ ~log[LastChange(p, n)].row THEN 0 ELSE LastChange(p, n)
Registry(n) == [p \in Pair |-> Row(p, n)]

(* tare_changes_since: FALSE stands for None, "only a snapshot will do". *)
CanDelta(n) ==
  /\ n # None
  /\ n <= Len(log)
  /\ n < Len(log) => n + 1 >= oldest /\ Len(log) - n <= MaxDelta

(***************************************************************************)
(* Messages.                                                               *)
(***************************************************************************)
PartMsg(rows, reset, final, n) ==
  [type |-> "part", rows |-> rows, reset |-> reset, final |-> final, seq |-> n]
DeltaMsg(since, last) == [type |-> "delta", since |-> since, last |-> last]
HelloMsg(n)     == [type |-> "hello", seq |-> n]
HeartbeatMsg(n) == [type |-> "heartbeat", seq |-> n]
SyncMsg(n)      == [type |-> "sync_request", seq |-> n]

PartMsgs  == [type : {"part"}, rows : Rows, reset : BOOLEAN, final : BOOLEAN, seq : Seqno]
DeltaMsgs == [type : {"delta"}, since : Seqno, last : Seqno]
DownMsg   == PartMsgs \cup DeltaMsgs
UpMsg == [type : {"hello", "heartbeat", "sync_request"}, seq : Seqno \cup {None}]

(* chunk_payloads: the rows in parts of ChunkSize, the newest tared_at     *)
(* first - the clocks of the PCs, so any order; no rows make one part.     *)
PartCount(D) ==
  IF Cardinality(D) <= ChunkSize THEN 1 ELSE (Cardinality(D) + ChunkSize - 1) \div ChunkSize
Divisions(D) ==
  {part \in [D -> 1 .. PartCount(D)] :
     \A i \in 1 .. PartCount(D) - 1 : Cardinality({p \in D : part[p] = i}) = ChunkSize}

Snapshots(rows, n) ==
  LET D == {p \in Pair : rows[p] # 0} IN
    {[i \in 1 .. PartCount(D) |->
        PartMsg([p \in Pair |-> IF p \in D THEN (IF part[p] = i THEN rows[p] ELSE 0) ELSE 0],
                i = 1, i = PartCount(D), n)] : part \in Divisions(D)}

(* What a load of the database has to send to a replica at since, when the *)
(* journal had been read as far as n: nothing, one delta or the parts.     *)
Loads(since, n) ==
  IF ~CanDelta(since) THEN Snapshots(Registry(Len(log)), n)
  ELSE IF since = Len(log) THEN {<<>>}
  ELSE {<<DeltaMsg(since, Len(log))>>}

(***************************************************************************)
(* State of a publisher and of a handler.                                  *)
(***************************************************************************)
PubState == [pc : {"idle", "saved", "seq", "data", "send"}, to : SUBSET Agent,
             at : Agent \cup {None}, since : Seqno \cup {None}, current : Seqno,
             parts : Seq(DownMsg), rest : Seq(DownMsg)]
Idle == [pc |-> "idle", to |-> {}, at |-> None, since |-> None, current |-> 0,
         parts |-> <<>>, rest |-> <<>>]

HandlerState == [pc : {"off", "recv", "seq", "data", "loaded", "send"},
                 since : Seqno \cup {None}, current : Seqno, rest : Seq(DownMsg)]
Off  == [pc |-> "off",  since |-> None, current |-> 0, rest |-> <<>>]
Recv == [pc |-> "recv", since |-> None, current |-> 0, rest |-> <<>>]

TypeOK ==
  /\ log \in Seq([pair : Pair, row : BOOLEAN]) /\ Len(log) <= MaxSeq
  /\ oldest \in 1 .. MaxSeq + 1
  /\ hubLast \in Seqno \cup {None}
  /\ pub \in [Publisher -> PubState]
  /\ link \in [Agent -> Conn]
  /\ known \in [Agent -> BOOLEAN]
  /\ hdl \in [Agent -> [Conn -> HandlerState]]
  /\ up \in [Agent -> [Conn -> Seq(UpMsg)]]
  /\ down \in [Agent -> [Conn -> Seq(DownMsg)]]
  /\ sess \in [Agent -> Conn] /\ nconn \in [Agent -> Conn]
  /\ replica \in [Agent -> Rows] /\ staging \in [Agent -> Rows]
  /\ aseq \in [Agent -> Seqno \cup {None}]
  /\ inProgress \in [Agent -> BOOLEAN]
  /\ seen \in [Agent -> Seqno \cup {None}]
  /\ crashes \in Nat /\ lost \in Nat

NoRows == [p \in Pair |-> 0]

InitAt(n) ==
  /\ log = <<>> /\ oldest = 1
  /\ hubLast = n
  /\ pub = [b \in Publisher |-> Idle]
  /\ link = [a \in Agent |-> 0] /\ known = [a \in Agent |-> FALSE]
  /\ hdl = [a \in Agent |-> [k \in Conn |-> Off]]
  /\ up = [a \in Agent |-> [k \in Conn |-> <<>>]]
  /\ down = [a \in Agent |-> [k \in Conn |-> <<>>]]
  /\ sess = [a \in Agent |-> 0] /\ nconn = [a \in Agent |-> 0]
  /\ replica = [a \in Agent |-> NoRows] /\ staging = [a \in Agent |-> NoRows]
  /\ aseq = [a \in Agent |-> None]
  /\ inProgress = [a \in Agent |-> FALSE]
  /\ seen = [a \in Agent |-> None]
  /\ crashes = 0 /\ lost = 0

Init == InitAt(None)

(* A center that has been up since some other PC said hello. *)
WarmInit == InitAt(0)

(***************************************************************************)
(* The center: the transaction of a change and its publication.            *)
(***************************************************************************)

(* _upsert_tare or rebuild_tare_registry_entry with _record_tare_change:   *)
(* the advisory lock makes the numbers follow the commits; rows older than *)
(* TARE_CHANGES_RETENTION go, the one just added never does.               *)
RecordTareChange(p, row) ==
  /\ log' = Append(log, [pair |-> p, row |-> row])
  /\ \/ oldest' = oldest
     \/ Trimmed /\ oldest' = Len(log) + 1

Change(b, p, row) ==
  /\ pub[b].pc = "idle"
  /\ Len(log) < MaxSeq
  /\ row \/ Row(p, Len(log)) # 0
  /\ RecordTareChange(p, row)
  /\ pub' = [pub EXCEPT ![b].pc = "saved"]
  /\ UNCHANGED <<hubLast, link, known, hdl, wireVars, sessVars, agentVars, boundVars>>

(* A change nobody publishes: the import tool, a publication that failed.  *)
LosePublication(b) ==
  /\ pub[b].pc \in {"saved", "seq", "data"}
  /\ lost < MaxLost
  /\ lost' = lost + 1
  /\ pub' = [pub EXCEPT ![b] = Idle]
  /\ UNCHANGED <<dbVars, hubLast, link, known, hdl, wireVars, sessVars, agentVars, crashes>>

(* delta_tare_scale_ids and last_tare_seq, taken before the database. *)
DeltaTareScaleIds == {a \in Agent : link[a] # 0 /\ known[a]}

PublishStart(b) ==
  /\ pub[b].pc = "saved"
  /\ pub' = [pub EXCEPT ![b] =
       [Idle EXCEPT !.pc = "seq", !.to = DeltaTareScaleIds, !.since = hubLast]]
  /\ UNCHANGED <<dbVars, hubLast, link, known, hdl, wireVars, sessVars, agentVars, boundVars>>

(* The statements of load run at READ COMMITTED: the number first, what to *)
(* send later.                                                             *)
PublishSeq(b) ==
  /\ pub[b].pc = "seq"
  /\ pub' = [pub EXCEPT ![b].pc = "data", ![b].current = Len(log)]
  /\ UNCHANGED <<dbVars, hubLast, link, known, hdl, wireVars, sessVars, agentVars, boundVars>>

PublishData(b) ==
  /\ pub[b].pc = "data"
  /\ \E parts \in IF pub[b].to = {} THEN {<<>>} ELSE Loads(pub[b].since, pub[b].current) :
       pub' = [pub EXCEPT ![b].pc = "send", ![b].parts = parts,
                          ![b].to = IF parts = <<>> THEN {} ELSE @]
  /\ UNCHANGED <<dbVars, hubLast, link, known, hdl, wireVars, sessVars, agentVars, boundVars>>

(* A text sent on connection k arrives while the PC is in that session. *)
SendDown(a, k, m) ==
  down' = IF sess[a] = k THEN [down EXCEPT ![a][k] = Append(@, m)] ELSE down

(* One hub.send_text: it looks the link up anew, so the parts of one       *)
(* snapshot may go to two connections; no link ends this scale's turn.     *)
PublishSend(b, a) ==
  LET rest == IF pub[b].rest = <<>> THEN pub[b].parts ELSE pub[b].rest
      Went(left) == [pub[b] EXCEPT !.to = @ \ {a}, !.rest = left,
                                   !.at = IF left = <<>> THEN None ELSE a]
  IN
  /\ pub[b].pc = "send"
  /\ IF pub[b].rest = <<>> THEN a \in pub[b].to ELSE a = pub[b].at
  /\ \/ /\ link[a] # 0
        /\ SendDown(a, link[a], Head(rest))
        /\ pub' = [pub EXCEPT ![b] = Went(Tail(rest))]
     \/ /\ ~(link[a] # 0 /\ sess[a] = link[a])
        /\ pub' = [pub EXCEPT ![b] = Went(<<>>)]
        /\ UNCHANGED down
  /\ UNCHANGED <<dbVars, hubLast, link, known, hdl, up, sessVars, agentVars, boundVars>>

PublishEnd(b) ==
  /\ pub[b].pc = "send" /\ pub[b].rest = <<>> /\ pub[b].to = {}
  /\ hubLast' = pub[b].current
  /\ pub' = [pub EXCEPT ![b] = Idle]
  /\ UNCHANGED <<dbVars, link, known, hdl, wireVars, sessVars, agentVars, boundVars>>

(***************************************************************************)
(* The center: the handler of a connection and sync_agent.                 *)
(***************************************************************************)
Sync(a, k, n) == hdl' = [hdl EXCEPT ![a][k] = [Recv EXCEPT !.pc = "seq", !.since = n]]

HandleHello(a, k) ==
  /\ hdl[a][k].pc = "recv" /\ up[a][k] # <<>> /\ Head(up[a][k]).type = "hello"
  /\ known' = [known EXCEPT ![a] = TRUE]
  /\ Sync(a, k, Head(up[a][k]).seq)
  /\ up' = [up EXCEPT ![a][k] = Tail(@)]
  /\ UNCHANGED <<dbVars, hubLast, pub, link, down, sessVars, agentVars, boundVars>>

(* Mutant: a heartbeat is never answered with the registry. *)
BehindNever(n) == n # n

(* Only a number other than the last one published is worth a look. *)
Behind(n) == n # None /\ hubLast # None /\ n # hubLast

HandleHeartbeat(a, k) ==
  /\ hdl[a][k].pc = "recv" /\ up[a][k] # <<>> /\ Head(up[a][k]).type = "heartbeat"
  /\ IF Behind(Head(up[a][k]).seq) THEN Sync(a, k, Head(up[a][k]).seq) ELSE UNCHANGED hdl
  /\ up' = [up EXCEPT ![a][k] = Tail(@)]
  /\ UNCHANGED <<dbVars, hubLast, pub, link, known, down, sessVars, agentVars, boundVars>>

HandleSyncRequest(a, k) ==
  /\ hdl[a][k].pc = "recv" /\ up[a][k] # <<>> /\ Head(up[a][k]).type = "sync_request"
  /\ Sync(a, k, Head(up[a][k]).seq)
  /\ up' = [up EXCEPT ![a][k] = Tail(@)]
  /\ UNCHANGED <<dbVars, hubLast, pub, link, known, down, sessVars, agentVars, boundVars>>

SyncSeq(a, k) ==
  /\ hdl[a][k].pc = "seq"
  /\ hdl' = [hdl EXCEPT ![a][k].pc = "data", ![a][k].current = Len(log)]
  /\ UNCHANGED <<dbVars, hubLast, pub, link, known, wireVars, sessVars, agentVars, boundVars>>

SyncData(a, k) ==
  /\ hdl[a][k].pc = "data"
  /\ \E parts \in Loads(hdl[a][k].since, hdl[a][k].current) :
       hdl' = [hdl EXCEPT ![a][k].pc = "loaded", ![a][k].rest = parts]
  /\ UNCHANGED <<dbVars, hubLast, pub, link, known, wireVars, sessVars, agentVars, boundVars>>

(* On its own link, whatever the hub has for the scale by now. *)
SendRest(a, k, rest) ==
  IF rest = <<>>
  THEN hdl' = [hdl EXCEPT ![a][k] = Recv] /\ UNCHANGED down
  ELSE /\ SendDown(a, k, Head(rest))
       /\ hdl' = [hdl EXCEPT ![a][k] = IF Len(rest) = 1 THEN Recv
                                       ELSE [Recv EXCEPT !.pc = "send", !.rest = Tail(rest)]]

(* Back in the event loop: the hub is never moved back here; then the      *)
(* messages one by one, each an await.                                     *)
SyncSend(a, k) ==
  /\ hdl[a][k].pc \in {"loaded", "send"}
  /\ hubLast' = IF hdl[a][k].pc = "loaded" /\ (hubLast = None \/ hubLast < hdl[a][k].current)
                THEN hdl[a][k].current ELSE hubLast
  /\ SendRest(a, k, hdl[a][k].rest)
  /\ UNCHANGED <<dbVars, pub, link, known, up, sessVars, agentVars, boundVars>>

(* The handler sees the peer gone, or an exception ends it: detach. *)
HandlerEnd(a, k) ==
  /\ hdl[a][k].pc # "off"
  /\ sess[a] = k => nconn[a] < MaxConn
  /\ hdl' = [hdl EXCEPT ![a][k] = Off]
  /\ up' = [up EXCEPT ![a][k] = <<>>]
  /\ IF link[a] = k
     THEN link' = [link EXCEPT ![a] = 0] /\ known' = [known EXCEPT ![a] = FALSE]
     ELSE UNCHANGED <<link, known>>
  /\ UNCHANGED <<dbVars, hubLast, pub, down, sessVars, agentVars, boundVars>>

(* The process restarts; the tasks and the hub are gone. *)
CenterCrash ==
  /\ crashes < MaxCrash
  /\ \A a \in Agent : nconn[a] < MaxConn
  /\ crashes' = crashes + 1
  /\ hubLast' = None
  /\ pub' = [b \in Publisher |-> Idle]
  /\ link' = [a \in Agent |-> 0] /\ known' = [a \in Agent |-> FALSE]
  /\ hdl' = [a \in Agent |-> [k \in Conn |-> Off]]
  /\ up' = [a \in Agent |-> [k \in Conn |-> <<>>]]
  /\ UNCHANGED <<dbVars, down, sessVars, agentVars, lost>>

(***************************************************************************)
(* The weighing PC.                                                        *)
(***************************************************************************)
SendUp(a, m) ==
  up' = IF hdl[a][sess[a]].pc = "off" THEN up ELSE [up EXCEPT ![a][sess[a]] = Append(@, m)]

(* hub.attach forgets the version of the displaced link; hello is the      *)
(* first message of the session.                                           *)
Connect(a) ==
  /\ sess[a] = 0 /\ nconn[a] < MaxConn
  /\ LET k == nconn[a] + 1 IN
       /\ nconn' = [nconn EXCEPT ![a] = k]
       /\ sess' = [sess EXCEPT ![a] = k]
       /\ link' = [link EXCEPT ![a] = k]
       /\ known' = [known EXCEPT ![a] = FALSE]
       /\ hdl' = [hdl EXCEPT ![a][k] = Recv]
       /\ up' = [up EXCEPT ![a][k] = <<HelloMsg(aseq[a])>>]
  /\ UNCHANGED <<dbVars, hubLast, pub, down, agentVars, boundVars>>

(* The session, or the service, ends: a snapshot half received is dropped, *)
(* the tail of what was sent may be lost, SQLite stays.                    *)
AgentDrop(a) ==
  /\ sess[a] # 0 /\ nconn[a] < MaxConn
  /\ sess' = [sess EXCEPT ![a] = 0]
  /\ \E n \in 0 .. Len(up[a][sess[a]]) : up' = [up EXCEPT ![a][sess[a]] = SubSeq(@, 1, n)]
  /\ down' = [down EXCEPT ![a][sess[a]] = <<>>]
  /\ inProgress' = [inProgress EXCEPT ![a] = FALSE]
  /\ seen' = [seen EXCEPT ![a] = None]
  /\ UNCHANGED <<dbVars, centerVars, nconn, replica, aseq, staging, boundVars>>

(* The heartbeat loop. The bound keeps the queues finite. *)
Heartbeat(a) ==
  /\ sess[a] # 0
  /\ up[a][sess[a]] = <<>> /\ Len(down[a][sess[a]]) <= MaxQueue
  /\ SendUp(a, HeartbeatMsg(aseq[a]))
  /\ UNCHANGED <<dbVars, centerVars, down, sessVars, agentVars, boundVars>>

Put(old, new) == [p \in Pair |-> IF new[p] # 0 THEN new[p] ELSE old[p]]

(* _apply_tare_snapshot: parts gather in staging, the last one replaces    *)
(* the replica; a delta seen meanwhile is asked for again.                 *)
ApplyPart(a, m) ==
  LET first == m.reset \/ ~inProgress[a]
      rows  == Put(IF first THEN NoRows ELSE staging[a], m.rows)
      missed == ~first /\ seen[a] # None /\ seen[a] > m.seq
  IN
  IF m.final
  THEN /\ replica' = [replica EXCEPT ![a] = rows]
       /\ aseq' = [aseq EXCEPT ![a] = m.seq]
       /\ staging' = [staging EXCEPT ![a] = NoRows]
       /\ inProgress' = [inProgress EXCEPT ![a] = FALSE]
       /\ seen' = [seen EXCEPT ![a] = None]
       /\ IF missed THEN SendUp(a, SyncMsg(m.seq)) ELSE UNCHANGED up
  ELSE /\ staging' = [staging EXCEPT ![a] = rows]
       /\ inProgress' = [inProgress EXCEPT ![a] = TRUE]
       /\ seen' = IF first THEN [seen EXCEPT ![a] = None] ELSE seen
       /\ UNCHANGED <<replica, aseq, up>>

RecvPart(a) ==
  /\ sess[a] # 0 /\ down[a][sess[a]] # <<>> /\ Head(down[a][sess[a]]).type = "part"
  /\ ApplyPart(a, Head(down[a][sess[a]]))
  /\ down' = [down EXCEPT ![a][sess[a]] = Tail(@)]
  /\ UNCHANGED <<dbVars, centerVars, sessVars, boundVars>>

(* storage.apply_tare_changes of the changes of the message after own. *)
Fresh(p, own, m) == {i \in ChangesOf(p, m.last) : i > m.since /\ i > own}
ApplyChanges(rows, own, m) ==
  [p \in Pair |-> IF Fresh(p, own, m) # {} THEN Row(p, m.last) ELSE rows[p]]

(* Mutant: a gap in the numbers is not noticed. *)
ContinuesAnyway(a, m) == aseq[a] # None

(* The delta begins no later than the replica ends. *)
Continues(a, m) == aseq[a] # None /\ m.since <= aseq[a]

(* _apply_tare_delta: noted while a snapshot is being received, asked for  *)
(* again if it does not continue the replica, else applied.                *)
ApplyDelta(a, m) ==
  \/ /\ inProgress[a]
     /\ seen' = [seen EXCEPT ![a] = IF seen[a] = None \/ seen[a] < m.last THEN m.last ELSE @]
     /\ UNCHANGED <<replica, aseq, up>>
  \/ /\ ~inProgress[a]
     /\ ~Continues(a, m)
     /\ SendUp(a, SyncMsg(aseq[a]))
     /\ UNCHANGED <<replica, aseq, seen>>
  \/ /\ ~inProgress[a]
     /\ Continues(a, m)
     /\ IF m.last > aseq[a]
        THEN /\ replica' = [replica EXCEPT ![a] = ApplyChanges(@, aseq[a], m)]
             /\ aseq' = [aseq EXCEPT ![a] = m.last]
        ELSE UNCHANGED <<replica, aseq>>
     /\ UNCHANGED <<seen, up>>

RecvDelta(a) ==
  /\ sess[a] # 0 /\ down[a][sess[a]] # <<>> /\ Head(down[a][sess[a]]).type = "delta"
  /\ ApplyDelta(a, Head(down[a][sess[a]]))
  /\ down' = [down EXCEPT ![a][sess[a]] = Tail(@)]
  /\ UNCHANGED <<dbVars, centerVars, sessVars, staging, inProgress, boundVars>>

(***************************************************************************)
(* Specification.                                                          *)
(***************************************************************************)
PublishStep(b) ==
  PublishStart(b) \/ PublishSeq(b) \/ PublishData(b)
    \/ (\E a \in Agent : PublishSend(b, a)) \/ PublishEnd(b)
HandlerStep(a, k) ==
  HandleHello(a, k) \/ HandleHeartbeat(a, k) \/ HandleSyncRequest(a, k)
    \/ SyncSeq(a, k) \/ SyncData(a, k) \/ SyncSend(a, k)
Receive(a) == RecvPart(a) \/ RecvDelta(a)

Next ==
  \/ \E b \in Publisher : \/ \E p \in Pair, row \in BOOLEAN : Change(b, p, row)
                          \/ LosePublication(b) \/ PublishStep(b)
  \/ \E a \in Agent : Connect(a) \/ AgentDrop(a) \/ Heartbeat(a) \/ Receive(a)
  \/ \E a \in Agent, k \in Conn : HandlerStep(a, k) \/ HandlerEnd(a, k)
  \/ CenterCrash

(* Tasks and handlers of the event loops run, the client reconnects for    *)
(* ever and its heartbeat never stops; changes, breaks, restarts and       *)
(* failed publications are under no obligation.                            *)
Fairness ==
  /\ \A b \in Publisher : WF_vars(PublishStep(b))
  /\ \A a \in Agent :
       /\ WF_vars(Connect(a)) /\ WF_vars(Heartbeat(a)) /\ WF_vars(Receive(a))
       /\ WF_vars(sess[a] # 0 /\ hdl[a][sess[a]].pc = "off" /\ AgentDrop(a))
       /\ \A k \in Conn : WF_vars(HandlerStep(a, k))

Spec     == Init /\ [][Next]_vars
FairSpec == Spec /\ Fairness
WarmSpec == WarmInit /\ [][Next]_vars /\ Fairness

-----------------------------------------------------------------------------
(***************************************************************************)
(* Properties.                                                             *)
(***************************************************************************)

(* A replica that names change n shows, for every pair, the registry as of *)
(* n or of a later change: it never lacks a row it is taken to have        *)
(* ("the manual mode does not see a half-empty registry",                  *)
(* ws_client._apply_tare_snapshot), so deltas after n complete it.         *)
ReplicaSound ==
  \A a \in Agent : aseq[a] # None =>
    /\ aseq[a] <= Len(log)
    /\ \A p \in Pair : \E n \in aseq[a] .. Len(log) : replica[a][p] = Row(p, n)

(* When the changes stop, every replica becomes the registry and stays it, *)
(* whatever was lost, late or overtaken on the way (publish_tare_registry  *)
(* plus the catching up of hello and heartbeat).                           *)
Converges == <>[](\A a \in Agent : replica[a] = Registry(Len(log)))

(* The messages and the replica of every PC: well typed, and a replica     *)
(* that names a change lacks no row of it.                                 *)
ReplicaInv == TypeOK /\ ReplicaSound
=============================================================================
