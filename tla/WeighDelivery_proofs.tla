------------------------- MODULE WeighDelivery_proofs -------------------------
(***************************************************************************)
(* Theorems about WeighDelivery, for any sets of calls, records, numbers   *)
(* and scales and any bounds.                                              *)
(***************************************************************************)
EXTENDS WeighDelivery, SequenceTheorems, FiniteSetTheorems, TLAPS

-----------------------------------------------------------------------------
(***************************************************************************)
(* A channel is a family of queues. What is done to one queue keeps the    *)
(* family well typed, whatever the set of messages.                        *)
(***************************************************************************)
Channels(M) == [Scale -> [Conn -> Seq(M)]]

(* A message sent. *)
LEMMA ChannelAppend ==
  ASSUME NEW M, NEW ch \in Channels(M), NEW s \in Scale, NEW k \in Conn, NEW m \in M
  PROVE  [ch EXCEPT ![s][k] = Append(@, m)] \in Channels(M)
<1>1. ch[s][k] \in Seq(M)  BY DEF Channels
<1>2. Append(ch[s][k], m) \in Seq(M)  BY <1>1
<1> QED  BY <1>2 DEF Channels

(* A message received. *)
LEMMA ChannelTail ==
  ASSUME NEW M, NEW ch \in Channels(M), NEW s \in Scale, NEW k \in Conn, ch[s][k] # <<>>
  PROVE  /\ Head(ch[s][k]) \in M
         /\ [ch EXCEPT ![s][k] = Tail(@)] \in Channels(M)
<1>1. ch[s][k] \in Seq(M)  BY DEF Channels
<1>2. Head(ch[s][k]) \in M /\ Tail(ch[s][k]) \in Seq(M)  BY <1>1, HeadTailProperties
<1> QED  BY <1>2 DEF Channels

(* The end of what was sent lost. *)
LEMMA ChannelPrefix ==
  ASSUME NEW M, NEW ch \in Channels(M), NEW s \in Scale, NEW k \in Conn,
         NEW n \in 0 .. Len(ch[s][k])
  PROVE  [ch EXCEPT ![s][k] = SubSeq(@, 1, n)] \in Channels(M)
<1>1. ch[s][k] \in Seq(M)  BY DEF Channels
<1>2. \A i \in 1 .. n : ch[s][k][i] \in M  BY <1>1, ElementOfSeq, LenProperties
<1>3. SubSeq(ch[s][k], 1, n) \in Seq(M)
  BY <1>1, <1>2, LenProperties, SubSeqProperties
<1> QED  BY <1>3 DEF Channels

(* A queue forgotten. *)
LEMMA ChannelClear ==
  ASSUME NEW M, NEW ch \in Channels(M), NEW s \in Scale, NEW k \in Conn
  PROVE  [ch EXCEPT ![s][k] = <<>>] \in Channels(M)
<1>1. <<>> \in Seq(M)  BY EmptySeq
<1> QED  BY <1>1 DEF Channels

(* More messages allowed. *)
LEMMA ChannelMonotonic ==
  ASSUME NEW M, NEW N, M \subseteq N
  PROVE  Channels(M) \subseteq Channels(N)
<1>1. Seq(M) \subseteq Seq(N)  BY SeqMonotonic
<1> QED  BY <1>1 DEF Channels

-----------------------------------------------------------------------------
(***************************************************************************)
(* Type correctness.                                                       *)
(***************************************************************************)

(* The messages and handler states the actions build. *)
LEMMA MessageTypes ==
  /\ \A c \in Calls : WeighRequestMsg(c) \in DownMsg
  /\ \A R \in SUBSET Rec : AckMsg(R) \in DownMsg
  /\ \A c \in Calls : \A b \in BOOLEAN : WeighResultMsg(c, b) \in UpMsg
  /\ \A R \in SUBSET Rec : OfflineSyncMsg(R) \in UpMsg
  /\ \A m \in DownMsg : /\ m.type = "weigh_request" => m.call \in Calls
                        /\ m.type = "offline_sync_ack" => m.recs \in SUBSET Rec
  /\ \A m \in UpMsg : /\ m.type = "weigh_result" => m.call \in Calls /\ m.ok \in BOOLEAN
                      /\ m.type = "offline_sync" => m.recs \in SUBSET Rec
BY DEF WeighRequestMsg, AckMsg, WeighResultMsg, OfflineSyncMsg, DownMsg, UpMsg

LEMMA HandlerTypes ==
  /\ Off \in HandlerState /\ Recv \in HandlerState
  /\ \A c \in Calls, b \in BOOLEAN :
       [Recv EXCEPT !.pc = "resolve", !.call = c, !.ok = b] \in HandlerState
  /\ \A R \in SUBSET Rec : [Recv EXCEPT !.pc = "sync", !.todo = R] \in HandlerState
BY DEF Off, Recv, HandlerState

LEMMA HandlerFields ==
  /\ Recv.pc = "recv" /\ Recv.todo = {} /\ Recv.done = {}
  /\ \A c, b : LET h == [Recv EXCEPT !.pc = "resolve", !.call = c, !.ok = b] IN
       h.pc = "resolve" /\ h.todo = {} /\ h.done = {} /\ h.call = c /\ h.ok = b
  /\ \A R : LET h == [Recv EXCEPT !.pc = "sync", !.todo = R] IN
       h.pc = "sync" /\ h.todo = R /\ h.done = {}
BY DEF Recv

LEMMA ConnNext == ASSUME NEW n \in Conn, n < MaxConn PROVE n + 1 \in Conn
BY BoundsAssumption DEF Conn

(* Sending from the PC keeps the queues well typed. *)
LEMMA SendUpType ==
  ASSUME TypeOK, NEW s \in Scale, NEW m \in UpMsg, SendUp(s, m)
  PROVE  up' \in Channels(UpMsg)
<1>1. up \in Channels(UpMsg) /\ sess[s] \in Conn  BY DEF TypeOK, Channels
<1>2. [up EXCEPT ![s][sess[s]] = Append(@, m)] \in Channels(UpMsg)  BY <1>1, ChannelAppend
<1> QED  BY <1>1, <1>2 DEF SendUp

(* What is sent as a portion is a set of records. *)
LEMMA PortionType ==
  ASSUME TypeOK, NEW Q \in SUBSET Rec, NEW B \in Portions(Q)
  PROVE  B \in SUBSET Rec
BY DEF Portions

LEMMA FinishType ==
  ASSUME TypeOK, NEW c \in Calls, NEW v \in Rec \cup Failure \cup {None}, Finish(c, v)
  PROVE  /\ reply' \in [Calls -> Rec \cup Failure \cup {None}]
         /\ call' \in [Calls -> {"idle", "join", "check", "hint", "wait", "done"}]
         /\ inflight' \in [Ref -> Calls \cup {None}]
BY DEF TypeOK, Finish

LEMMA SaveType ==
  ASSUME TypeOK, NEW r \in Rec, Save(r)
  PROVE  /\ journal' \in SUBSET Rec
         /\ refLink' \in [Ref -> Rec \cup {None}]
BY DEF TypeOK, Save

LEMMA TypeInit == Init => TypeOK
<1> SUFFICES ASSUME Init PROVE TypeOK  OBVIOUS
<1>1. 0 \in Conn /\ 0 \in 0 .. MaxCrash  BY BoundsAssumption DEF Conn
<1>2. /\ [s \in Scale |-> [k \in Conn |-> <<>>]] \in [Scale -> [Conn -> Seq(UpMsg)]]
      /\ [s \in Scale |-> [k \in Conn |-> <<>>]] \in [Scale -> [Conn -> Seq(DownMsg)]]
  BY EmptySeq
<1> QED  BY <1>1, <1>2, HandlerTypes DEF Init, TypeOK

(* The steps of the weighing PC. *)
LEMMA AgentType ==
  ASSUME TypeOK, NEW s \in Scale, Connect(s) \/ AgentDrop(s) \/ AgentStep(s)
  PROVE  TypeOK'
<1> USE DEF TypeOK
<1>1. CASE Connect(s)
  <2>1. nconn[s] + 1 \in Conn  BY <1>1, ConnNext DEF Connect
  <2> QED  BY <1>1, <2>1, HandlerTypes DEF Connect, Attach
<1>2. CASE AgentDrop(s)
  <2>1. up' \in Channels(UpMsg)
    <3>1. PICK n \in 0 .. Len(up[s][sess[s]]) :
            up' = [up EXCEPT ![s][sess[s]] = SubSeq(@, 1, n)]
      BY <1>2 DEF AgentDrop
    <3>2. up \in Channels(UpMsg) /\ sess[s] \in Conn  BY DEF Channels
    <3> QED  BY <3>1, <3>2, ChannelPrefix
  <2>2. down' \in Channels(DownMsg)
    BY <1>2, ChannelClear DEF AgentDrop, Channels
  <2>3. 0 \in Conn  BY BoundsAssumption DEF Conn
  <2> QED  BY <1>2, <2>1, <2>2, <2>3 DEF AgentDrop, Channels
<1>3. CASE RecvRequest(s)
  <2>1. /\ Head(down[s][sess[s]]) \in DownMsg
        /\ down' \in Channels(DownMsg)
    BY <1>3, ChannelTail DEF RecvRequest, Channels
  <2>2. Head(down[s][sess[s]]).call \in Calls
    BY <1>3, <2>1, MessageTypes DEF RecvRequest
  <2>3. up' \in Channels(UpMsg)
    BY <1>3, <2>2, SendUpType, MessageTypes DEF RecvRequest, Channels
  <2> QED  BY <1>3, <2>1, <2>2, <2>3 DEF RecvRequest, Channels
<1>4. CASE RecvAck(s)
  <2>1. /\ Head(down[s][sess[s]]) \in DownMsg
        /\ down' \in Channels(DownMsg)
    BY <1>4, ChannelTail DEF RecvAck, Channels
  <2>2. \A R : Unsynced(s) \ R \in SUBSET Rec  BY DEF Unsynced
  <2>3. up' \in Channels(UpMsg)
    <3>1. CASE UNCHANGED up  BY <3>1 DEF Channels
    <3> DEFINE rest == Unsynced(s) \ Head(down[s][sess[s]]).recs
    <3>2. CASE \E B \in Portions(rest) : SendUp(s, OfflineSyncMsg(B))
      <4>1. PICK B \in Portions(rest) : SendUp(s, OfflineSyncMsg(B))  BY <3>2
      <4>2. B \in SUBSET Rec
        <5>1. rest \in SUBSET Rec  BY <2>2
        <5> HIDE DEF rest
        <5> QED  BY <5>1, PortionType
      <4> QED  BY <4>1, <4>2, SendUpType, MessageTypes
    <3> QED  BY <1>4, <3>1, <3>2 DEF RecvAck
  <2> QED  BY <1>4, <2>1, <2>3 DEF RecvAck, Channels, MarkSynced, centerVars
<1>5. CASE SendPending(s)
  <2>1. Unsynced(s) \in SUBSET Rec  BY DEF Unsynced
  <2>2. up' \in Channels(UpMsg)
    BY <1>5, <2>1, SendUpType, PortionType, MessageTypes DEF SendPending, Channels
  <2> QED  BY <1>5, <2>2 DEF SendPending, Channels, centerVars
<1> QED  BY <1>1, <1>2, <1>3, <1>4, <1>5 DEF AgentStep

(* The request tasks and the manual mode. *)
LEMMA TaskType ==
  ASSUME TypeOK, NEW c \in Calls, TaskStep(c)
  PROVE  TypeOK'
<1> USE DEF TypeOK
<1>1. ScaleOf[c] \in Scale  BY ScaleOfAssumption DEF Rec
<1>2. CASE Record(c)
  <2>1. up' \in Channels(UpMsg)
    BY <1>1, <1>2, SendUpType, MessageTypes DEF Record, Channels
  <2> QED  BY <1>2, <2>1 DEF Record, SaveWeighing, Channels, Rec
<1>3. CASE SendResult(c)
  <2>1. up' \in Channels(UpMsg)
    BY <1>1, <1>3, SendUpType, MessageTypes DEF SendResult, Channels
  <2> QED  BY <1>3, <2>1 DEF SendResult, Channels
<1> QED  BY <1>2, <1>3 DEF TaskStep

LEMMA ManualType ==
  ASSUME TypeOK, NEW m \in Manuals, ManualRecord(m)
  PROVE  TypeOK'
BY DEF TypeOK, ManualRecord, SaveWeighing, Rec, wireVars, centerVars

(* The handlers of the center. *)
LEMMA HandlerType ==
  ASSUME TypeOK, NEW s \in Scale, NEW k \in Conn, HandlerStep(s, k) \/ HandlerEnd(s, k)
  PROVE  TypeOK'
<1> USE DEF TypeOK
<1>1. CASE HandleResult(s, k)
  <2> DEFINE m == Head(up[s][k])
  <2>1. m \in UpMsg /\ up' \in Channels(UpMsg)
    BY <1>1, ChannelTail DEF HandleResult, Channels
  <2>2. m.call \in Calls /\ m.call \in Rec /\ m.ok \in BOOLEAN
    BY <1>1, <2>1, MessageTypes DEF HandleResult, Rec
  <2>3. journal' \in SUBSET Rec /\ refLink' \in [Ref -> Rec \cup {None}]
    BY <1>1, <2>2, SaveType DEF HandleResult
  <2>4. hdl' \in [Scale -> [Conn -> HandlerState]]
    BY <1>1, <2>2, HandlerTypes DEF HandleResult
  <2> QED  BY <1>1, <2>1, <2>3, <2>4 DEF HandleResult, Channels, agentVars
<1>2. CASE ResolveResult(s, k)
  BY <1>2, HandlerTypes DEF ResolveResult, agentVars, wireVars
<1>3. CASE HandleSync(s, k)
  <2>1. Head(up[s][k]) \in UpMsg /\ up' \in Channels(UpMsg)
    BY <1>3, ChannelTail DEF HandleSync, Channels
  <2>2. Head(up[s][k]).recs \in SUBSET Rec
    BY <1>3, <2>1, MessageTypes DEF HandleSync
  <2>3. hdl' \in [Scale -> [Conn -> HandlerState]]
    BY <1>3, <2>2, HandlerTypes DEF HandleSync
  <2> QED  BY <1>3, <2>1, <2>3 DEF HandleSync, Channels, agentVars
<1>4. CASE SyncOne(s, k)
  <2>1. PICK r \in hdl[s][k].todo :
          /\ Save(r)
          /\ hdl' = [hdl EXCEPT ![s][k] = Accepted(@, r)]
    BY <1>4 DEF SyncOne
  <2>2. r \in Rec  BY <2>1 DEF HandlerState
  <2>3. journal' \in SUBSET Rec /\ refLink' \in [Ref -> Rec \cup {None}]
    BY <2>1, <2>2, SaveType
  <2>4. hdl[s][k] \in HandlerState  OBVIOUS
  <2>5. Accepted(hdl[s][k], r) \in HandlerState  BY <2>2, <2>4 DEF HandlerState, Accepted
  <2>6. hdl' \in [Scale -> [Conn -> HandlerState]]  BY <2>1, <2>5
  <2> QED  BY <1>4, <2>3, <2>6 DEF SyncOne, agentVars, wireVars
<1>5. CASE SyncAck(s, k)
  <2>1. hdl[s][k].done \in SUBSET Rec  BY DEF HandlerState
  <2>2. down' \in Channels(DownMsg)
    BY <1>5, <2>1, ChannelAppend, MessageTypes DEF SyncAck, Channels
  <2>3. hdl' \in [Scale -> [Conn -> HandlerState]]  BY <1>5, HandlerTypes DEF SyncAck
  <2> QED  BY <1>5, <2>2, <2>3 DEF SyncAck, Channels, agentVars
<1>6. CASE HandlerEnd(s, k)
  <2>1. up' \in Channels(UpMsg)  BY <1>6, ChannelClear DEF HandlerEnd, Channels
  <2>2. 0 \in Conn  BY BoundsAssumption DEF Conn
  <2>3. hdl' \in [Scale -> [Conn -> HandlerState]]  BY <1>6, HandlerTypes DEF HandlerEnd
  <2>4. /\ link' \in [Scale -> Conn]
        /\ pend' \in [Calls -> {"none", "wait", "ok", "refused", "offline"}]
    <3>1. CASE IsCurrent(s, k)
      <4>1. link' = [link EXCEPT ![s] = 0] /\ FailPending(s)  BY <1>6, <3>1 DEF HandlerEnd
      <4>2. link' \in [Scale -> Conn]  BY <2>2, <4>1
      <4> QED  BY <4>1, <4>2 DEF FailPending
    <3>2. CASE ~IsCurrent(s, k)  BY <1>6, <3>2 DEF HandlerEnd
    <3> QED  BY <3>1, <3>2
  <2> QED  BY <1>6, <2>1, <2>3, <2>4 DEF HandlerEnd, Channels, agentVars
<1> QED  BY <1>1, <1>2, <1>3, <1>4, <1>5, <1>6 DEF HandlerStep

(* The HTTP handlers of the center. *)
LEMMA CallType ==
  ASSUME TypeOK, NEW c \in Calls, Arrive(c) \/ CallStep(c) \/ CallFails(c)
  PROVE  TypeOK'
<1> USE DEF TypeOK, agentVars, wireVars
<1>a. RefOf[c] \in Ref /\ ScaleOf[c] \in Scale /\ c \in Rec
  BY RefOfAssumption, ScaleOfAssumption DEF Rec
<1>b. {"offline", "internal", "refused", "lost"} \subseteq Failure  BY DEF Failure
<1>1. CASE Arrive(c)
  <2>1. call' \in [Calls -> {"idle", "join", "check", "hint", "wait", "done"}]
    <3>1. call' \in {[call EXCEPT ![c] = "join"], [call EXCEPT ![c] = "check"]}
      BY <1>1 DEF Arrive
    <3> QED  BY <3>1
  <2>2. inflight' \in [Ref -> Calls \cup {None}]
    <3>1. inflight' \in {inflight, [inflight EXCEPT ![RefOf[c]] = c]}
      BY <1>1 DEF Arrive
    <3> QED  BY <3>1, <1>a
  <2> QED  BY <1>1, <2>1, <2>2 DEF Arrive
<1>2. CASE CheckExisting(c)
  BY <1>2, <1>a, FinishType DEF CheckExisting, Existing
<1>3. CASE SendCommand(c)
  <2>1. down' \in Channels(DownMsg)
    <3>1. down \in Channels(DownMsg) /\ link[ScaleOf[c]] \in Conn  BY <1>a DEF Channels
    <3>2. [down EXCEPT ![ScaleOf[c]][link[ScaleOf[c]]] = Append(@, WeighRequestMsg(c))]
            \in Channels(DownMsg)
      BY <1>a, <3>1, ChannelAppend, MessageTypes
    <3> QED  BY <1>3, <3>1, <3>2 DEF SendCommand
  <2> QED  BY <1>3, <1>a, <1>b, <2>1, FinishType DEF SendCommand, Channels
<1>4. CASE Wake(c)  BY <1>4, <1>a, <1>b, FinishType DEF Wake
<1>5. CASE CommandTimeout(c)  BY <1>5, <1>b, FinishType DEF CommandTimeout
<1>6. CASE CallFails(c)  BY <1>6, <1>b, FinishType DEF CallFails
<1> QED  BY <1>1, <1>2, <1>3, <1>4, <1>5, <1>6 DEF CallStep

LEMMA LinkType ==
  ASSUME TypeOK, NEW r \in Rec, NEW f \in Ref, LinkCallback(r, f)
  PROVE  TypeOK'
BY DEF TypeOK, LinkCallback, agentVars, wireVars

LEMMA CrashType == ASSUME TypeOK, CenterCrash PROVE TypeOK'
<1>1. 0 \in Conn  BY BoundsAssumption DEF Conn
<1>2. up' \in [Scale -> [Conn -> Seq(UpMsg)]]  BY EmptySeq DEF CenterCrash
<1>3. crashes' \in 0 .. MaxCrash  BY BoundsAssumption DEF TypeOK, CenterCrash
<1>4. link' \in [Scale -> Conn] /\ hdl' \in [Scale -> [Conn -> HandlerState]]
  BY <1>1, HandlerTypes DEF CenterCrash
<1>5. /\ pend' \in [Calls -> {"none", "wait", "ok", "refused", "offline"}]
      /\ inflight' \in [Ref -> Calls \cup {None}]
      /\ call' \in [Calls -> {"idle", "join", "check", "hint", "wait", "done"}]
      /\ reply' \in [Calls -> Rec \cup Failure \cup {None}]
  BY DEF TypeOK, CenterCrash, Failure
<1> QED  BY <1>2, <1>3, <1>4, <1>5 DEF TypeOK, CenterCrash, agentVars

(* Every variable keeps its type: in particular an answer to the AIS is    *)
(* always a record or one of the coded failures.                           *)
THEOREM TypeCorrect == Spec => []TypeOK
<1>1. Init => TypeOK  BY TypeInit
<1>2. TypeOK /\ [Next]_vars => TypeOK'
  <2>1. TypeOK /\ UNCHANGED vars => TypeOK'  BY DEF TypeOK, vars
  <2>2. TypeOK /\ Next => TypeOK'
    BY AgentType, TaskType, ManualType, HandlerType, CallType, LinkType, CrashType DEF Next
  <2> QED  BY <2>1, <2>2
<1> QED  BY <1>1, <1>2, PTL DEF Spec

-----------------------------------------------------------------------------
(***************************************************************************)
(* Delivery: synced \subseteq journal \subseteq local, by DeliveryInv.     *)
(***************************************************************************)
Typed == TypeOK /\ TypeOK'

(* Both journals only grow, so what was sound on a channel stays sound. *)
LEMMA SoundGrows ==
  ASSUME local \subseteq local', journal \subseteq journal'
  PROVE  /\ Channels(SoundUp) \subseteq Channels(SoundUp')
         /\ Channels(SoundDown) \subseteq Channels(SoundDown')
<1>1. SoundUp \subseteq SoundUp' /\ SoundDown \subseteq SoundDown'
  BY DEF SoundUp, SoundDown
<1> QED  BY <1>1, ChannelMonotonic

(* The sound messages the actions build. *)
LEMMA SoundMessages ==
  /\ \A c \in Calls : WeighResultMsg(c, FALSE) \in SoundUp
  /\ \A c \in Calls : c \in local => WeighResultMsg(c, TRUE) \in SoundUp
  /\ \A R \in SUBSET Rec : R \subseteq local => OfflineSyncMsg(R) \in SoundUp
  /\ \A R \in SUBSET Rec : R \subseteq journal => AckMsg(R) \in SoundDown
  /\ \A c \in Calls : WeighRequestMsg(c) \in SoundDown
BY MessageTypes
   DEF SoundUp, SoundDown, WeighResultMsg, OfflineSyncMsg, AckMsg, WeighRequestMsg

(* What the parts of DeliveryInv outside the channels come to when neither *)
(* the journals nor the handlers lose anything.                            *)
LEMMA SendUpSound ==
  ASSUME TypeOK, DeliveryInv, NEW s \in Scale, NEW m \in SoundUp, SendUp(s, m)
  PROVE  up' \in Channels(SoundUp)
<1>1. up \in Channels(SoundUp) /\ sess[s] \in Conn  BY DEF TypeOK, DeliveryInv, Channels
<1>2. [up EXCEPT ![s][sess[s]] = Append(@, m)] \in Channels(SoundUp)  BY <1>1, ChannelAppend
<1> QED  BY <1>1, <1>2 DEF SendUp

LEMMA UnsyncedSound ==
  ASSUME TypeOK, NEW s \in Scale, NEW R, NEW B \in Portions(Unsynced(s) \ R)
  PROVE  B \in SUBSET Rec /\ B \subseteq local
BY DEF TypeOK, Portions, Unsynced

LEMMA DeliveryInit == Init => DeliveryInv
<1> SUFFICES ASSUME Init PROVE DeliveryInv  OBVIOUS
<1>1. /\ up \in [Scale -> [Conn -> Seq(SoundUp)]]
      /\ down \in [Scale -> [Conn -> Seq(SoundDown)]]
  BY EmptySeq DEF Init
<1> QED  BY <1>1 DEF Init, DeliveryInv, DurableSync, Off

LEMMA AgentDelivery ==
  ASSUME Typed, DeliveryInv, NEW s \in Scale, Connect(s) \/ AgentDrop(s) \/ AgentStep(s)
  PROVE  DeliveryInv'
<1> USE DEF Typed
<1>0. /\ up \in Channels(SoundUp) /\ down \in Channels(SoundDown) /\ sess[s] \in Conn
      /\ local' = local /\ journal' = journal
  BY DEF TypeOK, DeliveryInv, Channels, Connect, AgentDrop, AgentStep, RecvRequest,
         RecvAck, SendPending, centerVars
<1>s. SoundUp' = SoundUp /\ SoundDown' = SoundDown  BY <1>0 DEF SoundUp, SoundDown
<1>1. CASE Connect(s)
  <2>1. nconn[s] + 1 \in Conn  BY <1>1, ConnNext DEF Connect, TypeOK
  <2>2. \A z \in Scale, k \in Conn :
          hdl'[z][k] = hdl[z][k] \/ hdl'[z][k] = Recv
    BY <1>1, <2>1 DEF Connect, Attach, TypeOK
  <2>3. \A z \in Scale, k \in Conn :
          /\ hdl'[z][k].todo \subseteq local /\ hdl'[z][k].done \subseteq journal
          /\ hdl'[z][k].pc = "resolve" /\ hdl'[z][k].ok => hdl'[z][k].call \in journal
    <3>1. ASSUME NEW z \in Scale, NEW k \in Conn
          PROVE  /\ hdl'[z][k].todo \subseteq local /\ hdl'[z][k].done \subseteq journal
                 /\ hdl'[z][k].pc = "resolve" /\ hdl'[z][k].ok => hdl'[z][k].call \in journal
      <4>1. CASE hdl'[z][k] = hdl[z][k]  BY <4>1 DEF DeliveryInv
      <4>2. CASE hdl'[z][k] = Recv  BY <4>2, HandlerFields
      <4> QED  BY <2>2, <4>1, <4>2
    <3> QED  BY <3>1
  <2> QED  BY <1>0, <1>s, <1>1, <2>3 DEF DeliveryInv, DurableSync, Connect
<1>2. CASE AgentDrop(s)
  <2>1. up' \in Channels(SoundUp)
    <3>1. PICK n \in 0 .. Len(up[s][sess[s]]) :
            up' = [up EXCEPT ![s][sess[s]] = SubSeq(@, 1, n)]
      BY <1>2 DEF AgentDrop
    <3> QED  BY <1>0, <3>1, ChannelPrefix
  <2>2. down' \in Channels(SoundDown)  BY <1>0, <1>2, ChannelClear DEF AgentDrop
  <2>3. \A c \in Calls : task'[c] = "saved" => task[c] = "saved"
    BY <1>2 DEF AgentDrop, TypeOK
  <2> QED
    BY <1>0, <1>s, <1>2, <2>1, <2>2, <2>3 DEF DeliveryInv, DurableSync, AgentDrop, Channels
<1>3. CASE RecvRequest(s)
  <2> DEFINE m == Head(down[s][sess[s]])
  <2>1. m \in SoundDown /\ down' \in Channels(SoundDown)
    BY <1>0, <1>3, ChannelTail DEF RecvRequest
  <2>2. m.call \in Calls  BY <1>3, <2>1, MessageTypes DEF RecvRequest, SoundDown
  <2>3. up' \in Channels(SoundUp)
    BY <1>0, <1>3, <2>2, SendUpSound, SoundMessages DEF RecvRequest
  <2>4. \A c \in Calls : task'[c] = "saved" => task[c] = "saved"
    BY <1>3 DEF RecvRequest, TypeOK
  <2> QED
    BY <1>0, <1>s, <1>3, <2>1, <2>3, <2>4 DEF DeliveryInv, DurableSync, RecvRequest, Channels
<1>4. CASE RecvAck(s)
  <2> DEFINE m == Head(down[s][sess[s]])
  <2>1. m \in SoundDown /\ down' \in Channels(SoundDown)
    BY <1>0, <1>4, ChannelTail DEF RecvAck
  <2>2. m.recs \subseteq journal  BY <1>4, <2>1 DEF RecvAck, SoundDown
  <2>3. synced' \subseteq journal
    BY <1>4, <2>2 DEF RecvAck, MarkSynced, DeliveryInv, DurableSync
  <2>4. up' \in Channels(SoundUp)
    <3>1. CASE UNCHANGED up  BY <1>0, <3>1
    <3>2. CASE \E B \in Portions(Unsynced(s) \ m.recs) : SendUp(s, OfflineSyncMsg(B))
      <4>1. PICK B \in Portions(Unsynced(s) \ m.recs) : SendUp(s, OfflineSyncMsg(B))
        BY <3>2
      <4>2. OfflineSyncMsg(B) \in SoundUp  BY UnsyncedSound, SoundMessages
      <4> QED  BY <4>1, <4>2, SendUpSound
    <3> QED  BY <1>4, <3>1, <3>2 DEF RecvAck
  <2> QED
    BY <1>0, <1>s, <1>4, <2>1, <2>3, <2>4
    DEF DeliveryInv, DurableSync, RecvAck, Channels, centerVars
<1>5. CASE SendPending(s)
  <2>1. PICK B \in Portions(Unsynced(s)) : SendUp(s, OfflineSyncMsg(B))
    BY <1>5 DEF SendPending
  <2>2. OfflineSyncMsg(B) \in SoundUp
    <3>1. B \in SUBSET Rec /\ B \subseteq local  BY DEF TypeOK, Portions, Unsynced
    <3> QED  BY <3>1, SoundMessages
  <2>3. up' \in Channels(SoundUp)  BY <2>1, <2>2, SendUpSound
  <2> QED
    BY <1>0, <1>s, <1>5, <2>3 DEF DeliveryInv, DurableSync, SendPending, Channels, centerVars
<1> QED  BY <1>1, <1>2, <1>3, <1>4, <1>5 DEF AgentStep

LEMMA TaskDelivery ==
  ASSUME Typed, DeliveryInv, NEW c \in Calls, TaskStep(c)
  PROVE  DeliveryInv'
<1> USE DEF Typed
<1>0. /\ up \in Channels(SoundUp) /\ down \in Channels(SoundDown)
      /\ ScaleOf[c] \in Scale /\ c \in Rec
      /\ local \subseteq local' /\ journal' = journal
  BY ScaleOfAssumption
  DEF TypeOK, DeliveryInv, Channels, TaskStep, Record, SendResult, SaveWeighing, Rec
<1>s. Channels(SoundUp) \subseteq Channels(SoundUp') /\ SoundDown' = SoundDown
  BY <1>0, SoundGrows DEF SoundDown
<1>1. CASE Record(c)
  <2>1. up' \in Channels(SoundUp)
    BY <1>0, <1>1, SendUpSound, SoundMessages DEF Record
  <2>2. \A d \in Calls : task'[d] = "saved" => d \in local'
    BY <1>1 DEF Record, SaveWeighing, DeliveryInv, TypeOK
  <2> QED
    BY <1>0, <1>s, <1>1, <2>1, <2>2 DEF DeliveryInv, DurableSync, Record, Channels
<1>2. CASE SendResult(c)
  <2>1. WeighResultMsg(c, TRUE) \in SoundUp
    BY <1>2, SoundMessages DEF SendResult, DeliveryInv
  <2>2. up' \in Channels(SoundUp)  BY <1>0, <1>2, <2>1, SendUpSound DEF SendResult
  <2>3. \A d \in Calls : task'[d] = "saved" => task[d] = "saved"
    BY <1>2 DEF SendResult, TypeOK
  <2> QED
    BY <1>0, <1>s, <1>2, <2>2, <2>3 DEF DeliveryInv, DurableSync, SendResult, Channels
<1> QED  BY <1>1, <1>2 DEF TaskStep

LEMMA ManualDelivery ==
  ASSUME Typed, DeliveryInv, NEW m \in Manuals, ManualRecord(m)
  PROVE  DeliveryInv'
<1>1. /\ up \in Channels(SoundUp) /\ local \subseteq local' /\ journal' = journal
  BY DEF DeliveryInv, Channels, ManualRecord, SaveWeighing, centerVars
<1>2. up \in Channels(SoundUp') /\ SoundDown' = SoundDown
  BY <1>1, SoundGrows DEF SoundDown
<1> QED
  BY <1>1, <1>2 DEF DeliveryInv, DurableSync, ManualRecord, SaveWeighing, Channels,
                    wireVars, centerVars

(* The handlers of the center: a record is saved before its waiter is      *)
(* woken, and counted as accepted only once it is saved.                   *)
LEMMA HandlerDelivery ==
  ASSUME Typed, DeliveryInv, NEW s \in Scale, NEW k \in Conn,
         HandlerStep(s, k) \/ HandlerEnd(s, k)
  PROVE  DeliveryInv'
<1> USE DEF Typed
<1>0. /\ up \in Channels(SoundUp) /\ down \in Channels(SoundDown)
      /\ hdl \in [Scale -> [Conn -> HandlerState]]
  BY DEF TypeOK, DeliveryInv, Channels
<1>1. CASE HandleResult(s, k)
  <2> DEFINE m == Head(up[s][k])
  <2>1. m \in SoundUp /\ up' \in Channels(SoundUp)
    BY <1>0, <1>1, ChannelTail DEF HandleResult
  <2>2. m.ok => m.call \in local
    BY <1>1, <2>1 DEF HandleResult, SoundUp
  <2>3. /\ local' = local /\ journal \subseteq journal' /\ journal' \subseteq local
        /\ m.ok => m.call \in journal'
    BY <1>1, <2>2 DEF HandleResult, Save, DeliveryInv, DurableSync, agentVars
  <2>4. /\ up' \in Channels(SoundUp') /\ down \in Channels(SoundDown')
    BY <1>0, <2>1, <2>3, SoundGrows DEF SoundUp
  <2>5. \A z \in Scale, j \in Conn :
          hdl'[z][j] = hdl[z][j] \/
          hdl'[z][j] = [Recv EXCEPT !.pc = "resolve", !.call = m.call, !.ok = m.ok]
    BY <1>0, <1>1 DEF HandleResult
  <2>6. \A z \in Scale, j \in Conn :
          /\ hdl'[z][j].todo \subseteq local /\ hdl'[z][j].done \subseteq journal'
          /\ hdl'[z][j].pc = "resolve" /\ hdl'[z][j].ok => hdl'[z][j].call \in journal'
    <3> DEFINE h == [Recv EXCEPT !.pc = "resolve", !.call = m.call, !.ok = m.ok]
    <3>1. h.todo = {} /\ h.done = {} /\ h.call = m.call /\ h.ok = m.ok  BY HandlerFields
    <3>2. \A z \in Scale, j \in Conn : hdl'[z][j] = hdl[z][j] \/ hdl'[z][j] = h  BY <2>5
    <3> HIDE DEF h
    <3> QED  BY <2>3, <3>1, <3>2 DEF DeliveryInv
  <2> QED
    BY <1>1, <2>3, <2>4, <2>6 DEF DeliveryInv, DurableSync, HandleResult, Channels, agentVars
<1>2. CASE ResolveResult(s, k)
  <2>1. SoundUp' = SoundUp /\ SoundDown' = SoundDown
    BY <1>2 DEF ResolveResult, agentVars, SoundUp, SoundDown
  <2>2. \A c \in Calls : pend'[c] = "ok" => c \in journal
    <3> DEFINE h == hdl[s][k]
    <3>1. h.pc = "resolve" /\ h.ok => h.call \in journal  BY DEF DeliveryInv
    <3>2. h \in HandlerState  BY <1>0
    <3>3. h.ok \in BOOLEAN  BY <3>2 DEF HandlerState
    <3>4. h.pc = "resolve"  BY <1>2 DEF ResolveResult
    <3> HIDE DEF h
    <3>5. pend' = IF pend[h.call] = "wait" /\ ScaleOf[h.call] = s
                  THEN [pend EXCEPT ![h.call] = IF h.ok THEN "ok" ELSE "refused"]
                  ELSE pend
      BY <1>2 DEF ResolveResult, h
    <3> QED  BY <3>1, <3>3, <3>4, <3>5 DEF DeliveryInv, TypeOK
  <2>3. \A z \in Scale, j \in Conn : hdl'[z][j] = hdl[z][j] \/ hdl'[z][j] = Recv
    BY <1>0, <1>2 DEF ResolveResult
  <2> QED
    BY <1>2, <2>1, <2>2, <2>3
    DEF DeliveryInv, DurableSync, ResolveResult, Recv, agentVars, wireVars
<1>3. CASE HandleSync(s, k)
  <2> DEFINE m == Head(up[s][k])
  <2>1. m \in SoundUp /\ up' \in Channels(SoundUp)
    BY <1>0, <1>3, ChannelTail DEF HandleSync
  <2>2. m.recs \subseteq local  BY <1>3, <2>1 DEF HandleSync, SoundUp
  <2>3. SoundUp' = SoundUp /\ SoundDown' = SoundDown
    BY <1>3 DEF HandleSync, agentVars, SoundUp, SoundDown
  <2>4. \A z \in Scale, j \in Conn :
          hdl'[z][j] = hdl[z][j] \/ hdl'[z][j] = [Recv EXCEPT !.pc = "sync", !.todo = m.recs]
    BY <1>0, <1>3 DEF HandleSync
  <2>5. \A z \in Scale, j \in Conn :
          /\ hdl'[z][j].todo \subseteq local /\ hdl'[z][j].done \subseteq journal
          /\ hdl'[z][j].pc = "resolve" /\ hdl'[z][j].ok => hdl'[z][j].call \in journal
    <3> DEFINE h == [Recv EXCEPT !.pc = "sync", !.todo = m.recs]
    <3>1. h.todo = m.recs /\ h.done = {} /\ h.pc = "sync"  BY HandlerFields
    <3>2. \A z \in Scale, j \in Conn : hdl'[z][j] = hdl[z][j] \/ hdl'[z][j] = h  BY <2>4
    <3> HIDE DEF h
    <3> QED  BY <2>2, <3>1, <3>2 DEF DeliveryInv
  <2> QED
    BY <1>3, <2>1, <2>3, <2>5 DEF DeliveryInv, DurableSync, HandleSync, Channels, agentVars
<1>4. CASE SyncOne(s, k)
  <2>1. PICK r \in hdl[s][k].todo :
          /\ Save(r)
          /\ hdl' = [hdl EXCEPT ![s][k] = Accepted(@, r)]
    BY <1>4 DEF SyncOne
  <2>2. r \in local  BY DEF DeliveryInv
  <2>3. /\ local' = local /\ journal' = journal \cup {r} /\ journal' \subseteq local
    BY <1>4, <2>1, <2>2 DEF SyncOne, Save, DeliveryInv, DurableSync, agentVars
  <2>4. up \in Channels(SoundUp') /\ down \in Channels(SoundDown')
    BY <1>0, <2>3, SoundGrows
  <2>5. /\ Accepted(hdl[s][k], r).todo \subseteq local
        /\ Accepted(hdl[s][k], r).done \subseteq journal'
        /\ Accepted(hdl[s][k], r).pc # "resolve"
    <3>1. hdl[s][k] \in HandlerState /\ hdl[s][k].pc = "sync"  BY <1>0, <1>4 DEF SyncOne
    <3>2. hdl[s][k].todo \subseteq local /\ hdl[s][k].done \subseteq journal  BY DEF DeliveryInv
    <3> QED  BY <2>3, <3>1, <3>2 DEF Accepted, HandlerState
  <2>6. \A z \in Scale, j \in Conn :
          hdl'[z][j] = hdl[z][j] \/ (z = s /\ j = k /\ hdl'[z][j] = Accepted(hdl[s][k], r))
    BY <1>0, <2>1
  <2>7. \A z \in Scale, j \in Conn :
          /\ hdl'[z][j].todo \subseteq local /\ hdl'[z][j].done \subseteq journal'
          /\ hdl'[z][j].pc = "resolve" /\ hdl'[z][j].ok => hdl'[z][j].call \in journal'
    BY <2>3, <2>5, <2>6 DEF DeliveryInv
  <2> QED
    BY <1>4, <2>3, <2>4, <2>7 DEF DeliveryInv, DurableSync, SyncOne, Channels, agentVars, wireVars
<1>5. CASE SyncAck(s, k)
  <2>1. SoundUp' = SoundUp /\ SoundDown' = SoundDown
    BY <1>5 DEF SyncAck, agentVars, SoundUp, SoundDown
  <2>2. AckMsg(hdl[s][k].done) \in SoundDown
    <3>1. hdl[s][k].done \in SUBSET Rec  BY <1>0 DEF HandlerState
    <3> QED  BY <3>1, SoundMessages DEF DeliveryInv
  <2>3. down' \in Channels(SoundDown)
    <3>1. [down EXCEPT ![s][k] = Append(@, AckMsg(hdl[s][k].done))] \in Channels(SoundDown)
      BY <1>0, <2>2, ChannelAppend
    <3> QED  BY <1>0, <1>5, <3>1 DEF SyncAck
  <2>4. \A z \in Scale, j \in Conn : hdl'[z][j] = hdl[z][j] \/ hdl'[z][j] = Recv
    BY <1>0, <1>5 DEF SyncAck
  <2> QED
    BY <1>5, <2>1, <2>3, <2>4 DEF DeliveryInv, DurableSync, SyncAck, Recv, Channels, agentVars
<1>6. CASE HandlerEnd(s, k)
  <2>1. SoundUp' = SoundUp /\ SoundDown' = SoundDown
    BY <1>6 DEF HandlerEnd, agentVars, SoundUp, SoundDown
  <2>2. up' \in Channels(SoundUp)  BY <1>0, <1>6, ChannelClear DEF HandlerEnd
  <2>3. \A z \in Scale, j \in Conn : hdl'[z][j] = hdl[z][j] \/ hdl'[z][j] = Off
    BY <1>0, <1>6 DEF HandlerEnd
  <2>4. \A c \in Calls : pend'[c] = "ok" => pend[c] = "ok"
    BY <1>6 DEF HandlerEnd, FailPending
  <2> QED
    BY <1>6, <2>1, <2>2, <2>3, <2>4
    DEF DeliveryInv, DurableSync, HandlerEnd, Off, Channels, agentVars
<1> QED  BY <1>1, <1>2, <1>3, <1>4, <1>5, <1>6 DEF HandlerStep

LEMMA CallDelivery ==
  ASSUME Typed, DeliveryInv, NEW c \in Calls, Arrive(c) \/ CallStep(c) \/ CallFails(c)
  PROVE  DeliveryInv'
<1> USE DEF Typed
<1>0. /\ UNCHANGED <<local, synced, task, up, journal, hdl>>
      /\ SoundUp' = SoundUp /\ SoundDown' = SoundDown
  BY DEF Arrive, CallStep, CheckExisting, SendCommand, Wake, CommandTimeout, CallFails,
         agentVars, wireVars, SoundUp, SoundDown
<1>1. \A d \in Calls : pend'[d] = "ok" => pend[d] = "ok"
  BY DEF TypeOK, Arrive, CallStep, CheckExisting, SendCommand, Wake, CommandTimeout, CallFails
<1>2. down' \in Channels(SoundDown)
  <2>1. down \in Channels(SoundDown) /\ ScaleOf[c] \in Scale /\ link[ScaleOf[c]] \in Conn
    BY ScaleOfAssumption DEF DeliveryInv, Channels, TypeOK, Rec
  <2>2. [down EXCEPT ![ScaleOf[c]][link[ScaleOf[c]]] = Append(@, WeighRequestMsg(c))]
          \in Channels(SoundDown)
    BY <2>1, ChannelAppend, SoundMessages
  <2>3. CASE SendCommand(c)  BY <2>1, <2>2, <2>3 DEF SendCommand
  <2>4. CASE ~SendCommand(c)
    BY <2>1, <2>4 DEF Arrive, CallStep, CheckExisting, Wake, CommandTimeout, CallFails, wireVars
  <2> QED  BY <2>3, <2>4
<1> QED  BY <1>0, <1>1, <1>2 DEF DeliveryInv, DurableSync, Channels

LEMMA OtherDelivery ==
  ASSUME Typed, DeliveryInv,
         CenterCrash \/ \E r \in Rec, f \in Ref : LinkCallback(r, f)
  PROVE  DeliveryInv'
<1> USE DEF Typed
<1>0. /\ UNCHANGED <<local, synced, task, down, journal>>
      /\ SoundUp' = SoundUp /\ SoundDown' = SoundDown
  BY DEF CenterCrash, LinkCallback, agentVars, wireVars, SoundUp, SoundDown
<1>1. CASE CenterCrash
  <2>1. up' \in [Scale -> [Conn -> Seq(SoundUp)]]  BY <1>1, EmptySeq DEF CenterCrash
  <2> QED  BY <1>0, <1>1, <2>1 DEF DeliveryInv, DurableSync, CenterCrash, Off
<1>2. CASE \E r \in Rec, f \in Ref : LinkCallback(r, f)
  BY <1>0, <1>2 DEF DeliveryInv, DurableSync, LinkCallback, wireVars
<1> QED  BY <1>1, <1>2

(* Any step of the system. *)
LEMMA DeliveryStep == Typed /\ DeliveryInv /\ [Next]_vars => DeliveryInv'
<1> SUFFICES ASSUME Typed, DeliveryInv, [Next]_vars PROVE DeliveryInv'  OBVIOUS
<1>1. CASE UNCHANGED vars
  <2>1. SoundUp' = SoundUp /\ SoundDown' = SoundDown  BY <1>1 DEF vars, SoundUp, SoundDown
  <2> QED  BY <1>1, <2>1 DEF vars, DeliveryInv, DurableSync
<1>2. CASE Next
  BY <1>2, AgentDelivery, TaskDelivery, ManualDelivery, HandlerDelivery, CallDelivery,
     OtherDelivery DEF Next
<1> QED  BY <1>1, <1>2

(* From the start of center and agents on, whatever is sent, lost,         *)
(* repeated and restarted, the invariant of the delivery holds.            *)
THEOREM DeliveryInvariant == Spec => []DeliveryInv
<1>1. Init => DeliveryInv  BY DeliveryInit
<1>2. TypeOK /\ TypeOK' /\ DeliveryInv /\ [Next]_vars => DeliveryInv'
  BY DeliveryStep DEF Typed
<1> QED  BY <1>1, <1>2, TypeCorrect, PTL DEF Spec

(* No record is acknowledged to a weighing PC that the journal of the      *)
(* center lacks, and the center has none the PC did not save first -       *)
(* through every break, restart and repeated delivery.                     *)
THEOREM DurableSyncHolds == Spec => []DurableSync
<1>1. DeliveryInv => DurableSync  BY DEF DeliveryInv
<1> QED  BY <1>1, DeliveryInvariant, PTL

(* A command that wakes with OK always finds its record in the journal. *)
THEOREM OkHasRecordHolds == Spec => []OkHasRecord
<1>1. DeliveryInv => OkHasRecord  BY DEF DeliveryInv, OkHasRecord
<1> QED  BY <1>1, DeliveryInvariant, PTL

-----------------------------------------------------------------------------
(***************************************************************************)
(* Numbers and answers.                                                    *)
(***************************************************************************)

(* What a step may do to the journal and the numbers: nothing, save one    *)
(* record, or link a free number to an operation without one.              *)
JournalStep ==
  \/ UNCHANGED <<journal, refLink>>
  \/ \E r \in Rec : Save(r)
  \/ \E r \in Rec, f \in Ref : /\ r \in journal /\ Linkable(r, f)
                              /\ refLink' = [refLink EXCEPT ![f] = r]
                              /\ journal' = journal

LEMMA JournalSteps == TypeOK /\ [Next]_vars => JournalStep
<1> SUFFICES ASSUME TypeOK, [Next]_vars PROVE JournalStep  OBVIOUS
<1>1. CASE UNCHANGED vars  BY <1>1 DEF vars, JournalStep
<1>2. ASSUME NEW s \in Scale, Connect(s) \/ AgentDrop(s) \/ AgentStep(s)
      PROVE  JournalStep
  BY <1>2 DEF Connect, AgentDrop, AgentStep, RecvRequest, RecvAck, SendPending,
              centerVars, JournalStep
<1>3. ASSUME NEW s \in Scale, NEW k \in Conn, HandlerStep(s, k) \/ HandlerEnd(s, k)
      PROVE  JournalStep
  <2>1. CASE HandleResult(s, k)
    <3>1. Head(up[s][k]) \in UpMsg  BY <2>1, ChannelTail DEF HandleResult, TypeOK, Channels
    <3>2. Head(up[s][k]).call \in Rec
      BY <2>1, <3>1, MessageTypes DEF HandleResult, Rec
    <3> QED  BY <2>1, <3>2 DEF HandleResult, JournalStep
  <2>2. CASE SyncOne(s, k)
    <3>1. hdl[s][k] \in HandlerState  BY DEF TypeOK
    <3>2. hdl[s][k].todo \in SUBSET Rec  BY <3>1 DEF HandlerState
    <3> QED  BY <2>2, <3>2 DEF SyncOne, JournalStep
  <2> QED
    BY <1>3, <2>1, <2>2 DEF HandlerStep, ResolveResult, HandleSync, SyncAck, HandlerEnd, JournalStep
<1>4. ASSUME NEW c \in Calls, TaskStep(c) \/ Arrive(c) \/ CallStep(c) \/ CallFails(c)
      PROVE  JournalStep
  BY <1>4 DEF TaskStep, Record, SendResult, Arrive, CallStep, CheckExisting, SendCommand,
              Wake, CommandTimeout, CallFails, JournalStep
<1>5. ASSUME NEW m \in Manuals, ManualRecord(m) PROVE JournalStep
  BY <1>5 DEF ManualRecord, centerVars, JournalStep
<1>6. ASSUME NEW r \in Rec, NEW f \in Ref, LinkCallback(r, f) PROVE JournalStep
  BY <1>6 DEF LinkCallback, JournalStep
<1>7. CASE CenterCrash  BY <1>7 DEF CenterCrash, JournalStep
<1> QED  BY <1>1, <1>2, <1>3, <1>4, <1>5, <1>6, <1>7 DEF Next

LEMMA NoneIsNoRecord == None \notin Rec /\ None \notin Failure
BY NoneAssumption DEF Failure

LEMMA LinksStep ==
  ASSUME TypeOK, LinksSound, JournalStep
  PROVE  LinksSound'
<1>1. CASE UNCHANGED <<journal, refLink>>  BY <1>1 DEF LinksSound
<1>2. CASE \E r \in Rec : Save(r)
  <2>1. PICK r \in Rec : Save(r)  BY <1>2
  <2>2. journal' = journal \cup {r}  BY <2>1 DEF Save
  <2>3. CASE r \in Calls \ journal /\ refLink[RefOf[r]] = None
    <3>1. refLink' = [refLink EXCEPT ![RefOf[r]] = r] /\ RefOf[r] \in Ref
      BY <2>1, <2>3, RefOfAssumption DEF Save
    <3>2. \A g \in Ref : refLink[g] # r  BY <2>3, NoneIsNoRecord DEF LinksSound
    <3> QED  BY <2>2, <3>1, <3>2 DEF LinksSound, TypeOK
  <2>4. CASE ~(r \in Calls \ journal /\ refLink[RefOf[r]] = None)
    <3>1. refLink' = refLink  BY <2>1, <2>4 DEF Save
    <3> QED  BY <2>2, <3>1 DEF LinksSound
  <2> QED  BY <2>3, <2>4
<1>3. CASE \E r \in Rec, f \in Ref : /\ r \in journal /\ Linkable(r, f)
                                    /\ refLink' = [refLink EXCEPT ![f] = r]
                                    /\ journal' = journal
  BY <1>3 DEF LinksSound, Linkable, TypeOK
<1> QED  BY <1>1, <1>2, <1>3 DEF JournalStep

(* A number, once given, stays with its record; the journal only grows. *)
LEMMA NumbersStay ==
  ASSUME TypeOK, JournalStep
  PROVE  /\ journal \subseteq journal'
         /\ \A f \in Ref : refLink[f] # None => refLink'[f] = refLink[f]
BY DEF TypeOK, JournalStep, Save, Linkable

(* Only the HTTP handlers and a restart touch the calls, their answers and  *)
(* the numbers being executed.                                             *)
LEMMA QuietSteps ==
  ASSUME [Next]_vars
  PROVE  \/ UNCHANGED <<call, reply, inflight>> \/ CenterCrash
         \/ \E c \in Calls : Arrive(c) \/ CallStep(c) \/ CallFails(c)
<1>1. CASE UNCHANGED vars  BY <1>1 DEF vars
<1>2. ASSUME NEW s \in Scale, Connect(s) \/ AgentDrop(s) \/ AgentStep(s)
      PROVE  UNCHANGED <<call, reply, inflight>>
  BY <1>2 DEF Connect, AgentDrop, AgentStep, RecvRequest, RecvAck, SendPending, centerVars
<1>3. ASSUME NEW s \in Scale, NEW k \in Conn, HandlerStep(s, k) \/ HandlerEnd(s, k)
      PROVE  UNCHANGED <<call, reply, inflight>>
  BY <1>3 DEF HandlerStep, HandleResult, ResolveResult, HandleSync, SyncOne, SyncAck, HandlerEnd
<1>4. ASSUME NEW c \in Calls, TaskStep(c) PROVE UNCHANGED <<call, reply, inflight>>
  BY <1>4 DEF TaskStep, Record, SendResult
<1>5. ASSUME NEW m \in Manuals, ManualRecord(m) PROVE UNCHANGED <<call, reply, inflight>>
  BY <1>5 DEF ManualRecord, centerVars
<1>6. ASSUME NEW r \in Rec, NEW f \in Ref, LinkCallback(r, f) PROVE UNCHANGED <<call, reply, inflight>>
  BY <1>6 DEF LinkCallback
<1> QED  BY <1>1, <1>2, <1>3, <1>4, <1>5, <1>6 DEF Next

LEMMA AnswerStep ==
  ASSUME TypeOK, LinksSound, AnswerSound, [Next]_vars
  PROVE  AnswerSound'
<1>0. JournalStep  BY JournalSteps
<1>n. None \notin Rec /\ None \notin Failure  BY NoneIsNoRecord
<1>f. Failure \cap Rec = {}  BY RecAssumption DEF Failure
<1>1. ASSUME NEW c \in Calls, reply[c] \in Rec
      PROVE  /\ reply[c] \in journal'
             /\ \/ reply[c] \in Calls /\ RefOf[reply[c]] = RefOf[c]
                \/ refLink'[RefOf[c]] = reply[c]
  <2>1. RefOf[c] \in Ref  BY RefOfAssumption
  <2> QED  BY <1>0, <1>1, <1>n, <2>1, NumbersStay DEF AnswerSound
<1>2. CASE UNCHANGED reply  BY <1>1, <1>2 DEF AnswerSound
<1>3. ASSUME NEW c \in Calls, NEW v, Finish(c, v),
             v \in Rec => /\ v \in journal'
                          /\ v = c \/ refLink'[RefOf[c]] = v
      PROVE  AnswerSound'
  <2> SUFFICES ASSUME NEW d \in Calls, reply'[d] \in Rec
               PROVE  /\ reply'[d] \in journal'
                      /\ \/ reply'[d] \in Calls /\ RefOf[reply'[d]] = RefOf[d]
                         \/ refLink'[RefOf[d]] = reply'[d]
    BY DEF AnswerSound
  <2>1. CASE reply'[d] = reply[d]  BY <1>1, <2>1
  <2>2. CASE reply'[d] # reply[d]
    <3>1. reply'[d] = v /\ RefOf[d] = RefOf[c]  BY <1>3, <2>2 DEF Finish, TypeOK
    <3> QED  BY <1>3, <3>1
  <2> QED  BY <2>1, <2>2
<1>4. ASSUME NEW c \in Calls, Arrive(c) \/ CallStep(c) \/ CallFails(c)
      PROVE  AnswerSound'
  <2>a. RefOf[c] \in Ref  BY RefOfAssumption
  <2>1. CASE CheckExisting(c)
    <3>1. CASE UNCHANGED reply  BY <1>2, <3>1
    <3>2. CASE Finish(c, refLink[RefOf[c]])
      <4>1. UNCHANGED <<journal, refLink>>  BY <2>1 DEF CheckExisting
      <4>2. refLink[RefOf[c]] \in Rec => refLink[RefOf[c]] \in journal
        BY <2>a, <1>n DEF LinksSound
      <4> QED  BY <1>3, <3>2, <4>1, <4>2
    <3> QED  BY <2>1, <3>1, <3>2 DEF CheckExisting, Existing
  <2>2. CASE Wake(c)
    <3>1. UNCHANGED <<journal, refLink>>  BY <2>2 DEF Wake
    <3>2. \/ Finish(c, IF c \in journal THEN c ELSE "internal")
          \/ Finish(c, "refused") \/ Finish(c, "offline")
      BY <2>2 DEF Wake
    <3>3. "internal" \notin Rec /\ "refused" \notin Rec /\ "offline" \notin Rec
      BY <1>f DEF Failure
    <3>4. CASE Finish(c, IF c \in journal THEN c ELSE "internal")
      BY <1>3, <3>1, <3>3, <3>4
    <3> QED  BY <1>3, <3>2, <3>3, <3>4
  <2>3. CASE SendCommand(c) \/ CommandTimeout(c) \/ CallFails(c) \/ Arrive(c)
    <3>1. UNCHANGED reply \/ Finish(c, "offline") \/ Finish(c, "internal")
      BY <2>3 DEF SendCommand, CommandTimeout, CallFails, Arrive
    <3>2. "internal" \notin Rec /\ "offline" \notin Rec  BY <1>f DEF Failure
    <3> QED  BY <1>2, <1>3, <3>1, <3>2
  <2> QED  BY <1>4, <2>1, <2>2, <2>3 DEF CallStep
<1>5. CASE CenterCrash
  <2>1. \A c \in Calls : reply'[c] = reply[c] \/ reply'[c] = "lost"
    BY <1>5 DEF CenterCrash
  <2>2. "lost" \notin Rec  BY <1>f DEF Failure
  <2> QED  BY <1>1, <2>1, <2>2 DEF AnswerSound
<1>6. CASE UNCHANGED reply \/ CenterCrash
           \/ \E c \in Calls : Arrive(c) \/ CallStep(c) \/ CallFails(c)
  BY <1>2, <1>4, <1>5, <1>6
<1>7. \/ UNCHANGED reply \/ CenterCrash
      \/ \E c \in Calls : Arrive(c) \/ CallStep(c) \/ CallFails(c)
  BY QuietSteps
<1> QED  BY <1>6, <1>7

(* Numbers belong to journal records and no record has two, whichever of   *)
(* the live result, the offline delivery and the callback came first.      *)
THEOREM LinksSoundHolds == Spec => []LinksSound
<1>1. Init => LinksSound  BY DEF Init, LinksSound
<1>2. TypeOK /\ LinksSound /\ [Next]_vars => LinksSound'  BY JournalSteps, LinksStep
<1> QED  BY <1>1, <1>2, TypeCorrect, PTL DEF Spec

(* Every OK told to the AIS names a journal record made under the number   *)
(* of the call, or linked to it.                                           *)
THEOREM AnswerSoundHolds == Spec => []AnswerSound
<1>1. Init => AnswerSound  BY NoneIsNoRecord DEF Init, AnswerSound
<1>2. TypeOK /\ LinksSound /\ AnswerSound /\ [Next]_vars => AnswerSound'  BY AnswerStep
<1> QED  BY <1>1, <1>2, TypeCorrect, LinksSoundHolds, PTL DEF Spec

-----------------------------------------------------------------------------
(***************************************************************************)
(* The promise: every step of the path is a step of OperationJournal, or   *)
(* none of its business.                                                   *)
(***************************************************************************)

(* A call that is not over has been told nothing: what it is told is told  *)
(* once, to it and to the repeats that joined it.                          *)
OpenUntold == \A c \in Calls : call[c] # "done" => reply[c] = None

(* What Finish does to the calls and their answers. *)
LEMMA FinishAnswers ==
  ASSUME TypeOK, NEW c \in Calls, NEW v, Finish(c, v)
  PROVE  /\ reply'[c] = v /\ call'[c] = "done"
         /\ \A d \in Calls :
              \/ call'[d] = "done" /\ reply'[d] = v /\ RefOf[d] = RefOf[c]
                 /\ (d = c \/ call[d] = "join")
              \/ call'[d] = call[d] /\ reply'[d] = reply[d] /\ d # c /\ call[d] # "join"
              \/ call'[d] = call[d] /\ reply'[d] = reply[d] /\ RefOf[d] # RefOf[c]
BY DEF TypeOK, Finish

LEMMA OpenUntoldStep == TypeOK /\ OpenUntold /\ [Next]_vars => OpenUntold'
<1> SUFFICES ASSUME TypeOK, OpenUntold, [Next]_vars PROVE OpenUntold'  OBVIOUS
<1>1. CASE UNCHANGED <<call, reply>>  BY <1>1 DEF OpenUntold
<1>2. ASSUME NEW c \in Calls, NEW v, Finish(c, v) PROVE OpenUntold'
  BY <1>2, FinishAnswers DEF OpenUntold
<1>3. ASSUME NEW c \in Calls, Arrive(c) \/ CallStep(c) \/ CallFails(c) PROVE OpenUntold'
  <2>1. CASE Arrive(c)
    BY <2>1 DEF Arrive, OpenUntold, TypeOK
  <2>2. CASE CheckExisting(c)
    BY <1>2, <2>2 DEF CheckExisting, OpenUntold, TypeOK
  <2>3. CASE SendCommand(c)
    BY <1>2, <2>3 DEF SendCommand, OpenUntold, TypeOK
  <2>4. CASE Wake(c)  BY <1>2, <2>4 DEF Wake
  <2>5. CASE CommandTimeout(c)  BY <1>2, <2>5 DEF CommandTimeout
  <2>6. CASE CallFails(c)  BY <1>2, <2>6 DEF CallFails
  <2> QED  BY <1>3, <2>1, <2>2, <2>3, <2>4, <2>5, <2>6 DEF CallStep
<1>4. CASE CenterCrash
  BY <1>4 DEF CenterCrash, OpenUntold, TypeOK
<1>5. \/ UNCHANGED <<call, reply>> \/ CenterCrash
      \/ \E c \in Calls : Arrive(c) \/ CallStep(c) \/ CallFails(c)
  BY QuietSteps
<1> QED  BY <1>1, <1>3, <1>4, <1>5

(* While a handler of a connection runs, the connection has a number. *)
NoConnectionZero == \A s \in Scale : hdl[s][0].pc = "off"

(* Only these steps touch the handlers of the connections. *)
LEMMA HandlersAtRest ==
  ASSUME [Next]_vars
  PROVE  \/ UNCHANGED hdl \/ CenterCrash \/ \E s \in Scale : Connect(s)
         \/ \E s \in Scale, k \in Conn : HandlerStep(s, k) \/ HandlerEnd(s, k)
<1>1. CASE UNCHANGED vars  BY <1>1 DEF vars
<1>2. ASSUME NEW s \in Scale, AgentDrop(s) \/ AgentStep(s) PROVE UNCHANGED hdl
  BY <1>2 DEF AgentDrop, AgentStep, RecvRequest, RecvAck, SendPending, centerVars
<1>3. ASSUME NEW c \in Calls, TaskStep(c) \/ Arrive(c) \/ CallStep(c) \/ CallFails(c)
      PROVE  UNCHANGED hdl
  BY <1>3 DEF TaskStep, Record, SendResult, Arrive, CallStep, CheckExisting, SendCommand,
              Wake, CommandTimeout, CallFails
<1>4. ASSUME NEW m \in Manuals, ManualRecord(m) PROVE UNCHANGED hdl
  BY <1>4 DEF ManualRecord, centerVars
<1>5. ASSUME NEW r \in Rec, NEW f \in Ref, LinkCallback(r, f) PROVE UNCHANGED hdl
  BY <1>5 DEF LinkCallback
<1> QED  BY <1>1, <1>2, <1>3, <1>4, <1>5 DEF Next

(* A handler changes its own state only. *)
LEMMA OwnHandler ==
  ASSUME TypeOK, NEW s \in Scale, NEW k \in Conn, HandlerStep(s, k) \/ HandlerEnd(s, k)
  PROVE  /\ hdl[s][k].pc # "off"
         /\ \A z \in Scale, j \in Conn : ~(z = s /\ j = k) => hdl'[z][j] = hdl[z][j]
<1>1. ASSUME NEW h, hdl' = [hdl EXCEPT ![s][k] = h]
      PROVE  \A z \in Scale, j \in Conn : ~(z = s /\ j = k) => hdl'[z][j] = hdl[z][j]
  BY <1>1 DEF TypeOK
<1>2. CASE HandleResult(s, k)  BY <1>1, <1>2 DEF HandleResult
<1>3. CASE ResolveResult(s, k)  BY <1>1, <1>3 DEF ResolveResult
<1>4. CASE HandleSync(s, k)  BY <1>1, <1>4 DEF HandleSync
<1>5. CASE SyncOne(s, k)
  <2>1. PICK r : hdl' = [hdl EXCEPT ![s][k] = Accepted(@, r)]  BY <1>5 DEF SyncOne
  <2>2. hdl' = [hdl EXCEPT ![s][k] = Accepted(hdl[s][k], r)]  BY <2>1
  <2> QED  BY <1>1, <1>5, <2>2 DEF SyncOne
<1>6. CASE SyncAck(s, k)  BY <1>1, <1>6 DEF SyncAck
<1>7. CASE HandlerEnd(s, k)  BY <1>1, <1>7 DEF HandlerEnd
<1> QED  BY <1>2, <1>3, <1>4, <1>5, <1>6, <1>7 DEF HandlerStep

LEMMA NoConnectionZeroStep == TypeOK /\ NoConnectionZero /\ [Next]_vars => NoConnectionZero'
<1> SUFFICES ASSUME TypeOK, NoConnectionZero, [Next]_vars, NEW z \in Scale
             PROVE  hdl'[z][0].pc = "off"
  BY DEF NoConnectionZero
<1>0. 0 \in Conn /\ hdl[z][0].pc = "off"  BY BoundsAssumption DEF NoConnectionZero, Conn
<1>1. ASSUME NEW s \in Scale, Connect(s) PROVE hdl'[z][0].pc = "off"
  <2>1. nconn[s] + 1 \in Conn /\ nconn[s] + 1 # 0
    <3>1. nconn[s] \in Conn /\ nconn[s] < MaxConn  BY <1>1 DEF Connect, TypeOK
    <3> QED  BY <3>1, ConnNext, BoundsAssumption DEF Conn
  <2>2. hdl' = [hdl EXCEPT ![s][nconn[s] + 1] = Recv]  BY <1>1 DEF Connect, Attach
  <2> DEFINE k == nconn[s] + 1
  <2>3. k \in Conn /\ k # 0 /\ hdl' = [hdl EXCEPT ![s][k] = Recv]  BY <2>1, <2>2
  <2> HIDE DEF k
  <2>4. hdl'[z][0] = hdl[z][0]  BY <1>0, <2>3 DEF TypeOK
  <2> QED  BY <1>0, <2>4
<1>2. ASSUME NEW s \in Scale, NEW k \in Conn, HandlerStep(s, k) \/ HandlerEnd(s, k)
      PROVE  hdl'[z][0].pc = "off"
  <2>1. ~(s = z /\ k = 0)  BY <1>0, <1>2, OwnHandler
  <2> QED  BY <1>0, <1>2, <2>1, OwnHandler
<1>3. CASE CenterCrash  BY <1>0, <1>3 DEF CenterCrash, Off
<1>4. \/ UNCHANGED hdl \/ CenterCrash \/ \E s \in Scale : Connect(s)
      \/ \E s \in Scale, k \in Conn : HandlerStep(s, k) \/ HandlerEnd(s, k)
  BY HandlersAtRest
<1>5. CASE UNCHANGED hdl  BY <1>0, <1>5
<1> QED  BY <1>1, <1>2, <1>3, <1>4, <1>5

(* A waiting command fails as "offline" only by the end of the handler of  *)
(* the current connection of its own scale.                                *)
LEMMA OfflineStep ==
  ASSUME TypeOK, NoConnectionZero, [Next]_vars, NEW c \in Calls,
         pend[c] = "wait", pend'[c] = "offline"
  PROVE  LET s == ScaleOf[c] IN
           /\ link[s] # 0
           /\ hdl[s][link[s]].pc # "off"
           /\ hdl'[s][link[s]].pc = "off"
<1>1. PICK s \in Scale, k \in Conn : HandlerEnd(s, k)
  <2>1. ASSUME NEW s \in Scale, Connect(s) \/ AgentDrop(s) \/ AgentStep(s)
        PROVE  UNCHANGED pend
    BY <2>1 DEF Connect, AgentDrop, AgentStep, RecvRequest, RecvAck, SendPending, centerVars
  <2>2. ASSUME NEW s \in Scale, NEW k \in Conn, HandlerStep(s, k), ~ResolveResult(s, k)
        PROVE  UNCHANGED pend
    BY <2>2 DEF HandlerStep, HandleResult, HandleSync, SyncOne, SyncAck
  <2>3. ASSUME NEW s \in Scale, NEW k \in Conn, ResolveResult(s, k)
        PROVE  pend'[c] # "offline"
    <3>1. pend' = pend \/ \E h \in {"ok", "refused"} : pend' = [pend EXCEPT ![hdl[s][k].call] = h]
      BY <2>3 DEF ResolveResult
    <3> QED  BY <3>1 DEF TypeOK
  <2>4. ASSUME NEW d \in Calls, TaskStep(d) \/ Arrive(d)
        PROVE  UNCHANGED pend
    BY <2>4 DEF TaskStep, Record, SendResult, Arrive
  <2>5. ASSUME NEW d \in Calls, CallStep(d) \/ CallFails(d)
        PROVE  pend'[c] # "offline"
    <3>1. pend' = pend \/ \E h \in {"none", "wait"} : pend' = [pend EXCEPT ![d] = h]
      BY <2>5 DEF CallStep, CallFails, CheckExisting, SendCommand, Wake, CommandTimeout
    <3> QED  BY <3>1 DEF TypeOK
  <2>6. ASSUME NEW m \in Manuals, ManualRecord(m) PROVE UNCHANGED pend
    BY <2>6 DEF ManualRecord, centerVars
  <2>7. ASSUME NEW r \in Rec, NEW f \in Ref, LinkCallback(r, f) PROVE UNCHANGED pend
    BY <2>7 DEF LinkCallback
  <2>8. CASE CenterCrash  BY <2>8 DEF CenterCrash
  <2>9. CASE UNCHANGED vars  BY <2>9 DEF vars
  <2> QED  BY <2>1, <2>2, <2>3, <2>4, <2>5, <2>6, <2>7, <2>8, <2>9 DEF Next
<1>2. link[s] = k /\ ScaleOf[c] = s
  BY <1>1 DEF HandlerEnd, IsCurrent, FailPending
<1>3. k # 0  BY <1>1, OwnHandler DEF NoConnectionZero
<1>4. hdl[s][k].pc # "off"  BY <1>1, OwnHandler
<1>5. hdl'[s][k].pc = "off"  BY <1>1 DEF HandlerEnd, TypeOK, Off
<1> QED  BY <1>2, <1>3, <1>4, <1>5

(* A waiting command fails as "offline" only when the handler of the       *)
(* current connection of its own scale ends, whichever connections of the  *)
(* same or of other scales end, overlap or are displaced meanwhile.        *)
THEOREM OfflineOnlyByBreakHolds == Spec => OfflineOnlyByBreak
<1>1. Init => NoConnectionZero
  BY BoundsAssumption DEF Init, NoConnectionZero, Off, Conn
<1>2. TypeOK /\ NoConnectionZero /\ [Next]_vars
        => [\A c \in Calls : pend[c] = "wait" /\ pend'[c] = "offline" =>
              LET s == ScaleOf[c] IN
                /\ link[s] # 0
                /\ hdl[s][link[s]].pc # "off"
                /\ hdl'[s][link[s]].pc = "off"]_vars
  BY OfflineStep
<1> QED
  BY <1>1, <1>2, NoConnectionZeroStep, TypeCorrect, PTL DEF Spec, OfflineOnlyByBreak

-----------------------------------------------------------------------------
(***************************************************************************)
(* The promise: every step of the path is a step of OperationJournal or    *)
(* none of its business.                                                   *)
(***************************************************************************)
PromiseInv == Typed /\ DeliveryInv /\ DeliveryInv' /\ LinksSound /\ AnswerSound /\ OpenUntold

(* A step that answers nothing, with a step of the journals behind it. *)
LEMMA PromiseJournal ==
  ASSUME PromiseInv, UNCHANGED <<local, synced, reply>>, JournalStep
  PROVE  [Promise!Next]_<<local, journal, synced, refLink, Told>>
<1>1. Told' = Told  BY DEF Told
<1>2. CASE UNCHANGED <<journal, refLink>>  BY <1>1, <1>2
<1>3. CASE \E r \in Rec : Save(r)
  <2>1. PICK r \in Rec : Save(r)  BY <1>3
  <2>2. CASE r \in journal
    <3>1. UNCHANGED <<journal, refLink>>  BY <2>1, <2>2 DEF Save
    <3> QED  BY <1>1, <3>1
  <2>3. CASE r \notin journal
    <3>1. r \in local \ journal
      BY <2>1, <2>3 DEF Save, PromiseInv, DeliveryInv, DurableSync
    <3>2. Promise!Deliver(r)  BY <1>1, <2>1, <3>1 DEF Save, Promise!Deliver
    <3> QED  BY <3>2 DEF Promise!Next
  <2> QED  BY <2>2, <2>3
<1>4. CASE \E r \in Rec, f \in Ref : /\ r \in journal /\ Linkable(r, f)
                                    /\ refLink' = [refLink EXCEPT ![f] = r]
                                    /\ journal' = journal
  <2>1. PICK r \in Rec, f \in Ref : /\ r \in journal /\ Linkable(r, f)
                                   /\ refLink' = [refLink EXCEPT ![f] = r]
                                   /\ journal' = journal
    BY <1>4
  <2>2. Promise!GiveNumber(r, f)
    BY <1>1, <2>1 DEF Linkable, Promise!GiveNumber, Promise!Unnumbered
  <2> QED  BY <2>2 DEF Promise!Next
<1> QED  BY <1>2, <1>3, <1>4 DEF JournalStep

(* A step that answers: Finish gives all it answers the same, and they had *)
(* no answer before.                                                       *)
LEMMA PromiseAnswer ==
  ASSUME PromiseInv, UNCHANGED <<local, synced, journal, refLink>>,
         NEW c \in Calls, NEW v \in Rec \cup Failure, Finish(c, v),
         call[c] # "done",
         v \in Rec => v \in journal /\ (v = c \/ refLink[RefOf[c]] = v)
  PROVE  [Promise!Next]_<<local, journal, synced, refLink, Told>>
<1> DEFINE answered == {c} \cup {d \in Calls : call[d] = "join" /\ RefOf[d] = RefOf[c]}
<1>1. reply' = [d \in Calls |-> IF d \in answered THEN v ELSE reply[d]]  BY DEF Finish
<1>2. \A d \in answered : d \in Calls /\ reply[d] = None /\ RefOf[d] = RefOf[c]
  BY DEF PromiseInv, OpenUntold
<1>3. c \in answered /\ answered \in SUBSET Calls  OBVIOUS
<1> HIDE DEF answered
<1>n. None \notin Rec  BY NoneIsNoRecord
<1>4. CASE v \in Rec
  <2>1. Told' = [d \in Calls |-> IF d \in answered THEN v ELSE Told[d]]
    BY <1>1, <1>4 DEF Told
  <2>2. \A d \in answered : Told[d] = None  BY <1>2, <1>n DEF Told
  <2>3. v \in answered \/ \A d \in answered : refLink[RefOf[d]] = v
    BY <1>2, <1>3, <1>4
  <2>4. Promise!Answer(answered, v)  BY <1>4, <2>1, <2>2, <2>3 DEF Promise!Answer
  <2> QED  BY <1>3, <1>4, <2>4 DEF Promise!Next
<1>5. CASE v \notin Rec
  <2>1. \A d \in Calls : (reply'[d] \in Rec <=> reply[d] \in Rec)
                         /\ (reply[d] \in Rec => reply'[d] = reply[d])
    BY <1>1, <1>2, <1>5, <1>n
  <2>2. Told' = Told  BY <2>1 DEF Told
  <2> QED  BY <2>2
<1> QED  BY <1>4, <1>5

LEMMA PromiseStep ==
  ASSUME PromiseInv, [Next]_vars
  PROVE  [Promise!Next]_<<local, journal, synced, refLink, Told>>
<1>0. JournalStep  BY JournalSteps DEF PromiseInv, Typed
<1>f. {"offline", "internal", "refused", "lost"} \subseteq Failure  BY DEF Failure
<1>1. CASE UNCHANGED <<local, synced, reply>>  BY <1>0, <1>1, PromiseJournal
<1>2. ASSUME NEW r \in Rec, SaveWeighing(r), UNCHANGED <<synced, reply, journal, refLink>>
      PROVE  [Promise!Next]_<<local, journal, synced, refLink, Told>>
  <2>1. Told' = Told  BY <1>2 DEF Told
  <2>2. Promise!Perform(r)  BY <1>2, <2>1 DEF SaveWeighing, Promise!Perform
  <2> QED  BY <2>2 DEF Promise!Next
<1>3. ASSUME NEW s \in Scale, RecvAck(s)
      PROVE  [Promise!Next]_<<local, journal, synced, refLink, Told>>
  <2> DEFINE R == Head(down[s][sess[s]]).recs \cap local
  <2>1. R \subseteq journal
    <3>1. Head(down[s][sess[s]]) \in SoundDown
      BY <1>3, ChannelTail DEF RecvAck, PromiseInv, Typed, TypeOK, DeliveryInv, Channels
    <3> QED  BY <1>3, <3>1 DEF RecvAck, SoundDown
  <2>2. R \in SUBSET Rec  BY DEF PromiseInv, Typed, TypeOK
  <2>3. synced' = synced \cup R  BY <1>3 DEF RecvAck, MarkSynced
  <2>4. Told' = Told /\ UNCHANGED <<local, journal, refLink>>
    BY <1>3 DEF RecvAck, centerVars, Told
  <2> HIDE DEF R
  <2>5. Promise!Acknowledge(R)  BY <2>1, <2>3, <2>4 DEF Promise!Acknowledge
  <2> QED  BY <2>2, <2>5 DEF Promise!Next
<1>4. ASSUME NEW c \in Calls, Arrive(c) \/ CallStep(c) \/ CallFails(c)
      PROVE  [Promise!Next]_<<local, journal, synced, refLink, Told>>
  <2>0. UNCHANGED <<local, synced, journal, refLink>>
    BY <1>4 DEF Arrive, CallStep, CheckExisting, SendCommand, Wake, CommandTimeout, CallFails,
                agentVars
  <2>a. RefOf[c] \in Ref  BY RefOfAssumption
  <2>b. ASSUME NEW v \in Failure, Finish(c, v), call[c] # "done"
        PROVE  [Promise!Next]_<<local, journal, synced, refLink, Told>>
    <3>1. v \notin Rec  BY RecAssumption DEF Failure
    <3> QED  BY <2>0, <2>b, <3>1, PromiseAnswer
  <2>1. CASE UNCHANGED reply  BY <1>1, <2>0, <2>1
  <2>2. CASE CheckExisting(c)
    <3>1. CASE Finish(c, refLink[RefOf[c]]) /\ refLink[RefOf[c]] # None
      <4>1. refLink[RefOf[c]] \in Rec /\ refLink[RefOf[c]] \in journal
        BY <2>a, <3>1 DEF PromiseInv, Typed, TypeOK, LinksSound
      <4>2. call[c] # "done"  BY <2>2 DEF CheckExisting
      <4> QED  BY <2>0, <3>1, <4>1, <4>2, PromiseAnswer
    <3> QED  BY <2>1, <2>2, <3>1 DEF CheckExisting, Existing
  <2>3. CASE SendCommand(c)
    <3>1. UNCHANGED reply \/ (Finish(c, "offline") /\ call[c] # "done")
      BY <2>3 DEF SendCommand
    <3> QED  BY <1>f, <2>1, <2>b, <3>1
  <2>4. CASE Wake(c)
    <3>1. call[c] # "done"  BY <2>4 DEF Wake
    <3>2. CASE Finish(c, IF c \in journal THEN c ELSE "internal")
      <4>1. CASE c \in journal
        <5>1. c \in Rec  BY DEF Rec
        <5> QED  BY <2>0, <3>1, <3>2, <4>1, <5>1, PromiseAnswer
      <4>2. CASE c \notin journal  BY <1>f, <2>b, <3>1, <3>2, <4>2
      <4> QED  BY <4>1, <4>2
    <3>3. CASE Finish(c, "refused") \/ Finish(c, "offline")  BY <1>f, <2>b, <3>1, <3>3
    <3> QED  BY <2>4, <3>2, <3>3 DEF Wake
  <2>5. CASE CommandTimeout(c)  BY <1>f, <2>5, <2>b DEF CommandTimeout
  <2>6. CASE CallFails(c)  BY <1>f, <2>6, <2>b DEF CallFails
  <2>7. CASE Arrive(c)  BY <2>1, <2>7 DEF Arrive
  <2> QED  BY <1>4, <2>2, <2>3, <2>4, <2>5, <2>6, <2>7 DEF CallStep
<1>5. CASE CenterCrash
  <2>1. UNCHANGED <<local, synced, journal, refLink>>  BY <1>5 DEF CenterCrash, agentVars
  <2>2. \A c \in Calls : \/ reply'[c] = reply[c]
                         \/ reply'[c] = "lost" /\ reply[c] = None
    BY <1>5 DEF CenterCrash, PromiseInv, OpenUntold
  <2>3. "lost" \notin Rec /\ None \notin Rec  BY RecAssumption, NoneIsNoRecord
  <2>4. Told' = Told  BY <2>2, <2>3 DEF Told
  <2> QED  BY <2>1, <2>4
<1>6. ASSUME NEW c \in Calls, TaskStep(c)
      PROVE  [Promise!Next]_<<local, journal, synced, refLink, Told>>
  <2>1. UNCHANGED <<synced, reply, journal, refLink>> /\ (UNCHANGED local \/ SaveWeighing(c))
    BY <1>6 DEF TaskStep, Record, SendResult
  <2> QED  BY <1>1, <1>2, <2>1 DEF Rec
<1>7. ASSUME NEW m \in Manuals, ManualRecord(m)
      PROVE  [Promise!Next]_<<local, journal, synced, refLink, Told>>
  BY <1>2, <1>7 DEF ManualRecord, centerVars, Rec
<1>8. ASSUME NEW s \in Scale, Connect(s) \/ AgentDrop(s) \/ RecvRequest(s) \/ SendPending(s)
      PROVE  UNCHANGED <<local, synced, reply>>
  BY <1>8 DEF Connect, AgentDrop, RecvRequest, SendPending, centerVars
<1>9. ASSUME NEW s \in Scale, NEW k \in Conn, HandlerStep(s, k) \/ HandlerEnd(s, k)
      PROVE  UNCHANGED <<local, synced, reply>>
  BY <1>9 DEF HandlerStep, HandleResult, ResolveResult, HandleSync, SyncOne, SyncAck,
              HandlerEnd, agentVars
<1>10. ASSUME NEW r \in Rec, NEW f \in Ref, LinkCallback(r, f)
       PROVE  UNCHANGED <<local, synced, reply>>
  BY <1>10 DEF LinkCallback, agentVars
<1>11. CASE UNCHANGED vars  BY <1>1, <1>11 DEF vars
<1> QED
  BY <1>1, <1>3, <1>4, <1>5, <1>6, <1>7, <1>8, <1>9, <1>10, <1>11 DEF Next, AgentStep

(* The whole path keeps the promises of OperationJournal: it performs,     *)
(* delivers, numbers, acknowledges and answers as that module allows.      *)
THEOREM KeepsPromiseHolds == Spec => KeepsPromise
<1>1. Init => Promise!Init
  BY NoneIsNoRecord DEF Init, Promise!Init, Told
<1>2. Init => OpenUntold  BY DEF Init, OpenUntold
<1>3. PromiseInv /\ [Next]_vars => [Promise!Next]_<<local, journal, synced, refLink, Told>>
  BY PromiseStep
<1>4. TypeOK /\ TypeOK' /\ DeliveryInv /\ DeliveryInv' /\ LinksSound /\ AnswerSound
        /\ OpenUntold => PromiseInv
  BY DEF PromiseInv, Typed
<1> QED
  BY <1>1, <1>2, <1>3, <1>4, OpenUntoldStep, TypeCorrect, DeliveryInvariant,
     LinksSoundHolds, AnswerSoundHolds, PTL
  DEF Spec, KeepsPromise, Promise!Spec, Promise!avars

-----------------------------------------------------------------------------
(***************************************************************************)
(* What is in a queue, and how often.                                      *)
(***************************************************************************)
In(m, q)   == \E i \in 1 .. Len(q) : q[i] = m
Once(m, q) == \A i, j \in 1 .. Len(q) : q[i] = m /\ q[j] = m => i = j

LEMMA InEmpty == \A m : ~In(m, <<>>) /\ Once(m, <<>>)
BY DEF In, Once

LEMMA InAppend ==
  ASSUME NEW M, NEW q \in Seq(M), NEW x \in M, NEW m
  PROVE  /\ In(m, Append(q, x)) => In(m, q) \/ m = x
         /\ Once(m, q) /\ (In(m, q) => m # x) => Once(m, Append(q, x))
<1>1. /\ Len(Append(q, x)) = Len(q) + 1 /\ Len(q) \in Nat
      /\ \A i \in 1 .. Len(q) : Append(q, x)[i] = q[i]
      /\ Append(q, x)[Len(q) + 1] = x
  BY AppendProperties, LenProperties
<1>2. \A i \in 1 .. Len(Append(q, x)) : i \in 1 .. Len(q) \/ i = Len(q) + 1  BY <1>1
<1>3. In(m, Append(q, x)) => In(m, q) \/ m = x  BY <1>1, <1>2 DEF In
<1>4. ASSUME Once(m, q), In(m, q) => m # x,
             NEW i \in 1 .. Len(Append(q, x)), NEW j \in 1 .. Len(Append(q, x)),
             Append(q, x)[i] = m, Append(q, x)[j] = m
      PROVE  i = j
  <2>1. CASE i \in 1 .. Len(q)
    <3>1. In(m, q) /\ q[i] = m  BY <1>1, <1>4, <2>1 DEF In
    <3>2. j \in 1 .. Len(q)  BY <1>1, <1>2, <1>4, <3>1
    <3> QED  BY <1>1, <1>4, <2>1, <3>1, <3>2 DEF Once
  <2>2. CASE i = Len(q) + 1
    <3>1. m = x  BY <1>1, <1>4, <2>2
    <3>2. ~In(m, q)  BY <1>4, <3>1
    <3>3. j \notin 1 .. Len(q)  BY <1>1, <1>4, <3>2 DEF In
    <3> QED  BY <1>2, <2>2, <3>3
  <2> QED  BY <1>2, <2>1, <2>2
<1>5. Once(m, q) /\ (In(m, q) => m # x) => Once(m, Append(q, x))  BY <1>4 DEF Once
<1> QED  BY <1>3, <1>5

LEMMA InTail ==
  ASSUME NEW M, NEW q \in Seq(M), q # <<>>, NEW m
  PROVE  /\ In(Head(q), q)
         /\ In(m, Tail(q)) => In(m, q)
         /\ Once(m, q) => Once(m, Tail(q))
         /\ Once(m, q) /\ Head(q) = m => ~In(m, Tail(q))
<1>1. /\ Len(q) \in Nat \ {0} /\ Len(Tail(q)) = Len(q) - 1 /\ Head(q) = q[1]
      /\ \A i \in 1 .. Len(Tail(q)) : Tail(q)[i] = q[i + 1]
  BY HeadTailProperties, LenProperties, EmptySeq
<1>2. \A i \in 1 .. Len(Tail(q)) : i + 1 \in 1 .. Len(q) /\ i + 1 # 1  BY <1>1
<1>3. 1 \in 1 .. Len(q)  BY <1>1
<1>4. In(Head(q), q)  BY <1>1, <1>3 DEF In
<1>5. In(m, Tail(q)) => In(m, q)  BY <1>1, <1>2 DEF In
<1>6. Once(m, q) => Once(m, Tail(q))
  <2> SUFFICES ASSUME Once(m, q), NEW i \in 1 .. Len(Tail(q)), NEW j \in 1 .. Len(Tail(q)),
                      Tail(q)[i] = m, Tail(q)[j] = m
               PROVE  i = j
    BY DEF Once
  <2>1. q[i + 1] = m /\ q[j + 1] = m  BY <1>1
  <2>2. i + 1 = j + 1  BY <1>2, <2>1 DEF Once
  <2> QED  BY <1>1, <2>2
<1>7. Once(m, q) /\ Head(q) = m => ~In(m, Tail(q))  BY <1>1, <1>2, <1>3 DEF Once, In
<1> QED  BY <1>4, <1>5, <1>6, <1>7

LEMMA InPrefix ==
  ASSUME NEW M, NEW q \in Seq(M), NEW n \in 0 .. Len(q), NEW m, In(m, SubSeq(q, 1, n))
  PROVE  In(m, q)
<1>1. Len(q) \in Nat  BY LenProperties
<1>2. \A i \in 1 .. n : q[i] \in M  BY <1>1, ElementOfSeq
<1>3. Len(SubSeq(q, 1, n)) = n /\ \A i \in 1 .. n : SubSeq(q, 1, n)[i] = q[i]
  BY <1>1, <1>2, SubSeqProperties
<1> QED  BY <1>1, <1>3 DEF In

(* A family of queues that lost messages and gained none. *)
Fewer(ch, chN) ==
  \A s \in Scale, k \in Conn : \A m :
    /\ In(m, chN[s][k]) => In(m, ch[s][k])
    /\ Once(m, ch[s][k]) => Once(m, chN[s][k])

LEMMA FewerTail ==
  ASSUME NEW M, NEW ch \in Channels(M), NEW s \in Scale, NEW k \in Conn, ch[s][k] # <<>>
  PROVE  Fewer(ch, [ch EXCEPT ![s][k] = Tail(@)])
<1>1. ch[s][k] \in Seq(M)  BY DEF Channels
<1> DEFINE chN == [ch EXCEPT ![s][k] = Tail(@)]
<1>2. ASSUME NEW z \in Scale, NEW j \in Conn
      PROVE  chN[z][j] = ch[z][j] \/ (z = s /\ j = k /\ chN[z][j] = Tail(ch[s][k]))
  BY DEF Channels
<1> HIDE DEF chN
<1>3. Fewer(ch, chN)  BY <1>1, <1>2, InTail DEF Fewer
<1> QED  BY <1>3 DEF chN

LEMMA FewerClear ==
  ASSUME NEW M, NEW ch \in Channels(M), NEW s \in Scale, NEW k \in Conn
  PROVE  Fewer(ch, [ch EXCEPT ![s][k] = <<>>])
<1> DEFINE chN == [ch EXCEPT ![s][k] = <<>>]
<1>1. ASSUME NEW z \in Scale, NEW j \in Conn
      PROVE  chN[z][j] = ch[z][j] \/ chN[z][j] = <<>>
  BY DEF Channels
<1> HIDE DEF chN
<1>2. Fewer(ch, chN)  BY <1>1, InEmpty DEF Fewer
<1> QED  BY <1>2 DEF chN

(* One more message. *)
LEMMA OneMore ==
  ASSUME NEW M, NEW ch \in Channels(M), NEW s \in Scale, NEW k \in Conn, NEW x \in M,
         NEW z \in Scale, NEW j \in Conn, NEW m
  PROVE  LET chN == [ch EXCEPT ![s][k] = Append(@, x)] IN
         /\ In(m, chN[z][j]) => In(m, ch[z][j]) \/ (m = x /\ z = s /\ j = k)
         /\ Once(m, ch[z][j]) /\ (In(m, ch[z][j]) => m # x) => Once(m, chN[z][j])
<1>1. ch[s][k] \in Seq(M)  BY DEF Channels
<1> DEFINE chN == [ch EXCEPT ![s][k] = Append(@, x)]
<1>2. chN[z][j] = ch[z][j] \/ (z = s /\ j = k /\ chN[z][j] = Append(ch[s][k], x))
  BY DEF Channels
<1> HIDE DEF chN
<1>3. /\ In(m, chN[z][j]) => In(m, ch[z][j]) \/ (m = x /\ z = s /\ j = k)
      /\ Once(m, ch[z][j]) /\ (In(m, ch[z][j]) => m # x) => Once(m, chN[z][j])
  <2>1. CASE chN[z][j] = ch[z][j]  BY <2>1
  <2>2. CASE z = s /\ j = k /\ chN[z][j] = Append(ch[s][k], x)
    <3>1. /\ In(m, Append(ch[s][k], x)) => In(m, ch[s][k]) \/ m = x
          /\ Once(m, ch[s][k]) /\ (In(m, ch[s][k]) => m # x)
               => Once(m, Append(ch[s][k], x))
      BY <1>1, InAppend
    <3> QED  BY <2>2, <3>1
  <2> QED  BY <1>2, <2>1, <2>2
<1> QED  BY <1>3 DEF chN

(* The messages of different calls, and of different kinds, differ. *)
LEMMA MessagesDiffer ==
  /\ \A c, d \in Calls : WeighRequestMsg(c) = WeighRequestMsg(d) => c = d
  /\ \A c, d \in Calls : \A a, b \in BOOLEAN :
       WeighResultMsg(c, a) = WeighResultMsg(d, b) => c = d /\ a = b
  /\ \A c \in Calls : \A R : WeighRequestMsg(c) # AckMsg(R)
  /\ \A c \in Calls : \A b : \A R : WeighResultMsg(c, b) # OfflineSyncMsg(R)
  /\ \A m \in DownMsg : m.type = "weigh_request" => m = WeighRequestMsg(m.call)
  /\ \A m \in UpMsg : m.type = "weigh_result" => m = WeighResultMsg(m.call, m.ok)
<1>1. \A c : WeighRequestMsg(c).call = c /\ WeighRequestMsg(c).type = "weigh_request"
  BY DEF WeighRequestMsg
<1>2. \A c, b : /\ WeighResultMsg(c, b).call = c /\ WeighResultMsg(c, b).ok = b
                /\ WeighResultMsg(c, b).type = "weigh_result"
  BY DEF WeighResultMsg
<1>3. \A R : AckMsg(R).type = "offline_sync_ack" /\ OfflineSyncMsg(R).type = "offline_sync"
  BY DEF AckMsg, OfflineSyncMsg
<1>4. ASSUME NEW m \in DownMsg, m.type = "weigh_request" PROVE m = WeighRequestMsg(m.call)
  <2>1. m \in [type : {"weigh_request"}, call : Calls]  BY <1>4 DEF DownMsg
  <2> QED  BY <2>1 DEF WeighRequestMsg
<1>5. ASSUME NEW m \in UpMsg, m.type = "weigh_result" PROVE m = WeighResultMsg(m.call, m.ok)
  <2>1. m \in [type : {"weigh_result"}, call : Calls, ok : BOOLEAN]  BY <1>5 DEF UpMsg
  <2> QED  BY <2>1 DEF WeighResultMsg
<1>6. \A c, d \in Calls : WeighRequestMsg(c) = WeighRequestMsg(d) => c = d  BY <1>1
<1>7. \A c, d \in Calls : \A a, b \in BOOLEAN :
        WeighResultMsg(c, a) = WeighResultMsg(d, b) => c = d /\ a = b
  BY <1>2
<1>8. \A c \in Calls : \A R : WeighRequestMsg(c) # AckMsg(R)  BY <1>1, <1>3
<1>9. \A c \in Calls : \A b : \A R : WeighResultMsg(c, b) # OfflineSyncMsg(R)  BY <1>2, <1>3
<1> QED  BY <1>4, <1>5, <1>6, <1>7, <1>8, <1>9

-----------------------------------------------------------------------------
(***************************************************************************)
(* A command has one life on the weighing PC: it is asked for once, runs   *)
(* once, and ends in a record or in a refusal, never in both.              *)
(***************************************************************************)
Asked(c) == \E s \in Scale, k \in Conn : In(WeighRequestMsg(c), down[s][k])

AskedOnce(c) ==
  /\ \A s, z \in Scale, k, j \in Conn :
       In(WeighRequestMsg(c), down[s][k]) /\ In(WeighRequestMsg(c), down[z][j])
         => s = z /\ k = j
  /\ \A s \in Scale, k \in Conn : Once(WeighRequestMsg(c), down[s][k])

(* The PC has nothing of the call. *)
Nowhere(c) == ~Asked(c) /\ task[c] = "none" /\ c \notin local

(* The refusal of the PC is on the wire, in a handler, or known. *)
RefusalSent(c) == \E s \in Scale, k \in Conn : In(WeighResultMsg(c, FALSE), up[s][k])
RefusalTaken(c) ==
  \E s \in Scale, k \in Conn :
    hdl[s][k].pc = "resolve" /\ hdl[s][k].call = c /\ hdl[s][k].ok = FALSE
Refusing(c) ==
  RefusalSent(c) \/ RefusalTaken(c) \/ pend[c] = "refused" \/ reply[c] = "refused"

NotSentYet == {"idle", "join", "check", "hint"}

OneLife(c) ==
  /\ call[c] \in NotSentYet => Nowhere(c) /\ ~Refusing(c)
  /\ Refusing(c) => Nowhere(c)
  /\ Asked(c) => task[c] = "none" /\ c \notin local
  /\ task[c] = "run" => c \notin local
  /\ AskedOnce(c)
LifeInv == \A c \in Calls : OneLife(c)

(* Requests that are only read or lost. *)
LEMMA AskedLess ==
  ASSUME Fewer(down, down'), NEW c \in Calls
  PROVE  (Asked(c)' => Asked(c)) /\ (AskedOnce(c) => AskedOnce(c)')
BY DEF Fewer, Asked, AskedOnce

(* Handlers that take no refusal. *)
LEMMA TakenLess ==
  ASSUME NEW c \in Calls,
         \A s \in Scale, k \in Conn :
           hdl'[s][k] = hdl[s][k] \/ hdl'[s][k].pc # "resolve"
  PROVE  RefusalTaken(c)' => RefusalTaken(c)
BY DEF RefusalTaken

(* A step that brings a call nothing new. *)
LEMMA LifeCalm ==
  ASSUME LifeInv, NEW c \in Calls,
         Asked(c)' => Asked(c), AskedOnce(c)', Refusing(c)' => Refusing(c),
         task'[c] \in {task[c], "none"}, c \in local' => c \in local,
         call'[c] \in NotSentYet => call[c] \in NotSentYet
  PROVE  OneLife(c)'
<1>1. OneLife(c)  BY DEF LifeInv
<1>2. Nowhere(c) => Nowhere(c)'  BY DEF Nowhere
<1>3. task'[c] = "run" => task[c] = "run"  OBVIOUS
<1>4. task[c] = "none" => task'[c] = "none"  OBVIOUS
<1> QED  BY <1>1, <1>2, <1>3, <1>4 DEF OneLife

(* The words of the PC on the wire after one of them is sent. *)
LEMMA RefusalSentBy ==
  ASSUME TypeOK, NEW s \in Scale, NEW m \in UpMsg, SendUp(s, m), NEW c \in Calls,
         RefusalSent(c)'
  PROVE  RefusalSent(c) \/ m = WeighResultMsg(c, FALSE)
<1>1. PICK z \in Scale, j \in Conn : In(WeighResultMsg(c, FALSE), up'[z][j])
  BY DEF RefusalSent
<1>2. CASE up' = up  BY <1>1, <1>2 DEF RefusalSent
<1>3. CASE up' = [up EXCEPT ![s][sess[s]] = Append(@, m)]
  <2>1. up \in Channels(UpMsg) /\ sess[s] \in Conn  BY DEF TypeOK, Channels
  <2> DEFINE w == WeighResultMsg(c, FALSE)
  <2>2. In(w, up'[z][j])  BY <1>1
  <2> HIDE DEF w
  <2>3. In(w, up[z][j]) \/ w = m  BY <1>3, <2>1, <2>2, OneMore
  <2> QED  BY <2>3 DEF RefusalSent, w
<1> QED  BY <1>2, <1>3 DEF SendUp

(* A message from the queue of a connection. *)
LEMMA HeadIn ==
  ASSUME TypeOK, NEW s \in Scale, NEW k \in Conn
  PROVE  /\ up[s][k] # <<>> => Head(up[s][k]) \in UpMsg /\ In(Head(up[s][k]), up[s][k])
         /\ down[s][k] # <<>> => Head(down[s][k]) \in DownMsg /\ In(Head(down[s][k]), down[s][k])
<1>1. up[s][k] \in Seq(UpMsg) /\ down[s][k] \in Seq(DownMsg)  BY DEF TypeOK
<1> QED  BY <1>1, InTail, HeadTailProperties

LEMMA AgentLife ==
  ASSUME TypeOK, LifeInv, NEW s \in Scale, Connect(s) \/ AgentDrop(s) \/ AgentStep(s),
         NEW c \in Calls
  PROVE  OneLife(c)'
<1>0. /\ up \in Channels(UpMsg) /\ down \in Channels(DownMsg) /\ sess[s] \in Conn
      /\ UNCHANGED <<local, pend, call, reply>>
  BY DEF TypeOK, Channels, Connect, AgentDrop, AgentStep, RecvRequest, RecvAck, SendPending,
         centerVars
<1>i. OneLife(c) /\ AskedOnce(c)  BY DEF LifeInv, OneLife
<1>1. CASE Connect(s)
  <2>1. nconn[s] \in Conn /\ nconn[s] < MaxConn  BY <1>1 DEF Connect, TypeOK
  <2> DEFINE k == nconn[s] + 1
  <2>2. k \in Conn /\ hdl' = [hdl EXCEPT ![s][k] = Recv]
    BY <1>1, <2>1, ConnNext DEF Connect, Attach
  <2> HIDE DEF k
  <2>3. \A z \in Scale, j \in Conn : hdl'[z][j] = hdl[z][j] \/ hdl'[z][j].pc # "resolve"
    BY <2>2, HandlerFields DEF TypeOK
  <2>4. RefusalTaken(c)' => RefusalTaken(c)  BY <2>3, TakenLess
  <2>5. UNCHANGED <<up, down, task>>  BY <1>1 DEF Connect
  <2>6. /\ Asked(c)' => Asked(c)
        /\ AskedOnce(c)'
        /\ RefusalSent(c)' => RefusalSent(c)
    BY <1>i, <2>5 DEF Asked, AskedOnce, RefusalSent
  <2> QED  BY <1>0, <1>i, <2>4, <2>5, <2>6, LifeCalm DEF Refusing
<1>t. ~Connect(s) => UNCHANGED hdl
  BY DEF AgentDrop, AgentStep, RecvRequest, RecvAck, SendPending, centerVars
<1>h. ~Connect(s) => (RefusalTaken(c)' <=> RefusalTaken(c))  BY <1>t DEF RefusalTaken
<1>2. CASE AgentDrop(s)
  <2>1. Fewer(down, down')  BY <1>0, <1>2, FewerClear DEF AgentDrop
  <2>2. RefusalSent(c)' => RefusalSent(c)
    <3>1. PICK n \in 0 .. Len(up[s][sess[s]]) :
            up' = [up EXCEPT ![s][sess[s]] = SubSeq(@, 1, n)]
      BY <1>2 DEF AgentDrop
    <3>2. \A z \in Scale, j \in Conn :
            up'[z][j] = up[z][j] \/ (z = s /\ j = sess[s] /\ up'[z][j] = SubSeq(up[z][j], 1, n))
      BY <1>0, <3>1 DEF Channels
    <3>3. up[s][sess[s]] \in Seq(UpMsg)  BY <1>0 DEF Channels
    <3>4. \A m : In(m, SubSeq(up[s][sess[s]], 1, n)) => In(m, up[s][sess[s]])
      BY <3>3, InPrefix
    <3>5. ASSUME NEW m, NEW z \in Scale, NEW j \in Conn, In(m, up'[z][j])
          PROVE  In(m, up[z][j])
      <4>1. CASE up'[z][j] = up[z][j]  BY <3>5, <4>1
      <4>2. CASE z = s /\ j = sess[s] /\ up'[z][j] = SubSeq(up[z][j], 1, n)
        BY <3>4, <3>5, <4>2
      <4> QED  BY <3>2, <4>1, <4>2
    <3> QED  BY <3>5 DEF RefusalSent
  <2>3. task'[c] \in {task[c], "none"}  BY <1>2 DEF AgentDrop
  <2>4. ~Connect(s)  BY <1>2 DEF AgentDrop, Connect
  <2> QED  BY <1>0, <1>h, <1>i, <2>1, <2>2, <2>3, <2>4, AskedLess, LifeCalm DEF Refusing
<1>3. CASE RecvRequest(s)
  <2> DEFINE m == Head(down[s][sess[s]])
  <2>1. m \in DownMsg /\ In(m, down[s][sess[s]]) /\ m.type = "weigh_request"
    BY <1>0, <1>3, HeadIn DEF RecvRequest
  <2>2. m.call \in Calls /\ m = WeighRequestMsg(m.call)
    BY <2>1, MessageTypes, MessagesDiffer
  <2>3. Fewer(down, down')  BY <1>0, <1>3, FewerTail DEF RecvRequest
  <2>4. ~Connect(s)  BY <1>3 DEF RecvRequest, Connect
  <2>5. CASE c # m.call
    <3>1. task'[c] = task[c]  BY <1>3, <2>5 DEF RecvRequest, TypeOK
    <3>2. RefusalSent(c)' => RefusalSent(c)
      <4>1. CASE UNCHANGED up  BY <4>1 DEF RefusalSent
      <4>2. CASE SendUp(s, WeighResultMsg(m.call, FALSE))
        <5>1. /\ WeighResultMsg(m.call, FALSE) \in UpMsg
              /\ WeighResultMsg(m.call, FALSE) # WeighResultMsg(c, FALSE)
          BY <2>2, <2>5, MessagesDiffer, MessageTypes
        <5> QED  BY <4>2, <5>1, RefusalSentBy
      <4> QED  BY <1>3, <4>1, <4>2 DEF RecvRequest
    <3> QED  BY <1>0, <1>h, <1>i, <2>3, <2>4, <3>1, <3>2, AskedLess, LifeCalm DEF Refusing
  <2>6. CASE c = m.call
    <3>1. Asked(c)  BY <1>0, <2>1, <2>2, <2>6 DEF Asked
    <3>2. /\ ~Refusing(c) /\ task[c] = "none" /\ c \notin local
          /\ call[c] \notin NotSentYet
      BY <1>i, <3>1 DEF OneLife, Nowhere
    <3>3. ~Asked(c)'
      <4>1. down[s][sess[s]] \in Seq(DownMsg) /\ down[s][sess[s]] # <<>>
        BY <1>0, <1>3 DEF RecvRequest, Channels
      <4>2. ~In(m, Tail(down[s][sess[s]]))
        BY <1>0, <1>i, <2>2, <2>6, <4>1, InTail DEF AskedOnce
      <4>3. down'[s][sess[s]] = Tail(down[s][sess[s]])
        BY <1>0, <1>3 DEF RecvRequest, Channels
      <4>4. \A z \in Scale, j \in Conn : In(m, down'[z][j]) => z = s /\ j = sess[s]
        BY <1>0, <1>i, <2>1, <2>2, <2>3, <2>6 DEF AskedOnce, Fewer
      <4> QED  BY <2>2, <2>6, <4>2, <4>3, <4>4 DEF Asked
    <3>4. AskedOnce(c)'  BY <1>i, <2>3, AskedLess
    <3>5. call'[c] \notin NotSentYet /\ c \notin local'  BY <1>0, <3>2
    <3>6. CASE UNCHANGED up
      <4>1. ~Refusing(c)'  BY <1>0, <1>h, <2>4, <3>2, <3>6 DEF Refusing, RefusalSent
      <4> QED  BY <3>3, <3>4, <3>5, <4>1 DEF OneLife
    <3>7. CASE UNCHANGED task
      <4>1. Nowhere(c)'  BY <3>2, <3>3, <3>5, <3>7 DEF Nowhere
      <4> QED  BY <3>3, <3>4, <3>5, <4>1 DEF OneLife, Nowhere
    <3> QED  BY <1>3, <3>6, <3>7 DEF RecvRequest
  <2> QED  BY <2>5, <2>6
<1>4. CASE RecvAck(s)
  <2>1. Fewer(down, down') /\ UNCHANGED task  BY <1>0, <1>4, FewerTail DEF RecvAck
  <2>2. RefusalSent(c)' => RefusalSent(c)
    <3>1. CASE UNCHANGED up  BY <3>1 DEF RefusalSent
    <3> DEFINE rest == Unsynced(s) \ Head(down[s][sess[s]]).recs
    <3>2. CASE \E B \in Portions(rest) : SendUp(s, OfflineSyncMsg(B))
      <4>1. PICK B \in Portions(rest) : SendUp(s, OfflineSyncMsg(B))  BY <3>2
      <4>2. B \in SUBSET Rec
        <5>1. rest \in SUBSET Rec  BY DEF Unsynced, TypeOK
        <5> HIDE DEF rest
        <5> QED  BY <5>1, PortionType
      <4>3. OfflineSyncMsg(B) \in UpMsg /\ OfflineSyncMsg(B) # WeighResultMsg(c, FALSE)
        BY <4>2, MessageTypes, MessagesDiffer
      <4> QED  BY <4>1, <4>3, RefusalSentBy
    <3> QED  BY <1>4, <3>1, <3>2 DEF RecvAck
  <2>3. ~Connect(s)  BY <1>4 DEF RecvAck, Connect
  <2> QED  BY <1>0, <1>h, <1>i, <2>1, <2>2, <2>3, AskedLess, LifeCalm DEF Refusing
<1>5. CASE SendPending(s)
  <2>1. UNCHANGED <<task, down>>  BY <1>5 DEF SendPending
  <2>2. RefusalSent(c)' => RefusalSent(c)
    <3>1. PICK B \in Portions(Unsynced(s)) : SendUp(s, OfflineSyncMsg(B))
      BY <1>5 DEF SendPending
    <3>2. Unsynced(s) \in SUBSET Rec  BY DEF Unsynced, TypeOK
    <3>3. OfflineSyncMsg(B) \in UpMsg /\ OfflineSyncMsg(B) # WeighResultMsg(c, FALSE)
      BY <3>2, PortionType, MessageTypes, MessagesDiffer
    <3> QED  BY <3>1, <3>3, RefusalSentBy
  <2>3. ~Connect(s)  BY <1>5 DEF SendPending, Connect
  <2>4. (Asked(c)' => Asked(c)) /\ AskedOnce(c)'  BY <1>i, <2>1 DEF Asked, AskedOnce
  <2> QED  BY <1>0, <1>h, <1>i, <2>1, <2>2, <2>3, <2>4, LifeCalm DEF Refusing
<1> QED  BY <1>1, <1>2, <1>3, <1>4, <1>5 DEF AgentStep

LEMMA TaskLife ==
  ASSUME TypeOK, LifeInv, NEW d \in Calls, TaskStep(d), NEW c \in Calls
  PROVE  OneLife(c)'
<1>0. /\ UNCHANGED <<down, hdl, pend, call, reply>> /\ ScaleOf[d] \in Scale
      /\ task[d] # "none"
  BY ScaleOfAssumption DEF TaskStep, Record, SendResult, Rec
<1>i. OneLife(c) /\ AskedOnce(c)  BY DEF LifeInv, OneLife
<1>a. (Asked(c)' <=> Asked(c)) /\ AskedOnce(c)'  BY <1>0, <1>i DEF Asked, AskedOnce
<1>h. RefusalTaken(c)' <=> RefusalTaken(c)  BY <1>0 DEF RefusalTaken
<1>1. CASE c # d
  <2>1. task'[c] = task[c] /\ (c \in local' => c \in local)
    BY <1>1 DEF TaskStep, Record, SendResult, SaveWeighing, TypeOK
  <2>2. RefusalSent(c)' => RefusalSent(c)
    <3>1. CASE UNCHANGED up  BY <3>1 DEF RefusalSent
    <3>2. ASSUME NEW b \in BOOLEAN, SendUp(ScaleOf[d], WeighResultMsg(d, b))
          PROVE  RefusalSent(c)' => RefusalSent(c)
      <4>1. /\ WeighResultMsg(d, b) \in UpMsg
            /\ WeighResultMsg(d, b) # WeighResultMsg(c, FALSE)
        BY <1>1, MessagesDiffer, MessageTypes
      <4> QED  BY <1>0, <3>2, <4>1, RefusalSentBy
    <3> QED  BY <3>1, <3>2 DEF TaskStep, Record, SendResult
  <2> QED  BY <1>0, <1>a, <1>h, <2>1, <2>2, LifeCalm DEF Refusing
<1>2. CASE c = d
  <2>1. ~Asked(c)' /\ ~Refusing(c) /\ call'[c] \notin NotSentYet
    BY <1>0, <1>2, <1>i, <1>a DEF OneLife, Nowhere
  <2>2. CASE task[c] = "run" /\ SaveWeighing(d) /\ task' = [task EXCEPT ![d] = "saved"] /\ UNCHANGED up
    <3>1. task'[c] = "saved"  BY <1>2, <2>2 DEF TypeOK
    <3>2. RefusalSent(c)' <=> RefusalSent(c)  BY <2>2 DEF RefusalSent
    <3>3. ~Refusing(c)'  BY <1>0, <1>h, <2>1, <3>2 DEF Refusing
    <3> QED  BY <1>a, <2>1, <3>1, <3>3 DEF OneLife
  <2>3. CASE task[c] = "run" /\ task' = [task EXCEPT ![d] = "none"] /\ UNCHANGED local
    <3>1. task'[c] = "none" /\ c \notin local'  BY <1>2, <1>i, <2>3 DEF TypeOK, OneLife
    <3>2. Nowhere(c)'  BY <2>1, <3>1 DEF Nowhere
    <3> QED  BY <1>a, <2>1, <3>1, <3>2 DEF OneLife
  <2>4. CASE SendResult(d)
    <3>1. task'[c] = "none" /\ UNCHANGED local  BY <1>2, <2>4 DEF SendResult, TypeOK
    <3>2. RefusalSent(c)' => RefusalSent(c)
      <4>1. /\ WeighResultMsg(d, TRUE) \in UpMsg
            /\ WeighResultMsg(d, TRUE) # WeighResultMsg(c, FALSE)
        BY MessagesDiffer, MessageTypes
      <4> QED  BY <1>0, <2>4, <4>1, RefusalSentBy DEF SendResult
    <3> QED  BY <1>0, <1>a, <1>h, <3>1, <3>2, LifeCalm DEF Refusing
  <2> QED  BY <1>2, <2>2, <2>3, <2>4 DEF TaskStep, Record
<1> QED  BY <1>1, <1>2

LEMMA HandlerLife ==
  ASSUME TypeOK, LifeInv, NEW s \in Scale, NEW k \in Conn,
         HandlerStep(s, k) \/ HandlerEnd(s, k), NEW c \in Calls
  PROVE  OneLife(c)'
<1>0. /\ up \in Channels(UpMsg) /\ down \in Channels(DownMsg)
      /\ UNCHANGED <<local, task, call, reply>>
  BY DEF TypeOK, Channels, HandlerStep, HandleResult, ResolveResult, HandleSync, SyncOne, SyncAck,
         HandlerEnd, agentVars
<1>i. OneLife(c) /\ AskedOnce(c)  BY DEF LifeInv, OneLife
<1>o. \A z \in Scale, j \in Conn : ~(z = s /\ j = k) => hdl'[z][j] = hdl[z][j]
  BY OwnHandler
<1>1. ASSUME Asked(c)' => Asked(c), AskedOnce(c)', Refusing(c)' => Refusing(c)
      PROVE  OneLife(c)'
  BY <1>0, <1>1, LifeCalm
<1>2. ASSUME UNCHANGED down PROVE (Asked(c)' => Asked(c)) /\ AskedOnce(c)'
  BY <1>i, <1>2 DEF Asked, AskedOnce
<1>3. ASSUME Fewer(up, up') PROVE RefusalSent(c)' => RefusalSent(c)
  BY <1>3 DEF RefusalSent, Fewer
<1>4. ASSUME UNCHANGED up PROVE RefusalSent(c)' => RefusalSent(c)
  BY <1>4 DEF RefusalSent
<1>5. ASSUME hdl'[s][k].pc # "resolve" PROVE RefusalTaken(c)' => RefusalTaken(c)
  BY <1>o, <1>5, TakenLess
<1>6. CASE HandleResult(s, k)
  <2> DEFINE m == Head(up[s][k])
             h == [Recv EXCEPT !.pc = "resolve", !.call = m.call, !.ok = m.ok]
  <2>1. m \in UpMsg /\ In(m, up[s][k]) /\ m.type = "weigh_result"
    BY <1>6, HeadIn DEF HandleResult
  <2>2. Fewer(up, up')  BY <1>0, <1>6, FewerTail DEF HandleResult
  <2>3. hdl'[s][k] = h  BY <1>6 DEF HandleResult, TypeOK
  <2>4. h.pc = "resolve" /\ h.call = m.call /\ h.ok = m.ok  BY HandlerFields
  <2>5. RefusalTaken(c)' => Refusing(c)
    <3>1. CASE RefusalTaken(c)' /\ m.call = c /\ m.ok = FALSE
      <4>1. m = WeighResultMsg(c, FALSE)  BY <2>1, <3>1, MessagesDiffer
      <4> QED  BY <2>1, <4>1 DEF Refusing, RefusalSent
    <3> HIDE DEF h
    <3>2. CASE ~(m.call = c /\ m.ok = FALSE)
      BY <1>o, <2>3, <2>4, <3>2 DEF Refusing, RefusalTaken
    <3> QED  BY <3>1, <3>2
  <2>6. UNCHANGED <<down, pend>>  BY <1>6 DEF HandleResult
  <2> QED  BY <1>0, <1>1, <1>2, <1>3, <2>2, <2>5, <2>6 DEF Refusing
<1>7. CASE ResolveResult(s, k)
  <2> DEFINE h == hdl[s][k]
  <2>1. UNCHANGED <<up, down>> /\ hdl'[s][k] = Recv
    BY <1>7 DEF ResolveResult, wireVars, TypeOK
  <2>2. hdl'[s][k].pc # "resolve"  BY <2>1, HandlerFields
  <2>3. pend'[c] = "refused" => pend[c] = "refused" \/ RefusalTaken(c)
    <3>1. h.pc = "resolve" /\ h.ok \in BOOLEAN
      <4>1. h \in HandlerState  BY DEF TypeOK
      <4> QED  BY <1>7, <4>1 DEF ResolveResult, HandlerState
    <3> HIDE DEF h
    <3>2. \/ pend' = pend
          \/ pend' = [pend EXCEPT ![h.call] = IF h.ok THEN "ok" ELSE "refused"]
      BY <1>7 DEF ResolveResult, h
    <3>3. pend'[c] = "refused" => pend[c] = "refused" \/ (h.call = c /\ h.ok = FALSE)
      BY <3>1, <3>2 DEF TypeOK
    <3> QED  BY <3>1, <3>3 DEF RefusalTaken, h
  <2> QED  BY <1>0, <1>1, <1>2, <1>4, <1>5, <2>1, <2>2, <2>3 DEF Refusing
<1>8. CASE HandleSync(s, k)
  <2>1. Fewer(up, up') /\ UNCHANGED <<down, pend>>
    BY <1>0, <1>8, FewerTail DEF HandleSync
  <2>2. hdl'[s][k].pc # "resolve"
    <3>1. hdl'[s][k] = [Recv EXCEPT !.pc = "sync", !.todo = Head(up[s][k]).recs]
      BY <1>8 DEF HandleSync, TypeOK
    <3> QED  BY <3>1, HandlerFields
  <2> QED  BY <1>0, <1>1, <1>2, <1>3, <1>5, <2>1, <2>2 DEF Refusing
<1>9. CASE SyncOne(s, k)
  <2>1. PICK r : hdl' = [hdl EXCEPT ![s][k] = Accepted(@, r)]  BY <1>9 DEF SyncOne
  <2>2. UNCHANGED <<up, down, pend>>  BY <1>9 DEF SyncOne, wireVars
  <2>3. hdl'[s][k].pc # "resolve"
    <3>1. hdl'[s][k] = Accepted(hdl[s][k], r)  BY <2>1 DEF TypeOK
    <3>2. hdl[s][k] \in HandlerState /\ hdl[s][k].pc = "sync"  BY <1>9 DEF SyncOne, TypeOK
    <3> QED  BY <3>1, <3>2 DEF Accepted, HandlerState
  <2> QED  BY <1>0, <1>1, <1>2, <1>4, <1>5, <2>2, <2>3 DEF Refusing
<1>10. CASE SyncAck(s, k)
  <2>1. hdl'[s][k].pc # "resolve"
    <3>1. hdl'[s][k] = Recv  BY <1>10 DEF SyncAck, TypeOK
    <3> QED  BY <3>1, HandlerFields
  <2>2. UNCHANGED <<up, pend>>  BY <1>10 DEF SyncAck
  <2>3. (Asked(c)' => Asked(c)) /\ AskedOnce(c)'
    <3>1. CASE UNCHANGED down  BY <1>2, <3>1
    <3>2. CASE down' = [down EXCEPT ![s][k] = Append(@, AckMsg(hdl[s][k].done))]
      <4> DEFINE w == WeighRequestMsg(c)
                 a == AckMsg(hdl[s][k].done)
      <4>1. a \in DownMsg /\ a # w
        <5>1. hdl[s][k] \in HandlerState  BY DEF TypeOK
        <5>2. hdl[s][k].done \in SUBSET Rec  BY <5>1 DEF HandlerState
        <5> QED  BY <5>2, MessageTypes, MessagesDiffer
      <4>2. down' = [down EXCEPT ![s][k] = Append(@, a)]  BY <3>2
      <4> HIDE DEF w, a
      <4>3. ASSUME NEW z \in Scale, NEW j \in Conn
            PROVE  /\ In(w, down'[z][j]) => In(w, down[z][j])
                   /\ Once(w, down[z][j]) => Once(w, down'[z][j])
        BY <1>0, <4>1, <4>2, OneMore
      <4> QED  BY <1>i, <4>3 DEF Asked, AskedOnce, w
    <3> QED  BY <1>10, <3>1, <3>2 DEF SyncAck
  <2> QED  BY <1>0, <1>1, <1>4, <1>5, <2>1, <2>2, <2>3 DEF Refusing
<1>11. CASE HandlerEnd(s, k)
  <2>1. hdl'[s][k].pc # "resolve"  BY <1>11 DEF HandlerEnd, TypeOK, Off
  <2>2. Fewer(up, up') /\ UNCHANGED down  BY <1>0, <1>11, FewerClear DEF HandlerEnd
  <2>3. pend'[c] = "refused" => pend[c] = "refused"
    BY <1>11 DEF HandlerEnd, FailPending
  <2> QED  BY <1>0, <1>1, <1>2, <1>3, <1>5, <2>1, <2>2, <2>3 DEF Refusing
<1> QED  BY <1>6, <1>7, <1>8, <1>9, <1>10, <1>11 DEF HandlerStep

LEMMA CallLife ==
  ASSUME TypeOK, LifeInv, NEW d \in Calls, Arrive(d) \/ CallStep(d) \/ CallFails(d),
         NEW c \in Calls
  PROVE  OneLife(c)'
<1>0. UNCHANGED <<local, task, up, hdl>>
  BY DEF Arrive, CallStep, CheckExisting, SendCommand, Wake, CommandTimeout, CallFails,
         agentVars, wireVars
<1>i. OneLife(c) /\ AskedOnce(c)  BY DEF LifeInv, OneLife
<1>h. (RefusalTaken(c)' <=> RefusalTaken(c)) /\ (RefusalSent(c)' <=> RefusalSent(c))
  BY <1>0 DEF RefusalTaken, RefusalSent
<1>1. ASSUME UNCHANGED down, pend'[c] \in {pend[c], "none", "wait"},
             reply'[c] = "refused" => Refusing(c) \/ (call[c] = "join" /\ call'[c] = "done"),
             call'[c] \in NotSentYet => call[c] \in NotSentYet
      PROVE  OneLife(c)'
  <2>1. (Asked(c)' <=> Asked(c)) /\ AskedOnce(c)'  BY <1>i, <1>1 DEF Asked, AskedOnce
  <2>2. CASE Refusing(c)' => Refusing(c)  BY <1>0, <1>1, <2>1, <2>2, LifeCalm
  <2>3. CASE Refusing(c)' /\ ~Refusing(c)
    <3>1. reply'[c] = "refused" /\ call[c] = "join" /\ call'[c] = "done"
      BY <1>h, <1>1, <2>3 DEF Refusing
    <3>2. Nowhere(c)'
      <4>1. Nowhere(c)  BY <1>i, <3>1 DEF OneLife, NotSentYet
      <4> QED  BY <1>0, <2>1, <4>1 DEF Nowhere
    <3>3. call'[c] \notin NotSentYet  BY <3>1 DEF NotSentYet
    <3> QED  BY <2>1, <3>2, <3>3 DEF OneLife, Nowhere
  <2> QED  BY <2>2, <2>3
<1>2. ASSUME NEW v, Finish(d, v), v = "refused" => Refusing(d), UNCHANGED down,
             pend'[c] \in {pend[c], "none", "wait"}
      PROVE  OneLife(c)'
  <2>1. \/ c = d /\ call'[c] = "done" /\ reply'[c] = v
        \/ call[c] = "join" /\ call'[c] = "done"
        \/ call'[c] = call[c] /\ reply'[c] = reply[c]
    BY <1>2, FinishAnswers
  <2>2. reply'[c] = "refused" => Refusing(c) \/ (call[c] = "join" /\ call'[c] = "done")
    BY <1>2, <2>1 DEF Refusing
  <2>3. call'[c] \in NotSentYet => call[c] \in NotSentYet  BY <2>1 DEF NotSentYet
  <2> QED  BY <1>1, <1>2, <2>2, <2>3
<1>3. CASE Arrive(d)
  <2>1. call'[c] \in NotSentYet => call[c] \in NotSentYet
    <3>1. \/ call' = [call EXCEPT ![d] = "join"] \/ call' = [call EXCEPT ![d] = "check"]
      BY <1>3 DEF Arrive
    <3>2. call[d] = "idle"  BY <1>3 DEF Arrive
    <3> QED  BY <3>1, <3>2 DEF TypeOK, NotSentYet
  <2> QED  BY <1>1, <1>3, <2>1 DEF Arrive, wireVars, Refusing
<1>4. CASE CheckExisting(d)
  <2>1. UNCHANGED <<down, pend>>  BY <1>4 DEF CheckExisting, wireVars
  <2>2. CASE Finish(d, refLink[RefOf[d]]) /\ refLink[RefOf[d]] # None
    <3>1. refLink[RefOf[d]] \in Rec  BY <2>2, RefOfAssumption DEF TypeOK
    <3>2. refLink[RefOf[d]] # "refused"  BY <3>1, RecAssumption
    <3> QED  BY <1>2, <2>1, <2>2, <3>2
  <2>3. CASE call' = [call EXCEPT ![d] = "hint"] /\ UNCHANGED reply
    <3>1. call'[c] \in NotSentYet => call[c] \in NotSentYet
      BY <1>4, <2>3 DEF CheckExisting, TypeOK, NotSentYet
    <3> QED  BY <1>1, <2>1, <2>3, <3>1 DEF Refusing
  <2> QED  BY <1>4, <2>2, <2>3 DEF CheckExisting, Existing
<1>5. CASE SendCommand(d)
  <2>1. CASE Finish(d, "offline") /\ UNCHANGED <<down, pend>>
    BY <1>2, <2>1
  <2>2. CASE pend' = [pend EXCEPT ![d] = "wait"] /\ call' = [call EXCEPT ![d] = "wait"]
             /\ UNCHANGED <<down, reply>>
    <3>1. call'[c] \in NotSentYet => call[c] \in NotSentYet
      BY <2>2 DEF TypeOK, NotSentYet
    <3>2. pend'[c] \in {pend[c], "wait"}  BY <2>2 DEF TypeOK
    <3> QED  BY <1>1, <2>2, <3>1, <3>2 DEF Refusing
  <2> DEFINE s == ScaleOf[d]
             w == WeighRequestMsg(d)
             x == WeighRequestMsg(c)
  <2>3. CASE pend' = [pend EXCEPT ![d] = "wait"] /\ call' = [call EXCEPT ![d] = "wait"]
             /\ down' = [down EXCEPT ![s][link[s]] = Append(@, w)] /\ UNCHANGED reply
    <3>1. down \in Channels(DownMsg) /\ s \in Scale /\ link[s] \in Conn /\ w \in DownMsg
      BY ScaleOfAssumption, MessageTypes DEF TypeOK, Channels, Rec
    <3>2. w = x <=> c = d  BY MessagesDiffer
    <3>3. pend'[c] \in {pend[c], "wait"}  BY <2>3 DEF TypeOK
    <3>4. (Refusing(c)' => Refusing(c))  BY <1>h, <2>3, <3>3 DEF Refusing
    <3>5. down' = [down EXCEPT ![s][link[s]] = Append(@, w)]  BY <2>3
    <3> HIDE DEF s, w, x
    <3>6. \A z \in Scale, j \in Conn :
            /\ In(x, down'[z][j]) => In(x, down[z][j]) \/ (x = w /\ z = s /\ j = link[s])
            /\ Once(x, down[z][j]) /\ (In(x, down[z][j]) => x # w) => Once(x, down'[z][j])
      BY <3>1, <3>5, OneMore
    <3>7. CASE c # d
      <4>1. (Asked(c)' => Asked(c)) /\ AskedOnce(c)'
        BY <1>i, <3>2, <3>6, <3>7 DEF Asked, AskedOnce, x
      <4>2. call'[c] = call[c]  BY <2>3, <3>7 DEF TypeOK
      <4> QED  BY <1>0, <3>4, <4>1, <4>2, LifeCalm
    <3>8. CASE c = d
      <4>1. call[c] \in NotSentYet /\ call'[c] = "wait"
        BY <1>5, <2>3, <3>8 DEF SendCommand, NotSentYet, TypeOK
      <4>2. Nowhere(c) /\ ~Refusing(c)  BY <1>i, <4>1 DEF OneLife
      <4>3. \A z \in Scale, j \in Conn : ~In(x, down[z][j])
        BY <4>2 DEF Nowhere, Asked, x
      <4>4. AskedOnce(c)'  BY <1>i, <3>6, <4>3 DEF AskedOnce, x
      <4>5. ~Refusing(c)' /\ task'[c] = "none" /\ c \notin local'
        BY <1>0, <3>4, <4>2 DEF Nowhere
      <4>6. call'[c] \notin NotSentYet  BY <4>1 DEF NotSentYet
      <4> QED  BY <4>4, <4>5, <4>6 DEF OneLife
    <3> QED  BY <3>7, <3>8
  <2> QED  BY <1>5, <2>1, <2>2, <2>3 DEF SendCommand
<1>6. CASE Wake(d)
  <2>1. UNCHANGED down /\ pend'[c] \in {pend[c], "none"}
    BY <1>6 DEF Wake, wireVars, TypeOK
  <2>2. CASE Finish(d, IF d \in journal THEN d ELSE "internal")
    <3>1. (IF d \in journal THEN d ELSE "internal") # "refused"  BY RecAssumption DEF Rec
    <3> QED  BY <1>2, <2>1, <2>2, <3>1
  <2>3. CASE pend[d] = "refused" /\ Finish(d, "refused")  BY <1>2, <2>1, <2>3 DEF Refusing
  <2>4. CASE Finish(d, "offline")  BY <1>2, <2>1, <2>4
  <2> QED  BY <1>6, <2>2, <2>3, <2>4 DEF Wake
<1>7. CASE CommandTimeout(d) \/ CallFails(d)
  <2>1. UNCHANGED down /\ pend'[c] \in {pend[c], "none"}
    BY <1>7 DEF CommandTimeout, CallFails, wireVars, TypeOK
  <2>2. Finish(d, "internal")  BY <1>7 DEF CommandTimeout, CallFails
  <2> QED  BY <1>2, <2>1, <2>2
<1> QED  BY <1>3, <1>4, <1>5, <1>6, <1>7 DEF CallStep

LEMMA LifeInit == Init => LifeInv
<1> SUFFICES ASSUME Init, NEW c \in Calls PROVE OneLife(c)  BY DEF LifeInv
<1>1. \A s \in Scale, k \in Conn : up[s][k] = <<>> /\ down[s][k] = <<>> /\ hdl[s][k].pc = "off"
  BY DEF Init, Off
<1>2. ~Asked(c) /\ AskedOnce(c) /\ ~RefusalSent(c) /\ ~RefusalTaken(c)
  BY <1>1, InEmpty DEF Asked, AskedOnce, RefusalSent, RefusalTaken
<1>3. pend[c] # "refused" /\ reply[c] # "refused"  BY NoneAssumption DEF Init
<1>4. task[c] = "none" /\ c \notin local  BY DEF Init
<1> QED  BY <1>2, <1>3, <1>4 DEF OneLife, Nowhere, Refusing

LEMMA LifeStep == TypeOK /\ LifeInv /\ [Next]_vars => LifeInv'
<1> SUFFICES ASSUME TypeOK, LifeInv, [Next]_vars, NEW c \in Calls PROVE OneLife(c)'
  BY DEF LifeInv
<1>i. OneLife(c) /\ AskedOnce(c)  BY DEF LifeInv, OneLife
<1>1. ASSUME UNCHANGED <<down, up, hdl, pend, reply, task, call>>, c \in local' => c \in local
      PROVE  OneLife(c)'
  <2>1. (Asked(c)' => Asked(c)) /\ AskedOnce(c)' /\ (Refusing(c)' => Refusing(c))
    BY <1>i, <1>1 DEF Asked, AskedOnce, Refusing, RefusalSent, RefusalTaken
  <2> QED  BY <1>1, <2>1, LifeCalm
<1>2. ASSUME NEW m \in Manuals, ManualRecord(m) PROVE OneLife(c)'
  <2>1. c # m  BY DisjointAssumption
  <2> QED  BY <1>1, <1>2, <2>1 DEF ManualRecord, SaveWeighing, wireVars, centerVars
<1>3. ASSUME NEW r \in Rec, NEW f \in Ref, LinkCallback(r, f) PROVE OneLife(c)'
  BY <1>1, <1>3 DEF LinkCallback, agentVars, wireVars
<1>4. CASE UNCHANGED vars  BY <1>1, <1>4 DEF vars
<1>5. CASE CenterCrash
  <2>1. \A s \in Scale, k \in Conn : up'[s][k] = <<>> /\ hdl'[s][k].pc = "off"
    BY <1>5 DEF CenterCrash, Off
  <2>2. ~RefusalSent(c)' /\ ~RefusalTaken(c)'
    BY <2>1, InEmpty DEF RefusalSent, RefusalTaken
  <2>3. /\ UNCHANGED <<down, task, local>> /\ pend'[c] = "none"
        /\ reply'[c] = "refused" => reply[c] = "refused"
        /\ call'[c] \in NotSentYet => call[c] \in NotSentYet
    BY <1>5 DEF CenterCrash, agentVars, NotSentYet
  <2>4. (Asked(c)' => Asked(c)) /\ AskedOnce(c)'  BY <1>i, <2>3 DEF Asked, AskedOnce
  <2> QED  BY <2>2, <2>3, <2>4, LifeCalm DEF Refusing
<1> QED
  BY <1>2, <1>3, <1>4, <1>5, AgentLife, TaskLife, HandlerLife, CallLife DEF Next

(* Every call is in one place of its life only: asked once, held in a       *)
(* queue, at work on the PC, recorded there, or answered.                   *)
THEOREM LifeInvariant == Spec => []LifeInv
BY LifeInit, LifeStep, TypeCorrect, PTL DEF Spec

(* What the PC refused it never records, and what it recorded the AIS is   *)
(* never told was refused: neither a repeat that joined the call nor a     *)
(* break, a late answer or a restart brings the two together.              *)
THEOREM RefusalLeavesNothingHolds == Spec => []RefusalLeavesNothing
<1>1. LifeInv => RefusalLeavesNothing
  BY DEF LifeInv, OneLife, Refusing, Nowhere, RefusalLeavesNothing
<1> QED  BY <1>1, LifeInvariant, PTL

-----------------------------------------------------------------------------
(***************************************************************************)
(* A number is weighed again only after a failure the AIS was told of.     *)
(***************************************************************************)
Failed(c) == reply[c] \in {"offline", "internal", "lost"}
Sent(c)   == Asked(c) \/ task[c] = "run" \/ c \in local

(* The call at work under a number is the one inflight has. *)
Registered == \A c \in Calls : call[c] \in {"check", "hint", "wait"} => inflight[RefOf[c]] = c

(* A command in the journal has taken its number, or found it taken. *)
Linked == \A c \in Calls : c \in journal => refLink[RefOf[c]] # None

(* A call that reached the PC waits, or failed, or was told its own record. *)
SentKnown ==
  \A c \in Calls : Sent(c) =>
    \/ call[c] = "wait"
    \/ call[c] = "done" /\ (Failed(c) \/ (c \in local /\ reply[c] = c))

(* Whoever goes to the PC knows of no other operation under the number but *)
(* failed ones.                                                            *)
GoesAfterFailure ==
  \A c, d \in Calls :
    call[c] \in {"hint", "wait"} /\ c # d /\ RefOf[c] = RefOf[d] /\ d \in local => Failed(d)

RepeatInv ==
  Registered /\ Linked /\ SentKnown /\ GoesAfterFailure /\ SecondOperationOnlyAfterFailure

LEMMA RegisteredStep == TypeOK /\ Registered /\ [Next]_vars => Registered'
<1> SUFFICES ASSUME TypeOK, Registered, [Next]_vars PROVE Registered'  OBVIOUS
<1>r. \A c \in Calls : RefOf[c] \in Ref /\ c # None
  BY RefOfAssumption, NoneIsNoRecord DEF Rec
<1>1. CASE UNCHANGED <<call, reply, inflight>>  BY <1>1 DEF Registered
<1>2. CASE CenterCrash  BY <1>2 DEF CenterCrash, Registered
<1>3. ASSUME NEW d \in Calls, NEW v, Finish(d, v), call[d] \in {"check", "hint", "wait"}
      PROVE  Registered'
  <2> SUFFICES ASSUME NEW c \in Calls, call'[c] \in {"check", "hint", "wait"}
               PROVE  inflight'[RefOf[c]] = c
    BY DEF Registered
  <2>1. call'[c] = call[c] /\ c # d  BY <1>3, FinishAnswers
  <2>2. inflight[RefOf[c]] = c /\ inflight[RefOf[d]] = d  BY <1>3, <2>1 DEF Registered
  <2>3. RefOf[c] # RefOf[d]  BY <2>1, <2>2
  <2> QED  BY <1>3, <1>r, <2>2, <2>3 DEF Finish, TypeOK
<1>4. ASSUME NEW d \in Calls, Arrive(d) \/ CallStep(d) \/ CallFails(d) PROVE Registered'
  <2>1. CASE Arrive(d)
    <3>1. CASE call' = [call EXCEPT ![d] = "join"] /\ UNCHANGED inflight
      BY <3>1 DEF Registered, TypeOK
    <3>2. CASE /\ inflight[RefOf[d]] = None
               /\ call' = [call EXCEPT ![d] = "check"]
               /\ inflight' = [inflight EXCEPT ![RefOf[d]] = d]
      BY <1>r, <3>2 DEF Registered, TypeOK
    <3> QED  BY <2>1, <3>1, <3>2 DEF Arrive
  <2>2. CASE CheckExisting(d)
    <3>1. CASE call' = [call EXCEPT ![d] = "hint"] /\ UNCHANGED inflight
      BY <2>2, <3>1 DEF CheckExisting, Registered, TypeOK
    <3> QED  BY <1>3, <2>2, <3>1 DEF CheckExisting
  <2>3. CASE SendCommand(d)
    <3>1. CASE call' = [call EXCEPT ![d] = "wait"] /\ UNCHANGED inflight
      BY <2>3, <3>1 DEF SendCommand, Registered, TypeOK
    <3> QED  BY <1>3, <2>3, <3>1 DEF SendCommand
  <2>4. CASE Wake(d)  BY <1>3, <2>4 DEF Wake
  <2>5. CASE CommandTimeout(d) \/ CallFails(d)  BY <1>3, <2>5 DEF CommandTimeout, CallFails
  <2> QED  BY <1>4, <2>1, <2>2, <2>3, <2>4, <2>5 DEF CallStep
<1> QED  BY <1>1, <1>2, <1>4, QuietSteps

LEMMA LinkedStep == TypeOK /\ Linked /\ [Next]_vars => Linked'
<1> SUFFICES ASSUME TypeOK, Linked, [Next]_vars PROVE Linked'  OBVIOUS
<1>0. JournalStep  BY JournalSteps
<1>1. \A f \in Ref : refLink[f] # None => refLink'[f] = refLink[f]  BY <1>0, NumbersStay
<1>2. ASSUME NEW c \in Calls, c \in journal' \ journal PROVE refLink'[RefOf[c]] # None
  <2>1. PICK r \in Rec : Save(r)  BY <1>0, <1>2 DEF JournalStep
  <2>2. r = c  BY <1>2, <2>1 DEF Save
  <2>3. RefOf[c] \in Ref /\ c # None  BY RefOfAssumption, NoneIsNoRecord DEF Rec
  <2>4. CASE refLink[RefOf[c]] = None
    <3>1. refLink' = [refLink EXCEPT ![RefOf[c]] = c]  BY <1>2, <2>1, <2>2, <2>4 DEF Save
    <3> QED  BY <2>3, <3>1 DEF TypeOK
  <2> QED  BY <1>1, <2>3, <2>4
<1> QED  BY <1>1, <1>2, RefOfAssumption DEF Linked

(* How a step moves a call, and what it is told when it is over. *)
CallMoves(c) ==
  \/ call'[c] = call[c] /\ reply'[c] = reply[c]
  \/ call[c] = "idle" /\ call'[c] \in {"join", "check"}
  \/ call[c] = "join" /\ call'[c] = "done"
  \/ call[c] = "check" /\ call'[c] = "hint" /\ refLink[RefOf[c]] = None
  \/ call[c] = "hint" /\ call'[c] = "wait"
  \/ /\ call[c] \in {"check", "hint", "wait"} /\ call'[c] = "done"
     /\ \/ Failed(c)'
        \/ call[c] = "check" /\ reply'[c] = refLink[RefOf[c]]
        \/ call[c] = "wait" /\ reply'[c] = c /\ c \in journal
        \/ call[c] = "wait" /\ pend[c] = "refused"

LEMMA CallHistory ==
  ASSUME TypeOK, [Next]_vars, NEW c \in Calls
  PROVE  CallMoves(c)
<1>1. CASE UNCHANGED <<call, reply, inflight>>  BY <1>1 DEF CallMoves
<1>2. CASE CenterCrash  BY <1>2 DEF CenterCrash, CallMoves, Failed, TypeOK
<1>3. ASSUME NEW d \in Calls, NEW v, Finish(d, v), call[d] \in {"check", "hint", "wait"},
             \/ v \in {"offline", "internal", "lost"}
             \/ call[d] = "check" /\ v = refLink[RefOf[d]]
             \/ call[d] = "wait" /\ v = d /\ d \in journal
             \/ call[d] = "wait" /\ pend[d] = "refused"
      PROVE  CallMoves(c)
  <2>1. CASE c = d  BY <1>3, <2>1, FinishAnswers DEF CallMoves, Failed
  <2>2. CASE c # d  BY <1>3, <2>2, FinishAnswers DEF CallMoves
  <2> QED  BY <2>1, <2>2
<1>4. ASSUME NEW d \in Calls, Arrive(d) \/ CallStep(d) \/ CallFails(d) PROVE CallMoves(c)
  <2>1. CASE Arrive(d)
    <3>1. call[d] = "idle" /\ UNCHANGED reply  BY <2>1 DEF Arrive
    <3>2. call' \in {[call EXCEPT ![d] = "join"], [call EXCEPT ![d] = "check"]}
      BY <2>1 DEF Arrive
    <3> QED  BY <3>1, <3>2 DEF CallMoves, TypeOK
  <2>2. CASE CheckExisting(d)
    <3>1. call[d] = "check"  BY <2>2 DEF CheckExisting
    <3>2. CASE Finish(d, refLink[RefOf[d]])  BY <1>3, <3>1, <3>2
    <3>3. CASE /\ refLink[RefOf[d]] = None /\ UNCHANGED reply
               /\ call' = [call EXCEPT ![d] = "hint"]
      BY <3>1, <3>3 DEF CallMoves, TypeOK
    <3> QED  BY <2>2, <3>2, <3>3 DEF CheckExisting, Existing
  <2>3. CASE SendCommand(d)
    <3>1. call[d] = "hint"  BY <2>3 DEF SendCommand
    <3>2. CASE Finish(d, "offline")  BY <1>3, <3>1, <3>2
    <3>3. CASE call' = [call EXCEPT ![d] = "wait"] /\ UNCHANGED reply
      BY <3>1, <3>3 DEF CallMoves, TypeOK
    <3> QED  BY <2>3, <3>2, <3>3 DEF SendCommand
  <2>4. CASE Wake(d)
    <3>1. call[d] = "wait"  BY <2>4 DEF Wake
    <3>2. CASE Finish(d, IF d \in journal THEN d ELSE "internal")
      <4>1. CASE d \in journal  BY <1>3, <3>1, <3>2, <4>1
      <4>2. CASE d \notin journal  BY <1>3, <3>1, <3>2, <4>2
      <4> QED  BY <4>1, <4>2
    <3>3. CASE pend[d] = "refused" /\ Finish(d, "refused")  BY <1>3, <3>1, <3>3
    <3>4. CASE Finish(d, "offline")  BY <1>3, <3>1, <3>4
    <3> QED  BY <2>4, <3>2, <3>3, <3>4 DEF Wake
  <2>5. CASE CommandTimeout(d) \/ CallFails(d)
    BY <1>3, <2>5 DEF CommandTimeout, CallFails
  <2> QED  BY <1>4, <2>1, <2>2, <2>3, <2>4, <2>5 DEF CallStep
<1> QED  BY <1>1, <1>2, <1>4, QuietSteps

(* A call gets to the PC only by being sent. *)
LEMMA AskedHistory ==
  ASSUME TypeOK, [Next]_vars, NEW c \in Calls, Asked(c)'
  PROVE  Asked(c) \/ call'[c] = "wait"
<1>0. down \in Channels(DownMsg) /\ sess \in [Scale -> Conn]  BY DEF TypeOK, Channels
<1>1. CASE UNCHANGED down  BY <1>1 DEF Asked
<1>2. CASE Fewer(down, down')  BY <1>2, AskedLess
<1>3. ASSUME NEW s \in Scale, Connect(s) \/ AgentDrop(s) \/ AgentStep(s)
      PROVE  UNCHANGED down \/ Fewer(down, down')
  <2>1. CASE AgentDrop(s)  BY <1>0, <2>1, FewerClear DEF AgentDrop
  <2>2. CASE RecvRequest(s)  BY <1>0, <2>2, FewerTail DEF RecvRequest
  <2>3. CASE RecvAck(s)  BY <1>0, <2>3, FewerTail DEF RecvAck
  <2> QED  BY <1>3, <2>1, <2>2, <2>3 DEF AgentStep, Connect, SendPending
<1>4. ASSUME NEW s \in Scale, NEW k \in Conn, SyncAck(s, k) PROVE Asked(c)
  <2>1. CASE UNCHANGED down  BY <1>1, <2>1 DEF Asked
  <2> DEFINE a == AckMsg(hdl[s][k].done)
             w == WeighRequestMsg(c)
  <2>2. CASE down' = [down EXCEPT ![s][k] = Append(@, a)]
    <3>1. a \in DownMsg /\ w # a
      <4>1. hdl[s][k] \in HandlerState  BY DEF TypeOK
      <4>2. hdl[s][k].done \in SUBSET Rec  BY <4>1 DEF HandlerState
      <4> QED  BY <4>2, MessageTypes, MessagesDiffer
    <3>2. PICK z \in Scale, j \in Conn : In(w, down'[z][j])  BY DEF Asked
    <3> HIDE DEF a, w
    <3>3. In(w, down[z][j])  BY <1>0, <2>2, <3>1, <3>2, OneMore
    <3> QED  BY <3>3 DEF Asked, w
  <2> QED  BY <1>4, <2>1, <2>2 DEF SyncAck
<1>5. ASSUME NEW d \in Calls, SendCommand(d) PROVE Asked(c) \/ call'[c] = "wait"
  <2>1. CASE UNCHANGED down  BY <1>1, <2>1 DEF Asked
  <2> DEFINE s == ScaleOf[d]
             k == link[s]
             a == WeighRequestMsg(d)
             w == WeighRequestMsg(c)
  <2>2. CASE call' = [call EXCEPT ![d] = "wait"] /\ down' = [down EXCEPT ![s][k] = Append(@, a)]
    <3>1. CASE c = d  BY <2>2, <3>1 DEF TypeOK
    <3>2. CASE c # d
      <4>1. a \in DownMsg /\ w # a /\ s \in Scale /\ k \in Conn
        BY <3>2, MessageTypes, MessagesDiffer, ScaleOfAssumption DEF TypeOK, Rec
      <4>2. PICK z \in Scale, j \in Conn : In(w, down'[z][j])  BY DEF Asked
      <4>3. down' = [down EXCEPT ![s][k] = Append(@, a)]  BY <2>2
      <4> HIDE DEF a, w, s, k
      <4>4. In(w, down[z][j])  BY <1>0, <4>1, <4>2, <4>3, OneMore
      <4> QED  BY <4>4 DEF Asked, w
    <3> QED  BY <3>1, <3>2
  <2> QED  BY <1>5, <2>1, <2>2 DEF SendCommand
<1>6. ASSUME NEW s \in Scale, NEW k \in Conn, HandlerStep(s, k) \/ HandlerEnd(s, k), ~SyncAck(s, k)
      PROVE  UNCHANGED down
  BY <1>6 DEF HandlerStep, HandleResult, ResolveResult, HandleSync, SyncOne, HandlerEnd, wireVars
<1>7. ASSUME NEW d \in Calls, TaskStep(d) \/ Arrive(d) \/ CallStep(d) \/ CallFails(d), ~SendCommand(d)
      PROVE  UNCHANGED down
  BY <1>7 DEF TaskStep, Record, SendResult, Arrive, CallStep, CheckExisting, Wake,
              CommandTimeout, CallFails, wireVars
<1>8. ASSUME NEW m \in Manuals, ManualRecord(m) PROVE UNCHANGED down
  BY <1>8 DEF ManualRecord, wireVars
<1>9. ASSUME NEW r \in Rec, NEW f \in Ref, LinkCallback(r, f) PROVE UNCHANGED down
  BY <1>9 DEF LinkCallback, wireVars
<1>10. CASE CenterCrash  BY <1>1, <1>10 DEF CenterCrash
<1>11. CASE UNCHANGED vars  BY <1>1, <1>11 DEF vars
<1> QED
  BY <1>1, <1>2, <1>3, <1>4, <1>5, <1>6, <1>7, <1>8, <1>9, <1>10, <1>11 DEF Next

(* It runs only when asked for, and gets into the journal of the PC only   *)
(* from a task that runs.                                                  *)
LEMMA TaskHistory ==
  ASSUME TypeOK, [Next]_vars, NEW c \in Calls
  PROVE  /\ task'[c] = "run" => task[c] = "run" \/ Asked(c)
         /\ c \in local' => c \in local \/ task[c] = "run"
         /\ local \subseteq local'
<1>1. CASE UNCHANGED <<task, local>>  BY <1>1
<1>2. ASSUME NEW m \in Manuals, ManualRecord(m)
      PROVE  local \subseteq local' /\ (c \in local' => c \in local) /\ UNCHANGED task
  BY <1>2, DisjointAssumption DEF ManualRecord, SaveWeighing
<1>3. ASSUME NEW d \in Calls, TaskStep(d)
      PROVE  /\ task'[c] = "run" => task[c] = "run"
             /\ c \in local' => c \in local \/ task[c] = "run"
             /\ local \subseteq local'
  BY <1>3 DEF TaskStep, Record, SendResult, SaveWeighing, TypeOK
<1>4. ASSUME NEW s \in Scale, RecvRequest(s)
      PROVE  (task'[c] = "run" => task[c] = "run" \/ Asked(c)) /\ UNCHANGED local
  <2> DEFINE m == Head(down[s][sess[s]])
  <2>1. m \in DownMsg /\ In(m, down[s][sess[s]]) /\ m.type = "weigh_request" /\ sess[s] \in Conn
    BY <1>4, HeadIn DEF RecvRequest, TypeOK
  <2>2. m.call \in Calls /\ m = WeighRequestMsg(m.call)
    BY <2>1, MessageTypes, MessagesDiffer
  <2>3. Asked(m.call)  BY <2>1, <2>2 DEF Asked
  <2>4. (task' = task \/ task' = [task EXCEPT ![m.call] = "run"]) /\ UNCHANGED local
    BY <1>4 DEF RecvRequest
  <2> HIDE DEF m
  <2> QED  BY <2>2, <2>3, <2>4 DEF TypeOK
<1>5. ASSUME NEW s \in Scale, AgentDrop(s)
      PROVE  (task'[c] = "run" => task[c] = "run") /\ UNCHANGED local
  BY <1>5 DEF AgentDrop
<1>6. ASSUME NEW s \in Scale, Connect(s) \/ RecvAck(s) \/ SendPending(s)
      PROVE  UNCHANGED <<task, local>>
  BY <1>6 DEF Connect, RecvAck, SendPending
<1>7. ASSUME NEW s \in Scale, NEW k \in Conn, HandlerStep(s, k) \/ HandlerEnd(s, k)
      PROVE  UNCHANGED <<task, local>>
  BY <1>7 DEF HandlerStep, HandleResult, ResolveResult, HandleSync, SyncOne, SyncAck,
              HandlerEnd, agentVars
<1>8. ASSUME NEW d \in Calls, Arrive(d) \/ CallStep(d) \/ CallFails(d)
      PROVE  UNCHANGED <<task, local>>
  BY <1>8 DEF Arrive, CallStep, CheckExisting, SendCommand, Wake, CommandTimeout, CallFails,
              agentVars
<1>9. ASSUME NEW r \in Rec, NEW f \in Ref, LinkCallback(r, f) PROVE UNCHANGED <<task, local>>
  BY <1>9 DEF LinkCallback, agentVars
<1>10. CASE CenterCrash  BY <1>1, <1>10 DEF CenterCrash, agentVars
<1>11. CASE UNCHANGED vars  BY <1>1, <1>11 DEF vars
<1> QED
  BY <1>1, <1>2, <1>3, <1>4, <1>5, <1>6, <1>7, <1>8, <1>9, <1>10, <1>11 DEF Next, AgentStep

LEMMA SentHistory ==
  ASSUME TypeOK, [Next]_vars, NEW c \in Calls, Sent(c)'
  PROVE  Sent(c) \/ call'[c] = "wait"
BY AskedHistory, TaskHistory DEF Sent

(* What the conjuncts of RepeatInv rest on. *)
RepeatBasis ==
  TypeOK /\ LifeInv /\ DurableSync /\ AnswerSound /\ OpenUntold /\ Registered /\ Linked

(* A failure, once told, stays told. *)
LEMMA FailureStays ==
  ASSUME RepeatBasis, [Next]_vars, NEW c \in Calls, Failed(c)
  PROVE  Failed(c)'
<1>1. reply[c] # None  BY NoneAssumption DEF Failed
<1>2. call[c] = "done"  BY <1>1 DEF RepeatBasis, OpenUntold
<1>3. CallMoves(c)  BY CallHistory DEF RepeatBasis
<1> QED  BY <1>2, <1>3 DEF CallMoves, Failed

LEMMA SentKnownStep ==
  ASSUME RepeatBasis, SentKnown, [Next]_vars
  PROVE  SentKnown'
<1> SUFFICES ASSUME NEW c \in Calls, Sent(c)'
             PROVE  \/ call'[c] = "wait"
                    \/ call'[c] = "done" /\ (Failed(c)' \/ (c \in local' /\ reply'[c] = c))
  BY DEF SentKnown
<1>t. TypeOK  BY DEF RepeatBasis
<1>1. CASE call'[c] # "wait"
  <2>1. Sent(c)  BY <1>1, <1>t, SentHistory
  <2>2. CallMoves(c)  BY <1>t, CallHistory
  <2>3. local \subseteq local' /\ journal \subseteq local
    BY <1>t, TaskHistory DEF RepeatBasis, DurableSync
  <2>4. CASE call[c] = "wait"
    <3>1. pend[c] # "refused"
      BY <2>1 DEF RepeatBasis, LifeInv, OneLife, Refusing, Nowhere, Sent
    <3> QED  BY <1>1, <2>2, <2>3, <2>4, <3>1 DEF CallMoves
  <2>5. CASE call[c] = "done"
    <3>1. UNCHANGED <<call[c], reply[c]>>  BY <2>2, <2>5 DEF CallMoves
    <3> QED  BY <2>1, <2>3, <2>5, <3>1 DEF SentKnown, Failed
  <2> QED  BY <2>1, <2>4, <2>5 DEF SentKnown
<1> QED  BY <1>1

(* Another operation under the number of a call at work has failed. *)
LEMMA OtherFailed ==
  ASSUME RepeatBasis, SentKnown, NEW c \in Calls, NEW d \in Calls, c # d, RefOf[c] = RefOf[d],
         call[c] \in {"check", "hint", "wait"}, Sent(d)
  PROVE  Failed(d) \/ (d \in journal /\ refLink[RefOf[c]] # None /\ d \in local)
<1>1. call[d] # "wait"  BY DEF RepeatBasis, Registered
<1>2. CASE reply[d] = d /\ d \in local
  <2>1. d \in journal  BY <1>2 DEF RepeatBasis, AnswerSound, Rec
  <2> QED  BY <1>2, <2>1 DEF RepeatBasis, Linked
<1> QED  BY <1>1, <1>2 DEF SentKnown

LEMMA GoesAfterFailureStep ==
  ASSUME RepeatBasis, SentKnown, GoesAfterFailure, [Next]_vars
  PROVE  GoesAfterFailure'
<1> SUFFICES ASSUME NEW c \in Calls, NEW d \in Calls, call'[c] \in {"hint", "wait"},
                    c # d, RefOf[c] = RefOf[d], d \in local'
             PROVE  Failed(d)'
  BY DEF GoesAfterFailure
<1>t. TypeOK  BY DEF RepeatBasis
<1>1. CallMoves(c)  BY <1>t, CallHistory
<1>2. d \in local \/ task[d] = "run"  BY <1>t, TaskHistory
<1>3. Sent(d)  BY <1>2 DEF Sent
<1>4. CASE call[c] \in {"hint", "wait"}
  <2>1. CASE d \in local  BY <1>4, <2>1, FailureStays DEF GoesAfterFailure
  <2>2. CASE d \notin local  BY <1>3, <1>4, <2>2, OtherFailed, FailureStays
  <2> QED  BY <2>1, <2>2
<1>5. CASE call[c] = "check" /\ refLink[RefOf[c]] = None
  BY <1>3, <1>5, OtherFailed, FailureStays
<1> QED  BY <1>1, <1>4, <1>5 DEF CallMoves

LEMMA SecondOperationStep ==
  ASSUME RepeatBasis, SentKnown, GoesAfterFailure, SecondOperationOnlyAfterFailure, [Next]_vars
  PROVE  SecondOperationOnlyAfterFailure'
<1>t. TypeOK  BY DEF RepeatBasis
<1>1. ASSUME NEW c \in Calls, NEW d \in Calls, c # d, RefOf[c] = RefOf[d],
             c \in local', d \in local', c \notin local
      PROVE  Failed(c)' \/ Failed(d)'
  <2>1. task[c] = "run" /\ Sent(c)  BY <1>1, <1>t, TaskHistory DEF Sent
  <2>2. Sent(d) /\ (d \in local \/ task[d] = "run")  BY <1>1, <1>t, TaskHistory DEF Sent
  <2>3. CASE Failed(c)  BY <2>3, FailureStays
  <2>4. CASE call[c] = "wait"
    <3>1. Failed(d)  BY <1>1, <2>2, <2>4, OtherFailed DEF GoesAfterFailure
    <3> QED  BY <3>1, FailureStays
  <2> QED  BY <1>1, <2>1, <2>3, <2>4 DEF SentKnown
<1>2. ASSUME NEW c \in Calls, NEW d \in Calls, c # d, RefOf[c] = RefOf[d],
             c \in local, d \in local
      PROVE  Failed(c)' \/ Failed(d)'
  <2>1. Failed(c) \/ Failed(d)  BY <1>2 DEF SecondOperationOnlyAfterFailure, Failed
  <2> QED  BY <2>1, FailureStays
<1>3. ASSUME NEW c \in Calls, NEW d \in Calls, c # d, RefOf[c] = RefOf[d],
             c \in local', d \in local'
      PROVE  Failed(c)' \/ Failed(d)'
  BY <1>1, <1>2, <1>3
<1> QED  BY <1>3 DEF SecondOperationOnlyAfterFailure, Failed

LEMMA RepeatInit == Init => RepeatInv
<1> SUFFICES ASSUME Init PROVE RepeatInv  OBVIOUS
<1>1. \A c \in Calls : ~Sent(c)
  <2> SUFFICES ASSUME NEW c \in Calls PROVE ~Sent(c)  OBVIOUS
  <2>1. \A s \in Scale, k \in Conn : down[s][k] = <<>>  BY DEF Init
  <2>2. ~Asked(c)  BY <2>1, InEmpty DEF Asked
  <2> QED  BY <2>2 DEF Init, Sent
<1> QED
  BY <1>1 DEF Init, RepeatInv, Registered, Linked, SentKnown, GoesAfterFailure,
              SecondOperationOnlyAfterFailure

(* Who works under a number, what it has sent and what it knows of the     *)
(* operations before it.                                                   *)
THEOREM RepeatInvariant == Spec => []RepeatInv
<1>1. TypeOK /\ LifeInv /\ DurableSync /\ AnswerSound /\ OpenUntold /\ RepeatInv
        /\ [Next]_vars => RepeatInv'
  BY RegisteredStep, LinkedStep, SentKnownStep, GoesAfterFailureStep, SecondOperationStep
  DEF RepeatInv, RepeatBasis
<1>2. Init => OpenUntold  BY DEF Init, OpenUntold
<1> QED
  BY <1>1, <1>2, RepeatInit, OpenUntoldStep, TypeCorrect, LifeInvariant, DurableSyncHolds,
     AnswerSoundHolds, PTL DEF Spec

(* Two operations under one AIS number happen only if the AIS was told of  *)
(* a failure of the connection or of the center in between.                *)
THEOREM SecondOperationHolds == Spec => []SecondOperationOnlyAfterFailure
BY RepeatInvariant, PTL DEF RepeatInv

-----------------------------------------------------------------------------
(***************************************************************************)
(* One portion is under way.                                               *)
(***************************************************************************)
Of(t, q)     == {j \in 1 .. Len(q) : q[j].type = t}
AtMostOne(S) == \A i, j \in S : i = j

PortionUp(s)     == Of("offline_sync", up[s][sess[s]])
AckDown(s)       == Of("offline_sync_ack", down[s][sess[s]])
PortionTaken(s)  == hdl[s][sess[s]].pc = "sync"

(* A connection that is still to be opened has carried nothing. *)
FreshConnections ==
  \A s \in Scale :
    /\ sess[s] <= nconn[s]
    /\ \A k \in Conn : k > nconn[s] => up[s][k] = <<>> /\ down[s][k] = <<>>

(* The portion is on the way up, in the handler or acknowledged on the way *)
(* down, in one of these places and once.                                  *)
OnePlace(s) ==
  /\ AtMostOne(PortionUp(s)) /\ AtMostOne(AckDown(s))
  /\ PortionUp(s) = {} \/ AckDown(s) = {}
  /\ PortionTaken(s) => PortionUp(s) = {} /\ AckDown(s) = {}
UnderWay(s) == PortionUp(s) # {} \/ AckDown(s) # {} \/ PortionTaken(s)

PortionKnown(s) ==
  /\ sess[s] = 0 => inFlight[s] = FALSE
  /\ sess[s] # 0 =>
       /\ OnePlace(s)
       /\ UnderWay(s) => inFlight[s]
       /\ inFlight[s] /\ hdl[s][sess[s]].pc # "off" => UnderWay(s)
PortionInv == FreshConnections /\ \A s \in Scale : PortionKnown(s)

LEMMA OfAppend ==
  ASSUME NEW M, NEW q \in Seq(M), NEW x \in M, NEW t
  PROVE  Of(t, Append(q, x)) = IF x.type = t THEN Of(t, q) \cup {Len(q) + 1} ELSE Of(t, q)
<1>1. /\ Len(Append(q, x)) = Len(q) + 1 /\ Len(q) \in Nat
      /\ \A i \in 1 .. Len(q) : Append(q, x)[i] = q[i]
      /\ Append(q, x)[Len(q) + 1] = x
  BY AppendProperties, LenProperties
<1>2. 1 .. (Len(q) + 1) = (1 .. Len(q)) \cup {Len(q) + 1}  BY <1>1
<1> QED  BY <1>1, <1>2 DEF Of

LEMMA OfTail ==
  ASSUME NEW M, NEW q \in Seq(M), q # <<>>, NEW t
  PROVE  /\ AtMostOne(Of(t, q)) => AtMostOne(Of(t, Tail(q)))
         /\ Of(t, Tail(q)) # {} => Of(t, q) # {}
         /\ Head(q).type # t /\ Of(t, q) # {} => Of(t, Tail(q)) # {}
         /\ Head(q).type = t => Of(t, q) # {}
         /\ Head(q).type = t /\ AtMostOne(Of(t, q)) => Of(t, Tail(q)) = {}
<1>1. /\ Len(q) \in Nat \ {0} /\ Len(Tail(q)) = Len(q) - 1 /\ Head(q) = q[1]
      /\ \A i \in 1 .. Len(Tail(q)) : Tail(q)[i] = q[i + 1]
  BY HeadTailProperties, LenProperties, EmptySeq
<1>2. \A i \in 1 .. Len(Tail(q)) : i + 1 \in 1 .. Len(q) /\ i + 1 # 1  BY <1>1
<1>3. 1 \in 1 .. Len(q)  BY <1>1
<1>4. \A i \in Of(t, Tail(q)) : i + 1 \in Of(t, q) /\ i + 1 # 1  BY <1>1, <1>2 DEF Of
<1>5. \A i \in Of(t, q) : i # 1 => i - 1 \in Of(t, Tail(q))
  <2> SUFFICES ASSUME NEW i \in Of(t, q), i # 1 PROVE i - 1 \in Of(t, Tail(q))  OBVIOUS
  <2>1. i \in 1 .. Len(q) /\ q[i].type = t  BY DEF Of
  <2>2. i - 1 \in 1 .. Len(Tail(q)) /\ (i - 1) + 1 = i  BY <1>1, <2>1
  <2>3. Tail(q)[i - 1] = q[i]  BY <1>1, <2>2
  <2> QED  BY <2>1, <2>2, <2>3 DEF Of
<1>6. Head(q).type = t <=> 1 \in Of(t, q)  BY <1>1, <1>3 DEF Of
<1>7. Of(t, Tail(q)) \subseteq Int  BY DEF Of
<1>8. AtMostOne(Of(t, q)) => AtMostOne(Of(t, Tail(q)))
  <2> SUFFICES ASSUME AtMostOne(Of(t, q)), NEW i \in Of(t, Tail(q)), NEW j \in Of(t, Tail(q))
               PROVE  i = j
    BY DEF AtMostOne
  <2>1. i + 1 = j + 1  BY <1>4 DEF AtMostOne
  <2> QED  BY <1>7, <2>1
<1>9. Head(q).type = t /\ AtMostOne(Of(t, q)) => Of(t, Tail(q)) = {}
  BY <1>4, <1>6 DEF AtMostOne
<1> QED  BY <1>4, <1>5, <1>6, <1>8, <1>9

LEMMA OfEmpty == \A t : Of(t, <<>>) = {}
BY DEF Of

(* One queue written, the others as they were. *)
LEMMA OtherQueues ==
  ASSUME NEW M, NEW ch \in Channels(M), NEW s \in Scale, NEW k \in Conn, NEW q
  PROVE  \A z \in Scale, j \in Conn :
           ~(z = s /\ j = k) => [ch EXCEPT ![s][k] = q][z][j] = ch[z][j]
BY DEF Channels

(* Queues are written up to the newest connection only. *)
LEMMA FreshKept ==
  ASSUME FreshConnections,
         \A z \in Scale : sess'[z] <= nconn'[z],
         \A z \in Scale, j \in Conn : j > nconn'[z] => j > nconn[z],
         \A z \in Scale, j \in Conn :
           j > nconn[z] => /\ up'[z][j] \in {up[z][j], <<>>}
                           /\ down'[z][j] \in {down[z][j], <<>>}
  PROVE  FreshConnections'
BY DEF FreshConnections

LEMMA ConnOrder ==
  /\ \A n \in Conn : n \in Nat /\ 0 <= n
  /\ \A m, n \in Conn : m > n => m # n
  /\ \A m, n \in Conn : m > n + 1 => m > n
BY BoundsAssumption DEF Conn

LEMMA AgentFresh ==
  ASSUME TypeOK, FreshConnections, NEW s \in Scale, Connect(s) \/ AgentDrop(s) \/ AgentStep(s)
  PROVE  FreshConnections'
<1>0. /\ sess \in [Scale -> Conn] /\ nconn \in [Scale -> Conn]
      /\ up \in Channels(UpMsg) /\ down \in Channels(DownMsg)
  BY DEF TypeOK, Channels
<1>1. \A z \in Scale : sess[z] <= nconn[z]  BY DEF FreshConnections
<1>2. CASE Connect(s)
  <2>1. /\ \A z \in Scale : \/ sess'[z] = sess[z] /\ nconn'[z] = nconn[z]
                            \/ (z = s /\ sess'[z] = nconn[z] + 1 /\ nconn'[z] = nconn[z] + 1)
        /\ UNCHANGED <<up, down>>
    BY <1>0, <1>2 DEF Connect
  <2>2. \A z \in Scale : sess'[z] <= nconn'[z]
    <3>1. \A z \in Scale : nconn[z] + 1 \in Int  BY <1>0, ConnOrder
    <3> QED  BY <1>1, <2>1, <3>1
  <2>3. \A z \in Scale, j \in Conn : j > nconn'[z] => j > nconn[z]
    BY <1>0, <2>1, ConnOrder
  <2> QED  BY <2>1, <2>2, <2>3, FreshKept
<1>3. ASSUME UNCHANGED nconn, \A z \in Scale : sess'[z] \in {sess[z], 0},
             \A z \in Scale, j \in Conn : ~(z = s /\ j = sess[s]) =>
               up'[z][j] = up[z][j] /\ down'[z][j] = down[z][j]
      PROVE  FreshConnections'
  <2>1. \A z \in Scale : sess'[z] <= nconn'[z]  BY <1>0, <1>1, <1>3, ConnOrder
  <2>2. \A j \in Conn : j > nconn[s] => j # sess[s]
    BY <1>0, <1>1, BoundsAssumption DEF Conn
  <2> QED  BY <1>3, <2>1, <2>2, FreshKept
<1>4. CASE AgentDrop(s)
  <2>1. PICK n : up' = [up EXCEPT ![s][sess[s]] = SubSeq(@, 1, n)]  BY <1>4 DEF AgentDrop
  <2>2. down' = [down EXCEPT ![s][sess[s]] = <<>>] /\ sess' = [sess EXCEPT ![s] = 0]
        /\ UNCHANGED nconn
    BY <1>4 DEF AgentDrop
  <2> QED  BY <1>0, <1>3, <2>1, <2>2 DEF Channels
<1>5. CASE AgentStep(s)
  <2>1. UNCHANGED <<sess, nconn>>
    BY <1>5 DEF AgentStep, RecvRequest, RecvAck, SendPending
  <2>2. down' = down \/ down' = [down EXCEPT ![s][sess[s]] = Tail(@)]
    BY <1>5 DEF AgentStep, RecvRequest, RecvAck, SendPending
  <2>3. up' = up \/ \E m : up' = [up EXCEPT ![s][sess[s]] = Append(@, m)]
    BY <1>5 DEF AgentStep, RecvRequest, RecvAck, SendPending, SendUp
  <2>4. \A z \in Scale, j \in Conn : ~(z = s /\ j = sess[s]) => down'[z][j] = down[z][j]
    <3>1. CASE down' = [down EXCEPT ![s][sess[s]] = Tail(down[s][sess[s]])]
      BY <1>0, <3>1, OtherQueues
    <3> QED  BY <2>2, <3>1
  <2>5. \A z \in Scale, j \in Conn : ~(z = s /\ j = sess[s]) => up'[z][j] = up[z][j]
    <3>1. ASSUME NEW m, up' = [up EXCEPT ![s][sess[s]] = Append(up[s][sess[s]], m)]
          PROVE  \A z \in Scale, j \in Conn : ~(z = s /\ j = sess[s]) => up'[z][j] = up[z][j]
      BY <1>0, <3>1, OtherQueues
    <3> QED  BY <2>3, <3>1
  <2> QED  BY <1>3, <2>1, <2>4, <2>5
<1> QED  BY <1>2, <1>4, <1>5

LEMMA FreshStep == TypeOK /\ FreshConnections /\ [Next]_vars => FreshConnections'
<1> SUFFICES ASSUME TypeOK, FreshConnections, [Next]_vars PROVE FreshConnections'  OBVIOUS
<1>0. /\ sess \in [Scale -> Conn] /\ nconn \in [Scale -> Conn] /\ link \in [Scale -> Conn]
      /\ up \in Channels(UpMsg) /\ down \in Channels(DownMsg)
  BY DEF TypeOK, Channels
<1>1. \A z \in Scale : sess[z] <= nconn[z]  BY DEF FreshConnections
<1>2. \A z \in Scale, j \in Conn : j > nconn[z] => j # sess[z]
  BY <1>0, <1>1, BoundsAssumption DEF Conn
<1>3. ASSUME UNCHANGED <<nconn, sess>>,
             \A z \in Scale, j \in Conn :
               \/ up'[z][j] \in {up[z][j], <<>>} \/ up[z][j] # <<>> \/ j = sess[z],
             \A z \in Scale, j \in Conn : down'[z][j] = down[z][j] \/ j = sess[z]
      PROVE  FreshConnections'
  <2>1. \A z \in Scale, j \in Conn : j > nconn[z] => up[z][j] = <<>>  BY DEF FreshConnections
  <2> QED  BY <1>1, <1>2, <1>3, <2>1, FreshKept
<1>4. CASE UNCHANGED <<nconn, sess, up, down>>  BY <1>3, <1>4
<1>5. ASSUME NEW c \in Calls, TaskStep(c) PROVE FreshConnections'
  <2> DEFINE s == ScaleOf[c]
  <2>1. s \in Scale /\ UNCHANGED <<nconn, sess, down>>
    BY <1>5, ScaleOfAssumption DEF TaskStep, Record, SendResult, Rec
  <2>2. up' = up \/ \E m : up' = [up EXCEPT ![s][sess[s]] = Append(@, m)]
    BY <1>5 DEF TaskStep, Record, SendResult, SendUp
  <2> HIDE DEF s
  <2>3. \A z \in Scale, j \in Conn : up'[z][j] = up[z][j] \/ j = sess[z]
    <3>1. ASSUME NEW m, up' = [up EXCEPT ![s][sess[s]] = Append(up[s][sess[s]], m)]
          PROVE  \A z \in Scale, j \in Conn : ~(z = s /\ j = sess[s]) => up'[z][j] = up[z][j]
      BY <1>0, <2>1, <3>1, OtherQueues
    <3> QED  BY <2>2, <3>1
  <2> QED  BY <1>3, <2>1, <2>3
<1>6. ASSUME NEW s \in Scale, NEW k \in Conn, HandlerStep(s, k) \/ HandlerEnd(s, k)
      PROVE  FreshConnections'
  <2>1. UNCHANGED <<nconn, sess>>
    BY <1>6 DEF HandlerStep, HandleResult, ResolveResult, HandleSync, SyncOne, SyncAck,
                HandlerEnd, agentVars
  <2>2. \/ up' = up \/ up' = [up EXCEPT ![s][k] = <<>>]
        \/ up[s][k] # <<>> /\ up' = [up EXCEPT ![s][k] = Tail(@)]
    BY <1>6 DEF HandlerStep, HandleResult, ResolveResult, HandleSync, SyncOne, SyncAck,
                HandlerEnd, wireVars
  <2>3. \A z \in Scale, j \in Conn : up'[z][j] \in {up[z][j], <<>>} \/ up[z][j] # <<>>
    <3>1. ASSUME NEW q, up' = [up EXCEPT ![s][k] = q]
          PROVE  \A z \in Scale, j \in Conn : ~(z = s /\ j = k) => up'[z][j] = up[z][j]
      BY <1>0, <3>1, OtherQueues
    <3>2. \A z \in Scale, j \in Conn : ~(z = s /\ j = k) => up'[z][j] = up[z][j]
      BY <2>2, <3>1
    <3>3. up'[s][k] \in {up[s][k], <<>>} \/ up[s][k] # <<>>  BY <1>0, <2>2 DEF Channels
    <3> QED  BY <3>2, <3>3
  <2>4. down' = down \/ (sess[s] = k /\ \E m : down' = [down EXCEPT ![s][k] = Append(@, m)])
    BY <1>6 DEF HandlerStep, HandleResult, ResolveResult, HandleSync, SyncOne, SyncAck,
                HandlerEnd, wireVars
  <2>5. \A z \in Scale, j \in Conn : down'[z][j] = down[z][j] \/ j = sess[z]
    <3>1. ASSUME NEW q, down' = [down EXCEPT ![s][k] = q]
          PROVE  \A z \in Scale, j \in Conn : ~(z = s /\ j = k) => down'[z][j] = down[z][j]
      BY <1>0, <3>1, OtherQueues
    <3> QED  BY <2>4, <3>1
  <2> QED  BY <1>3, <2>1, <2>3, <2>5
<1>7. ASSUME NEW c \in Calls, SendCommand(c) PROVE FreshConnections'
  <2> DEFINE s == ScaleOf[c]
  <2>1. s \in Scale /\ UNCHANGED <<nconn, sess, up>>
    BY <1>7, ScaleOfAssumption DEF SendCommand, Rec, agentVars
  <2>2. down' = down
        \/ (sess[s] = link[s] /\ \E m : down' = [down EXCEPT ![s][link[s]] = Append(@, m)])
    BY <1>7 DEF SendCommand
  <2> HIDE DEF s
  <2>3. \A z \in Scale, j \in Conn : down'[z][j] = down[z][j] \/ j = sess[z]
    <3>1. ASSUME NEW q, down' = [down EXCEPT ![s][link[s]] = q]
          PROVE  \A z \in Scale, j \in Conn : ~(z = s /\ j = link[s]) => down'[z][j] = down[z][j]
      BY <1>0, <2>1, <3>1, OtherQueues
    <3> QED  BY <2>2, <3>1
  <2> QED  BY <1>3, <2>1, <2>3
<1>8. ASSUME NEW c \in Calls, Arrive(c) \/ CallStep(c) \/ CallFails(c), ~SendCommand(c)
      PROVE  UNCHANGED <<nconn, sess, up, down>>
  BY <1>8 DEF Arrive, CallStep, CheckExisting, Wake, CommandTimeout, CallFails,
              agentVars, wireVars
<1>9. ASSUME NEW m \in Manuals, ManualRecord(m) PROVE UNCHANGED <<nconn, sess, up, down>>
  BY <1>9 DEF ManualRecord, wireVars
<1>10. ASSUME NEW r \in Rec, NEW f \in Ref, LinkCallback(r, f)
       PROVE  UNCHANGED <<nconn, sess, up, down>>
  BY <1>10 DEF LinkCallback, agentVars, wireVars
<1>11. CASE CenterCrash
  <2>1. UNCHANGED <<nconn, sess, down>> /\ \A z \in Scale, j \in Conn : up'[z][j] = <<>>
    BY <1>11 DEF CenterCrash, agentVars
  <2> QED  BY <1>3, <2>1
<1>12. CASE UNCHANGED vars  BY <1>4, <1>12 DEF vars
<1> QED
  BY <1>4, <1>5, <1>6, <1>7, <1>8, <1>9, <1>10, <1>11, <1>12, AgentFresh DEF Next

(* A step that starts no portion and loses one only with its handler. *)
LEMMA PortionCalm ==
  ASSUME NEW z \in Scale, PortionKnown(z), sess'[z] = sess[z], inFlight'[z] = inFlight[z],
         AtMostOne(PortionUp(z)) => AtMostOne(PortionUp(z))',
         AtMostOne(AckDown(z)) => AtMostOne(AckDown(z))',
         PortionUp(z)' # {} => PortionUp(z) # {},
         AckDown(z)' # {} => AckDown(z) # {},
         PortionTaken(z)' => PortionTaken(z),
         hdl'[z][sess[z]].pc # "off" => /\ hdl[z][sess[z]].pc # "off"
                                        /\ UnderWay(z) => UnderWay(z)'
  PROVE  PortionKnown(z)'
<1>1. OnePlace(z) => OnePlace(z)'  BY DEF OnePlace
<1>2. UnderWay(z)' => UnderWay(z)  BY DEF UnderWay
<1> QED  BY <1>1, <1>2 DEF PortionKnown

(* Nothing under way. *)
LEMMA PortionNone ==
  ASSUME NEW z \in Scale, PortionUp(z) = {}, AckDown(z) = {}, ~PortionTaken(z)
  PROVE  OnePlace(z) /\ ~UnderWay(z)
BY DEF OnePlace, UnderWay, AtMostOne

(* The whole state of another scale, and of another connection. *)
LEMMA PortionSame ==
  ASSUME NEW z \in Scale, PortionKnown(z), sess'[z] = sess[z], inFlight'[z] = inFlight[z],
         up'[z][sess[z]] = up[z][sess[z]], down'[z][sess[z]] = down[z][sess[z]],
         hdl'[z][sess[z]] = hdl[z][sess[z]]
  PROVE  PortionKnown(z)'
<1>1. /\ PortionUp(z)' = PortionUp(z) /\ AckDown(z)' = AckDown(z)
      /\ PortionTaken(z)' <=> PortionTaken(z)
  BY DEF PortionUp, AckDown, PortionTaken
<1> QED  BY <1>1, PortionCalm DEF UnderWay

(* A portion sent, if the center still reads. *)
LEMMA PortionSent ==
  ASSUME TypeOK, NEW s \in Scale, NEW B \in SUBSET Rec, SendUp(s, OfflineSyncMsg(B)),
         PortionUp(s) = {}, AckDown(s)' = {}, ~PortionTaken(s),
         sess'[s] = sess[s], inFlight'[s], UNCHANGED hdl
  PROVE  PortionKnown(s)' \/ sess[s] = 0
<1>1. up \in Channels(UpMsg) /\ sess[s] \in Conn /\ OfflineSyncMsg(B) \in UpMsg
      /\ up[s][sess[s]] \in Seq(UpMsg) /\ OfflineSyncMsg(B).type = "offline_sync"
  BY MessageTypes DEF TypeOK, Channels, OfflineSyncMsg
<1>2. ~PortionTaken(s)'  BY DEF PortionTaken
<1>3. CASE hdl[s][sess[s]].pc = "off"
  <2>1. up' = up  BY <1>3 DEF SendUp
  <2>2. PortionUp(s)' = {}  BY <2>1 DEF PortionUp
  <2>3. OnePlace(s)' /\ ~UnderWay(s)'  BY <1>2, <2>2 DEF OnePlace, UnderWay, AtMostOne
  <2> QED  BY <1>3, <2>3 DEF PortionKnown
<1>4. CASE hdl[s][sess[s]].pc # "off"
  <2>1. up'[s][sess[s]] = Append(up[s][sess[s]], OfflineSyncMsg(B))
    BY <1>1, <1>4 DEF SendUp, Channels
  <2>2. PortionUp(s)' = {Len(up[s][sess[s]]) + 1}
    <3>1. Of("offline_sync", Append(up[s][sess[s]], OfflineSyncMsg(B)))
            = Of("offline_sync", up[s][sess[s]]) \cup {Len(up[s][sess[s]]) + 1}
      BY <1>1, OfAppend
    <3> QED  BY <2>1, <3>1 DEF PortionUp
  <2>3. OnePlace(s)' /\ UnderWay(s)'  BY <1>2, <2>2 DEF OnePlace, UnderWay, AtMostOne
  <2> QED  BY <2>3 DEF PortionKnown
<1> QED  BY <1>3, <1>4

(* A word that is no portion changes nothing of what is under way. *)
LEMMA ResultSent ==
  ASSUME TypeOK, NEW s \in Scale, NEW c \in Calls, NEW b \in BOOLEAN,
         up' = up \/ SendUp(s, WeighResultMsg(c, b)), sess' = sess, NEW z \in Scale
  PROVE  PortionUp(z)' = PortionUp(z)
<1>1. up \in Channels(UpMsg) /\ sess[s] \in Conn /\ WeighResultMsg(c, b) \in UpMsg
      /\ up[s][sess[s]] \in Seq(UpMsg) /\ WeighResultMsg(c, b).type # "offline_sync"
  BY MessageTypes DEF TypeOK, Channels, WeighResultMsg
<1>2. CASE up' = up  BY <1>2 DEF PortionUp
<1>3. CASE up' = [up EXCEPT ![s][sess[s]] = Append(@, WeighResultMsg(c, b))]
  <2>1. CASE z = s
    <3>1. up'[s][sess[s]] = Append(up[s][sess[s]], WeighResultMsg(c, b))
      BY <1>1, <1>3 DEF Channels
    <3>2. Of("offline_sync", Append(up[s][sess[s]], WeighResultMsg(c, b)))
            = Of("offline_sync", up[s][sess[s]])
      BY <1>1, OfAppend
    <3> QED  BY <2>1, <3>1, <3>2 DEF PortionUp
  <2>2. CASE z # s
    <3>1. up'[z][sess[z]] = up[z][sess[z]]  BY <1>1, <1>3, <2>2 DEF TypeOK, Channels
    <3> QED  BY <3>1 DEF PortionUp
  <2> QED  BY <2>1, <2>2
<1> QED  BY <1>2, <1>3 DEF SendUp

LEMMA AgentPortion ==
  ASSUME TypeOK, PortionInv, NEW s \in Scale, Connect(s) \/ AgentDrop(s) \/ AgentStep(s),
         NEW z \in Scale
  PROVE  PortionKnown(z)'
<1>0. /\ up \in Channels(UpMsg) /\ down \in Channels(DownMsg) /\ sess[s] \in Conn
      /\ PortionKnown(z) /\ FreshConnections
  BY DEF TypeOK, Channels, PortionInv
<1>1. CASE z # s
  <2>1. /\ sess'[z] = sess[z] /\ inFlight'[z] = inFlight[z]
        /\ \A k \in Conn : up'[z][k] = up[z][k] /\ down'[z][k] = down[z][k]
                           /\ hdl'[z][k] = hdl[z][k]
    BY <1>0, <1>1 DEF TypeOK, Channels, Connect, Attach, AgentDrop, AgentStep, RecvRequest,
                      RecvAck, SendPending, SendUp, centerVars
  <2> QED  BY <1>0, <2>1, PortionSame DEF TypeOK
<1>2. CASE z = s /\ Connect(s)
  <2> DEFINE k == nconn[s] + 1
  <2>1. k \in Conn /\ k > nconn[s]
    <3>1. nconn[s] \in Conn /\ nconn[s] < MaxConn  BY <1>2 DEF Connect, TypeOK
    <3> QED  BY <3>1, ConnNext, BoundsAssumption DEF Conn
  <2>2. sess'[s] = k /\ hdl' = [hdl EXCEPT ![s][k] = Recv] /\ UNCHANGED <<up, down, inFlight>>
    BY <1>2 DEF Connect, Attach, TypeOK
  <2>3. up[s][k] = <<>> /\ down[s][k] = <<>>  BY <1>0, <2>1 DEF FreshConnections
  <2>4. inFlight[s] = FALSE  BY <1>0, <1>2 DEF PortionKnown, Connect
  <2> HIDE DEF k
  <2>5. hdl'[s][k] = Recv  BY <2>1, <2>2 DEF TypeOK
  <2>6. PortionUp(s)' = {} /\ AckDown(s)' = {}
    BY <2>2, <2>3, OfEmpty DEF PortionUp, AckDown
  <2>7. ~PortionTaken(s)'  BY <2>2, <2>5, HandlerFields DEF PortionTaken
  <2>8. OnePlace(s)' /\ ~UnderWay(s)'  BY <2>6, <2>7 DEF OnePlace, UnderWay, AtMostOne
  <2>9. inFlight'[s] = FALSE  BY <2>2, <2>4
  <2> QED  BY <1>2, <2>8, <2>9 DEF PortionKnown
<1>3. CASE z = s /\ AgentDrop(s)
  BY <1>3 DEF AgentDrop, PortionKnown, TypeOK
<1>h. AgentStep(s) => UNCHANGED <<sess, hdl>>
  BY DEF AgentStep, RecvRequest, RecvAck, SendPending, centerVars
<1>4. CASE z = s /\ RecvRequest(s)
  <2>1. /\ down[s][sess[s]] # <<>> /\ down[s][sess[s]] \in Seq(DownMsg)
        /\ Head(down[s][sess[s]]).type # "offline_sync_ack"
        /\ UNCHANGED <<sess, hdl, inFlight>>
    BY <1>0, <1>4, <1>h DEF RecvRequest, AgentStep, Channels
  <2>2. down'[s][sess[s]] = Tail(down[s][sess[s]])  BY <1>0, <1>4 DEF RecvRequest, Channels
  <2>3. /\ AtMostOne(AckDown(s)) => AtMostOne(AckDown(s))'
        /\ AckDown(s)' # {} <=> AckDown(s) # {}
    <3>1. AckDown(s)' = Of("offline_sync_ack", Tail(down[s][sess[s]]))
      BY <2>1, <2>2 DEF AckDown
    <3> QED  BY <2>1, <3>1, OfTail DEF AckDown
  <2>4. PortionUp(s)' = PortionUp(s)
    <3> DEFINE c == Head(down[s][sess[s]]).call
    <3>1. c \in Calls
      BY <1>0, <1>4, HeadIn, MessageTypes DEF RecvRequest
    <3>2. up' = up \/ SendUp(s, WeighResultMsg(c, FALSE))  BY <1>4 DEF RecvRequest
    <3> QED  BY <2>1, <3>1, <3>2, ResultSent
  <2>5. PortionTaken(s)' <=> PortionTaken(s)  BY <2>1 DEF PortionTaken
  <2>6. UnderWay(s)' <=> UnderWay(s)  BY <2>3, <2>4, <2>5 DEF UnderWay
  <2> QED  BY <1>0, <1>4, <2>1, <2>3, <2>4, <2>5, <2>6, PortionCalm
<1>5. CASE z = s /\ RecvAck(s)
  <2> DEFINE m == Head(down[s][sess[s]])
             rest == Unsynced(s) \ m.recs
  <2>1. /\ down[s][sess[s]] # <<>> /\ down[s][sess[s]] \in Seq(DownMsg)
        /\ m.type = "offline_sync_ack" /\ sess[s] # 0
        /\ UNCHANGED <<sess, hdl>>
    BY <1>0, <1>5, <1>h DEF RecvAck, AgentStep, Channels
  <2>2. down'[s][sess[s]] = Tail(down[s][sess[s]])  BY <1>0, <1>5 DEF RecvAck, Channels
  <2>3. OnePlace(s)  BY <1>0, <1>5, <2>1 DEF PortionKnown
  <2>4. AckDown(s)' = {} /\ AckDown(s) # {}
    <3>1. AckDown(s)' = Of("offline_sync_ack", Tail(down[s][sess[s]]))
      BY <2>1, <2>2 DEF AckDown
    <3>2. AtMostOne(Of("offline_sync_ack", down[s][sess[s]]))  BY <2>3 DEF OnePlace, AckDown
    <3> QED  BY <2>1, <3>1, <3>2, OfTail DEF AckDown
  <2>5. PortionUp(s) = {} /\ ~PortionTaken(s)  BY <2>3, <2>4 DEF OnePlace
  <2>6. CASE UNCHANGED up /\ inFlight' = [inFlight EXCEPT ![s] = FALSE]
    <3>1. PortionUp(s)' = {} /\ ~PortionTaken(s)'
      BY <2>1, <2>5, <2>6 DEF PortionUp, PortionTaken
    <3>2. OnePlace(s)' /\ ~UnderWay(s)'  BY <2>4, <3>1 DEF OnePlace, UnderWay, AtMostOne
    <3>3. inFlight'[s] = FALSE  BY <2>6 DEF TypeOK
    <3> QED  BY <1>5, <3>2, <3>3 DEF PortionKnown
  <2>7. CASE /\ \E B \in Portions(rest) : SendUp(s, OfflineSyncMsg(B))
             /\ inFlight' = [inFlight EXCEPT ![s] = TRUE]
    <3>1. PICK B \in Portions(rest) : SendUp(s, OfflineSyncMsg(B))  BY <2>7
    <3>2. B \in SUBSET Rec
      <4>1. rest \in SUBSET Rec  BY DEF Unsynced, TypeOK
      <4> HIDE DEF rest
      <4> QED  BY <4>1, PortionType
    <3>3. inFlight'[s]  BY <2>7 DEF TypeOK
    <3> QED  BY <1>5, <2>1, <2>4, <2>5, <3>1, <3>2, <3>3, PortionSent
  <2> QED  BY <1>5, <2>6, <2>7 DEF RecvAck
<1>6. CASE z = s /\ SendPending(s)
  <2>1. /\ sess[s] # 0 /\ inFlight[s] = FALSE /\ inFlight' = [inFlight EXCEPT ![s] = TRUE]
        /\ UNCHANGED <<sess, hdl, down>>
    BY <1>6, <1>h DEF SendPending, AgentStep, TypeOK
  <2>2. PICK B \in Portions(Unsynced(s)) : SendUp(s, OfflineSyncMsg(B))
    BY <1>6 DEF SendPending
  <2>3. B \in SUBSET Rec
    <3>1. Unsynced(s) \in SUBSET Rec  BY DEF Unsynced, TypeOK
    <3> QED  BY <3>1, PortionType
  <2>4. PortionUp(s) = {} /\ AckDown(s) = {} /\ ~PortionTaken(s)
    BY <1>0, <1>6, <2>1 DEF PortionKnown, UnderWay
  <2>5. AckDown(s)' = {}  BY <2>1, <2>4 DEF AckDown
  <2>6. inFlight'[s]  BY <2>1 DEF TypeOK
  <2> QED  BY <1>6, <2>1, <2>2, <2>3, <2>4, <2>5, <2>6, PortionSent
<1> QED  BY <1>1, <1>2, <1>3, <1>4, <1>5, <1>6 DEF AgentStep

LEMMA HandlerPortion ==
  ASSUME TypeOK, PortionInv, NEW s \in Scale, NEW k \in Conn,
         HandlerStep(s, k) \/ HandlerEnd(s, k), NEW z \in Scale
  PROVE  PortionKnown(z)'
<1>0. /\ up \in Channels(UpMsg) /\ down \in Channels(DownMsg) /\ sess[z] \in Conn
      /\ PortionKnown(z) /\ UNCHANGED <<sess, inFlight>>
  BY DEF TypeOK, Channels, PortionInv, HandlerStep, HandleResult, ResolveResult, HandleSync,
         SyncOne, SyncAck, HandlerEnd, agentVars
<1>1. CASE ~(z = s /\ k = sess[z])
  <2>1. hdl'[z][sess[z]] = hdl[z][sess[z]]  BY <1>0, <1>1, OwnHandler
  <2>2. up'[z][sess[z]] = up[z][sess[z]]
    <3>1. ASSUME NEW q, up' = [up EXCEPT ![s][k] = q] PROVE up'[z][sess[z]] = up[z][sess[z]]
      BY <1>0, <1>1, <3>1, OtherQueues
    <3>2. \/ up' = up \/ up' = [up EXCEPT ![s][k] = <<>>]
          \/ up' = [up EXCEPT ![s][k] = Tail(up[s][k])]
      BY DEF HandlerStep, HandleResult, ResolveResult, HandleSync, SyncOne, SyncAck,
             HandlerEnd, wireVars
    <3> QED  BY <3>1, <3>2
  <2>3. down'[z][sess[z]] = down[z][sess[z]]
    <3>1. ASSUME NEW q, down' = [down EXCEPT ![s][k] = q]
          PROVE  down'[z][sess[z]] = down[z][sess[z]]
      BY <1>0, <1>1, <3>1, OtherQueues
    <3>2. \/ down' = down
          \/ down' = [down EXCEPT ![s][k] = Append(down[s][k], AckMsg(hdl[s][k].done))]
      BY DEF HandlerStep, HandleResult, ResolveResult, HandleSync, SyncOne, SyncAck,
             HandlerEnd, wireVars
    <3> QED  BY <3>1, <3>2
  <2> QED  BY <1>0, <2>1, <2>2, <2>3, PortionSame
<1>2. CASE z = s /\ k = sess[s] /\ sess[s] = 0
  BY <1>0, <1>2 DEF PortionKnown
<1>c. CASE z = s /\ k = sess[s] /\ sess[s] # 0
  <2>0. /\ up[s][k] \in Seq(UpMsg) /\ down[s][k] \in Seq(DownMsg)
        /\ hdl[s][k] \in HandlerState
        /\ OnePlace(s) /\ (UnderWay(s) => inFlight[s])
    BY <1>0, <1>c DEF Channels, TypeOK, PortionKnown
  <2>a. ASSUME UNCHANGED down
        PROVE  AckDown(s)' = AckDown(s)
    BY <1>0, <2>a DEF AckDown
  <2>1. CASE HandleResult(s, k)
    <3>1. /\ up[s][k] # <<>> /\ Head(up[s][k]).type # "offline_sync" /\ UNCHANGED down
          /\ hdl[s][k].pc = "recv" /\ up'[s][k] = Tail(up[s][k])
      BY <1>0, <2>1 DEF HandleResult, Channels
    <3>2. hdl'[s][k].pc = "resolve"
      <4> DEFINE h == [Recv EXCEPT !.pc = "resolve", !.call = Head(up[s][k]).call,
                                   !.ok = Head(up[s][k]).ok]
      <4>1. hdl'[s][k] = h  BY <2>1 DEF HandleResult, TypeOK
      <4>2. h.pc = "resolve"  BY HandlerFields
      <4> QED  BY <4>1, <4>2
    <3>3. PortionUp(s)' = Of("offline_sync", Tail(up[s][k]))
      BY <1>0, <1>c, <3>1 DEF PortionUp
    <3>4. /\ AtMostOne(PortionUp(s)) => AtMostOne(PortionUp(s))'
          /\ PortionUp(s)' # {} <=> PortionUp(s) # {}
      BY <1>c, <2>0, <3>1, <3>3, OfTail DEF PortionUp
    <3>5. ~PortionTaken(s)' /\ ~PortionTaken(s)
      BY <1>0, <1>c, <3>1, <3>2 DEF PortionTaken
    <3>6. hdl[s][sess[s]].pc # "off" /\ (UnderWay(s) => UnderWay(s)')
      BY <1>c, <2>a, <3>1, <3>4, <3>5 DEF UnderWay
    <3> QED  BY <1>0, <1>c, <2>a, <3>1, <3>4, <3>5, <3>6, PortionCalm
  <2>2. CASE ResolveResult(s, k) \/ SyncOne(s, k)
    <3>1. UNCHANGED <<up, down>> /\ hdl[s][k].pc # "off"
      BY <2>2 DEF ResolveResult, SyncOne, wireVars
    <3>2. hdl'[s][k].pc = "sync" <=> hdl[s][k].pc = "sync"
      <4>1. CASE ResolveResult(s, k)
        <5>1. hdl'[s][k] = Recv  BY <4>1 DEF ResolveResult, TypeOK
        <5> QED  BY <4>1, <5>1, HandlerFields DEF ResolveResult
      <4>2. CASE SyncOne(s, k)
        <5>1. PICK r : hdl' = [hdl EXCEPT ![s][k] = Accepted(@, r)]  BY <4>2 DEF SyncOne
        <5>2. hdl'[s][k] = Accepted(hdl[s][k], r)  BY <5>1 DEF TypeOK
        <5>3. hdl[s][k].pc = "sync"  BY <4>2 DEF SyncOne
        <5> QED  BY <2>0, <5>2, <5>3 DEF Accepted, HandlerState
      <4> QED  BY <2>2, <4>1, <4>2
    <3>3. /\ PortionUp(s)' = PortionUp(s)
          /\ PortionTaken(s)' <=> PortionTaken(s)
      BY <1>0, <1>c, <3>1, <3>2 DEF PortionUp, PortionTaken
    <3>4. UnderWay(s)' <=> UnderWay(s)  BY <2>a, <3>1, <3>3 DEF UnderWay
    <3> QED  BY <1>0, <1>c, <2>a, <3>1, <3>3, <3>4, PortionCalm
  <2>3. CASE HandleSync(s, k)
    <3>1. /\ up[s][k] # <<>> /\ Head(up[s][k]).type = "offline_sync" /\ UNCHANGED down
          /\ up'[s][k] = Tail(up[s][k])
      BY <1>0, <2>3 DEF HandleSync, Channels
    <3>2. hdl'[s][k].pc = "sync"
      <4> DEFINE h == [Recv EXCEPT !.pc = "sync", !.todo = Head(up[s][k]).recs]
      <4>1. hdl'[s][k] = h  BY <2>3 DEF HandleSync, TypeOK
      <4>2. h.pc = "sync"  BY HandlerFields
      <4> QED  BY <4>1, <4>2
    <3>3. PortionUp(s)' = Of("offline_sync", Tail(up[s][k]))
      BY <1>0, <1>c, <3>1 DEF PortionUp
    <3>4. PortionUp(s) # {} /\ PortionUp(s)' = {}
      <4>1. PortionUp(s) = Of("offline_sync", up[s][k])  BY <1>c DEF PortionUp
      <4>2. AtMostOne(Of("offline_sync", up[s][k]))  BY <2>0, <4>1 DEF OnePlace
      <4>3. /\ Of("offline_sync", up[s][k]) # {}
            /\ Of("offline_sync", Tail(up[s][k])) = {}
        BY <2>0, <3>1, <4>2, OfTail
      <4> QED  BY <3>3, <4>1, <4>3
    <3>5. AckDown(s)' = {}  BY <2>0, <2>a, <3>1, <3>4 DEF OnePlace
    <3>6. PortionTaken(s)'  BY <1>0, <1>c, <3>2 DEF PortionTaken
    <3>7. OnePlace(s)' /\ UnderWay(s)'
      BY <3>4, <3>5, <3>6 DEF OnePlace, UnderWay, AtMostOne
    <3>8. inFlight'[s] /\ sess'[s] # 0  BY <1>0, <1>c, <2>0, <3>4 DEF UnderWay
    <3> QED  BY <1>c, <3>7, <3>8 DEF PortionKnown
  <2>4. CASE SyncAck(s, k)
    <3> DEFINE a == AckMsg(hdl[s][k].done)
    <3>1. UNCHANGED up /\ hdl[s][k].pc = "sync" /\ hdl'[s][k] = Recv
          /\ down'[s][k] = Append(down[s][k], a)
      BY <1>0, <1>c, <2>4 DEF SyncAck, Channels, TypeOK
    <3>2. a \in DownMsg /\ a.type = "offline_sync_ack"
      <4>1. hdl[s][k].done \in SUBSET Rec  BY <2>0 DEF HandlerState
      <4> QED  BY <4>1, MessageTypes DEF AckMsg
    <3>3. PortionTaken(s)  BY <1>c, <3>1 DEF PortionTaken
    <3>4. PortionUp(s) = {} /\ AckDown(s) = {} /\ inFlight[s]
      BY <2>0, <3>3 DEF OnePlace, UnderWay
    <3>5. PortionUp(s)' = {}  BY <1>0, <3>1, <3>4 DEF PortionUp
    <3> HIDE DEF a
    <3>6. AckDown(s)' = {Len(down[s][k]) + 1}
      <4>1. Of("offline_sync_ack", Append(down[s][k], a))
              = Of("offline_sync_ack", down[s][k]) \cup {Len(down[s][k]) + 1}
        <5>1. down[s][k] \in Seq(DownMsg)  BY <2>0
        <5> QED  BY <3>2, <5>1, OfAppend
      <4>2. AckDown(s)' = Of("offline_sync_ack", Append(down[s][k], a))
        BY <1>0, <1>c, <3>1 DEF AckDown
      <4>3. AckDown(s) = Of("offline_sync_ack", down[s][k])  BY <1>c DEF AckDown
      <4> QED  BY <3>4, <4>1, <4>2, <4>3
    <3>7. ~PortionTaken(s)'  BY <1>0, <1>c, <3>1, HandlerFields DEF PortionTaken
    <3>8. OnePlace(s)' /\ UnderWay(s)'
      BY <3>5, <3>6, <3>7 DEF OnePlace, UnderWay, AtMostOne
    <3>9. inFlight'[s] /\ sess'[s] # 0  BY <1>0, <1>c, <3>4
    <3> QED  BY <1>c, <3>8, <3>9 DEF PortionKnown
  <2>5. CASE HandlerEnd(s, k)
    <3>1. UNCHANGED down /\ up'[s][k] = <<>> /\ hdl'[s][k].pc = "off"
      BY <1>0, <2>5 DEF HandlerEnd, Channels, TypeOK, Off
    <3>2. PortionUp(s)' = {}  BY <1>0, <1>c, <3>1, OfEmpty DEF PortionUp
    <3>3. ~PortionTaken(s)' /\ hdl'[s][sess[s]].pc = "off"
      BY <1>0, <1>c, <3>1 DEF PortionTaken
    <3> QED  BY <1>0, <1>c, <2>a, <3>1, <3>2, <3>3, PortionCalm DEF AtMostOne
  <2> QED  BY <2>1, <2>2, <2>3, <2>4, <2>5 DEF HandlerStep
<1> QED  BY <1>1, <1>2, <1>c

LEMMA PortionStep ==
  ASSUME TypeOK, PortionInv, [Next]_vars
  PROVE  PortionInv'
<1>0. /\ up \in Channels(UpMsg) /\ down \in Channels(DownMsg) /\ sess \in [Scale -> Conn]
      /\ FreshConnections'
  BY FreshStep DEF TypeOK, Channels, PortionInv
<1> SUFFICES ASSUME NEW z \in Scale PROVE PortionKnown(z)'  BY <1>0 DEF PortionInv
<1>k. PortionKnown(z)  BY DEF PortionInv
<1>1. CASE UNCHANGED <<sess, inFlight, up, down, hdl>>  BY <1>k, <1>1, PortionSame
<1>2. ASSUME NEW c \in Calls, TaskStep(c) PROVE PortionKnown(z)'
  <2>1. ScaleOf[c] \in Scale /\ UNCHANGED <<sess, inFlight, down, hdl>>
    BY <1>2, ScaleOfAssumption DEF TaskStep, Record, SendResult, Rec
  <2>2. \E b \in BOOLEAN : up' = up \/ SendUp(ScaleOf[c], WeighResultMsg(c, b))
    BY <1>2 DEF TaskStep, Record, SendResult
  <2>3. PortionUp(z)' = PortionUp(z)  BY <2>1, <2>2, ResultSent
  <2>4. AckDown(z)' = AckDown(z) /\ (PortionTaken(z)' <=> PortionTaken(z))
    BY <2>1 DEF AckDown, PortionTaken
  <2>5. UnderWay(z)' <=> UnderWay(z)  BY <2>3, <2>4 DEF UnderWay
  <2> QED  BY <1>k, <2>1, <2>3, <2>4, <2>5, PortionCalm
<1>3. ASSUME NEW c \in Calls, SendCommand(c) PROVE PortionKnown(z)'
  <2> DEFINE s == ScaleOf[c]
             w == WeighRequestMsg(c)
  <2>1. /\ s \in Scale /\ link[s] \in Conn /\ UNCHANGED <<sess, inFlight, up, hdl>>
        /\ w \in DownMsg /\ w.type # "offline_sync_ack"
    BY <1>3, ScaleOfAssumption, MessageTypes
    DEF SendCommand, Rec, agentVars, TypeOK, WeighRequestMsg
  <2>2. CASE down' = down  BY <1>1, <2>1, <2>2
  <2>3. CASE down' = [down EXCEPT ![s][link[s]] = Append(down[s][link[s]], w)]
    <3> HIDE DEF s, w
    <3>1. CASE ~(z = s /\ sess[z] = link[s])
      <4>1. down'[z][sess[z]] = down[z][sess[z]]  BY <1>0, <2>1, <2>3, <3>1, OtherQueues
      <4> QED  BY <1>k, <2>1, <4>1, PortionSame
    <3>2. CASE z = s /\ sess[z] = link[s]
      <4>1. down'[s][link[s]] = Append(down[s][link[s]], w) /\ down[s][link[s]] \in Seq(DownMsg)
        BY <1>0, <2>1, <2>3 DEF Channels
      <4>2. Of("offline_sync_ack", Append(down[s][link[s]], w))
              = Of("offline_sync_ack", down[s][link[s]])
        BY <2>1, <4>1, OfAppend
      <4>3. AckDown(z)' = AckDown(z)  BY <2>1, <3>2, <4>1, <4>2 DEF AckDown
      <4>4. PortionUp(z)' = PortionUp(z) /\ (PortionTaken(z)' <=> PortionTaken(z))
        BY <2>1 DEF PortionUp, PortionTaken
      <4>5. UnderWay(z)' <=> UnderWay(z)  BY <4>3, <4>4 DEF UnderWay
      <4> QED  BY <1>k, <2>1, <4>3, <4>4, <4>5, PortionCalm
    <3> QED  BY <3>1, <3>2
  <2> QED  BY <1>3, <2>2, <2>3 DEF SendCommand
<1>4. CASE CenterCrash
  <2>1. /\ UNCHANGED <<sess, inFlight, down>>
        /\ up'[z][sess[z]] = <<>> /\ hdl'[z][sess[z]].pc = "off"
    BY <1>0, <1>4 DEF CenterCrash, agentVars, Off
  <2>2. PortionUp(z)' = {}  BY <2>1, OfEmpty DEF PortionUp
  <2>3. AckDown(z)' = AckDown(z) /\ ~PortionTaken(z)'
    BY <2>1 DEF AckDown, PortionTaken
  <2> QED  BY <1>k, <2>1, <2>2, <2>3, PortionCalm DEF AtMostOne
<1>5. ASSUME NEW c \in Calls, Arrive(c) \/ CallStep(c) \/ CallFails(c), ~SendCommand(c)
      PROVE  UNCHANGED <<sess, inFlight, up, down, hdl>>
  BY <1>5 DEF Arrive, CallStep, CheckExisting, Wake, CommandTimeout, CallFails,
              agentVars, wireVars
<1>6. ASSUME NEW m \in Manuals, ManualRecord(m)
      PROVE  UNCHANGED <<sess, inFlight, up, down, hdl>>
  BY <1>6 DEF ManualRecord, wireVars, centerVars
<1>7. ASSUME NEW r \in Rec, NEW f \in Ref, LinkCallback(r, f)
      PROVE  UNCHANGED <<sess, inFlight, up, down, hdl>>
  BY <1>7 DEF LinkCallback, agentVars, wireVars
<1>8. CASE UNCHANGED vars  BY <1>1, <1>8 DEF vars
<1>9. ASSUME NEW c \in Calls, Arrive(c) \/ CallStep(c) \/ CallFails(c) PROVE PortionKnown(z)'
  <2>1. CASE SendCommand(c)  BY <1>3, <2>1
  <2>2. CASE ~SendCommand(c)  BY <1>1, <1>5, <1>9, <2>2
  <2> QED  BY <2>1, <2>2
<1> QED
  BY <1>1, <1>2, <1>4, <1>6, <1>7, <1>8, <1>9, AgentPortion, HandlerPortion DEF Next

LEMMA PortionInit == Init => PortionInv
<1> SUFFICES ASSUME Init PROVE PortionInv  OBVIOUS
<1>1. 0 <= 0  OBVIOUS
<1> QED  BY <1>1 DEF Init, PortionInv, FreshConnections, PortionKnown

(* What the places of a portion come to, counted. *)
LEMMA PortionsCounted ==
  ASSUME TypeOK, NEW s \in Scale, PortionKnown(s), sess[s] # 0
  PROVE  /\ Cardinality(PortionsUnderWay(s)) <= 1
         /\ Cardinality(PortionsUnderWay(s)) = 1 <=> UnderWay(s)
<1> DEFINE P == PortionsUnderWay(s)
<1>1. P = {<<"up", i>> : i \in PortionUp(s)} \cup {<<"down", i>> : i \in AckDown(s)}
            \cup {<<"center", 0>> : i \in {j \in {0} : PortionTaken(s)}}
  BY DEF PortionsUnderWay, PortionUp, AckDown, PortionTaken, Of
<1>2. OnePlace(s)  BY DEF PortionKnown
<1> HIDE DEF P
<1>3. \A x, y \in P : x = y
  <2>1. CASE PortionUp(s) # {}
    <3>1. P = {<<"up", i>> : i \in PortionUp(s)}  BY <1>1, <1>2, <2>1 DEF OnePlace
    <3> QED  BY <1>2, <3>1 DEF OnePlace, AtMostOne
  <2>2. CASE AckDown(s) # {}
    <3>1. P = {<<"down", i>> : i \in AckDown(s)}  BY <1>1, <1>2, <2>2 DEF OnePlace
    <3> QED  BY <1>2, <3>1 DEF OnePlace, AtMostOne
  <2>3. CASE PortionUp(s) = {} /\ AckDown(s) = {}  BY <1>1, <2>3
  <2> QED  BY <2>1, <2>2, <2>3
<1>4. P # {} <=> UnderWay(s)  BY <1>1 DEF UnderWay
<1>5. CASE P = {}
  <2>1. Cardinality(P) = 0  BY <1>5, FS_EmptySet
  <2> QED  BY <1>4, <1>5, <2>1 DEF P
<1>6. CASE P # {}
  <2>1. PICK x \in P : TRUE  BY <1>6
  <2>2. P = {x}  BY <1>3, <2>1
  <2>3. Cardinality(P) = 1  BY <2>2, FS_Singleton
  <2> QED  BY <1>4, <1>6, <2>3 DEF P
<1> QED  BY <1>5, <1>6

(* The portion a PC has sent on its session is in one place, and once.     *)
THEOREM PortionInvariant == Spec => []PortionInv
<1>1. TypeOK /\ PortionInv /\ [Next]_vars => PortionInv'  BY PortionStep
<1> QED  BY <1>1, PortionInit, TypeCorrect, PTL DEF Spec

(* Until the ack a new portion is not sent, and the flag that says so      *)
(* never sticks while the center reads the connection.                     *)
THEOREM OnePortionHolds == Spec => []OnePortion
<1>1. TypeOK /\ PortionInv => OnePortion
  <2> SUFFICES ASSUME TypeOK, PortionInv, NEW s \in Scale, sess[s] # 0
               PROVE  LET n == Cardinality(PortionsUnderWay(s)) IN
                        /\ n <= 1
                        /\ n = 1 => inFlight[s]
                        /\ inFlight[s] /\ hdl[s][sess[s]].pc # "off" => n = 1
    BY DEF OnePortion
  <2>1. PortionKnown(s)  BY DEF PortionInv
  <2> QED  BY <2>1, PortionsCounted DEF PortionKnown
<1> QED  BY <1>1, TypeCorrect, PortionInvariant, PTL

(* The three together. *)
THEOREM PathInvariant == Spec => []PathInv
BY RefusalLeavesNothingHolds, SecondOperationHolds, OnePortionHolds, PTL DEF PathInv

=============================================================================
