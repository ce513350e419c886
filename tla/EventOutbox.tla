------------------------------ MODULE EventOutbox ------------------------------
(***************************************************************************)
(* The outbox of the center for the AIS: the event of an offline operation *)
(* is a row of the transaction that saves the operation; the publisher     *)
(* takes the rows by portions, builds, publishes with the confirmation of  *)
(* the broker, and marks.  The scales may lose and regain their AIS object *)
(* meanwhile, an administrator may ask for an event once more.             *)
(***************************************************************************)
EXTENDS Naturals, FiniteSets, Sequences, FiniteSetsExt

CONSTANTS
  Op,               \* offline operations
  Poison,           \* operations whose event cannot be built
  EventBatch,       \* batch_size
  MaxRows,          \* bound: rows of the outbox
  MaxEventTroubles  \* bound: refusals of the broker, lost confirms, restarts

ASSUME PoisonAssumption == Poison \subseteq Op /\ IsFiniteSet(Op)
ASSUME OutboxBounds == EventBatch \in Nat \ {0} /\ {MaxRows, MaxEventTroubles} \subseteq Nat

VARIABLES
  outbox,     \* weighing_events in the order of their ids
  saved,      \* operations of the journal of record
  bound,      \* whether the scales have an AIS object
  portion,    \* publish_pending: the rows left, where the oldest of them is
  aisHas,     \* rows whose message is in the queue of the AIS
  outboxLuck  \* bounds

outboxVars == <<outbox, saved, bound, portion, aisHas, outboxLuck>>

NoPortion == [left |-> {}, at |-> "build"]
RowNo == 1 .. Len(outbox)

OutboxInit ==
  /\ outbox = <<>>
  /\ saved = {}
  /\ bound = TRUE
  /\ portion = NoPortion
  /\ aisHas = {}
  /\ outboxLuck = [troubles |-> 0, turns |-> 0]

OutboxRow(op) == [op |-> op, state |-> "waiting"]

(* save_weighing_record: the row of the outbox with the operation, for     *)
(* scales bound to the AIS.                                                *)
SaveOffline(op) ==
  /\ op \notin saved /\ Len(outbox) < MaxRows
  /\ saved' = saved \cup {op}
  /\ outbox' = IF bound THEN Append(outbox, OutboxRow(op)) ELSE outbox
  /\ UNCHANGED <<bound, portion, aisHas, outboxLuck>>

(* The button of the journal: one row more, whatever rows there are.       *)
ResendEvent(op) ==
  /\ op \in saved /\ bound /\ Len(outbox) < MaxRows
  /\ outbox' = Append(outbox, OutboxRow(op))
  /\ UNCHANGED <<saved, bound, portion, aisHas, outboxLuck>>

BindingTurns ==
  /\ outboxLuck.turns < 2
  /\ outboxLuck' = [outboxLuck EXCEPT !.turns = @ + 1]
  /\ bound' = ~bound
  /\ UNCHANGED <<outbox, saved, portion, aisHas>>

(***************************************************************************)
(* The publisher                                                           *)
(***************************************************************************)
WaitingRow(i) == outbox[i].state = "waiting"

(* pending_weighing_events: the oldest rows, whatever became of them.      *)
WaitingRows == {i \in RowNo : WaitingRow(i)}
OldestWaiting ==
  {i \in WaitingRows : Cardinality({j \in WaitingRows : j < i}) < EventBatch}

LoadPortion ==
  /\ portion = NoPortion
  /\ OldestWaiting # {}
  /\ portion' = [NoPortion EXCEPT !.left = OldestWaiting]
  /\ UNCHANGED <<outbox, saved, bound, aisHas, outboxLuck>>

Current == Min(portion.left)
NextRow == [left |-> portion.left \ {Current}, at |-> "build"]
Marked(state) == [outbox EXCEPT ![Current].state = state]

(* Mutant: a row that cannot be built ends the portion. *)
BrokenEnds == NoPortion

AfterBroken == NextRow

(* build_event fails on the document of some operations, whenever tried.   *)
CannotBuild(row) == row.op \in Poison

(* _build: what cannot be built is passed over, what scales without an AIS *)
(* object left behind is closed.                                           *)
BuildEvent ==
  /\ portion.left # {} /\ portion.at = "build"
  /\ IF CannotBuild(outbox[Current])
     THEN portion' = AfterBroken /\ UNCHANGED outbox
     ELSE IF ~bound THEN portion' = NextRow /\ outbox' = Marked("closed")
     ELSE portion' = [portion EXCEPT !.at = "publish"] /\ UNCHANGED outbox
  /\ UNCHANGED <<saved, bound, aisHas, outboxLuck>>

OutboxTrouble ==
  /\ outboxLuck.troubles < MaxEventTroubles
  /\ outboxLuck' = [outboxLuck EXCEPT !.troubles = @ + 1]

(* Mutant: the row is marked, whatever the broker said. *)
MarkAnyway == [portion EXCEPT !.at = "mark"]

(* An error ends the portion: the rows that follow wait for this one.      *)
AfterError == NoPortion

(* RabbitBroker.publish: a message in a durable queue of the AIS, once more *)
(* if it was there.                                                        *)
WithCurrent == aisHas \cup {Current}

(* The broker takes the message and confirms; or the message is taken and  *)
(* its confirmation lost; or nothing is taken.                             *)
PublishEvent ==
  /\ portion.left # {} /\ portion.at = "publish"
  /\ \/ /\ aisHas' = WithCurrent
        /\ portion' = [portion EXCEPT !.at = "mark"]
        /\ UNCHANGED outboxLuck
     \/ /\ OutboxTrouble
        /\ aisHas' \in {aisHas, WithCurrent}
        /\ portion' = AfterError
  /\ UNCHANGED <<outbox, saved, bound>>

MarkPublished ==
  /\ portion.left # {} /\ portion.at = "mark"
  /\ outbox' = Marked("published")
  /\ portion' = NextRow
  /\ UNCHANGED <<saved, bound, aisHas, outboxLuck>>

PublisherRestarts ==
  /\ OutboxTrouble
  /\ portion' = NoPortion
  /\ UNCHANGED <<outbox, saved, bound, aisHas>>

PublisherTurn == LoadPortion \/ BuildEvent \/ PublishEvent \/ MarkPublished

OutboxNext ==
  \/ \E op \in Op : SaveOffline(op) \/ ResendEvent(op)
  \/ BindingTurns \/ PublisherTurn \/ PublisherRestarts

(* The loop of the publisher goes on; its pauses are a minute at most. *)
OutboxSpec == OutboxInit /\ [][OutboxNext]_outboxVars /\ WF_outboxVars(PublisherTurn)

-----------------------------------------------------------------------------
(* The rows of weighing_events and what the publisher holds of them. *)
OutboxTypeOK ==
  /\ outbox \in Seq([op : Op, state : {"waiting", "published", "closed"}])
  /\ saved \subseteq Op /\ aisHas \subseteq RowNo
  /\ portion \in [left : SUBSET RowNo, at : {"build", "publish", "mark"}]
  /\ \A i \in RowNo : outbox[i].op \in saved

(* A row is taken off the queue only when the AIS has its message, or when *)
(* it was closed with a note: no crash, lost confirmation or error between *)
(* the publication and the mark loses an event.                            *)
NothingLostToAis == \A i \in RowNo : outbox[i].state = "published" => i \in aisHas

(* The AIS gets the events in the order of the operations: none before an  *)
(* older one that can be built.                                            *)
EventsInOrder ==
  \A i, j \in RowNo :
    i < j /\ j \in aisHas => i \in aisHas \/ outbox[i].state = "closed" \/ outbox[i].op \in Poison

PoisonWaiting == {i \in RowNo : WaitingRow(i) /\ outbox[i].op \in Poison}

(* Rows that can be built and are neither with the AIS nor closed. *)
ToLeave == {i \in RowNo : WaitingRow(i) /\ i \notin aisHas /\ outbox[i].op \notin Poison}

(* Every event that can be built reaches the AIS or is closed, while those *)
(* that cannot be built do not fill a whole portion.                       *)
EveryEventLeaves ==
  ToLeave # {} ~> (ToLeave = {} \/ Cardinality(PoisonWaiting) >= EventBatch)

(* The outbox of events: none is lost and the AIS has them in the order of *)
(* the operations.                                                         *)
OutboxInv == OutboxTypeOK /\ NothingLostToAis /\ EventsInOrder
===============================================================================
