---------------------------- MODULE RolloutJournal ----------------------------
(***************************************************************************)
(* The journal agent_updates of the center: one row for a pair of agent    *)
(* and version, moved by commands, by reports of the agent and by its      *)
(* hello.  A row keeps no clock here but the class of the time since       *)
(* updated_at: settling (under settle_after), waiting (under stale_after   *)
(* and retry_after, the same half hour), late.                             *)
(***************************************************************************)
EXTENDS Naturals

CONSTANT MaxAttempts  \* RolloutService.max_attempts

ASSUME MaxAttemptsAssumption == MaxAttempts \in Nat \ {0}

Settling == 0
Waiting  == 1
Late     == 2
Age      == {Settling, Waiting, Late}

InFlight == {"commanded", "started"}
Status   == InFlight \cup {"none", "installed", "failed", "rolled_back"}
Row      == [status : Status, attempts : Nat, checked : BOOLEAN, age : Age]

(* The pair was never commanded and never reported on. *)
NoRow == [status |-> "none", attempts |-> 0, checked |-> FALSE, age |-> Settling]

(* One more class of time passes, where a class is still told apart. *)
Older(row) ==
  CASE row.status \in InFlight \cup {"failed"} /\ row.age # Late -> [row EXCEPT !.age = @ + 1]
    [] row.status = "installed" -> [row EXCEPT !.age = Waiting]
    [] OTHER -> row

(* mark_commanded: a new row, or a repeat that forgets error and note. *)
Commanded(row) ==
  [status |-> "commanded", attempts |-> row.attempts + 1, checked |-> FALSE, age |-> Settling]

(* mark_send_failed: the attempt is given back. *)
SendFailed(row) ==
  IF row.status = "none" THEN row
  ELSE [row EXCEPT !.status = "failed", !.age = Settling,
                   !.attempts = IF @ > 0 THEN @ - 1 ELSE 0]

(* What an agent answers or reports. *)
Outcome == {"started", "running", "already", "failed", "installed", "rolled_back"}

(* _row_for_report: a report without a command in the journal gets a row. *)
ForReport(row) ==
  IF row.status = "none"
  THEN [NoRow EXCEPT !.status = "commanded", !.attempts = 1]
  ELSE row

(* apply_update_status.  "started" is the answer that the update runs,     *)
(* "running" the refusal because another one does, "already" the refusal   *)
(* because the version is there, "failed" every other bad end.             *)
Reported(row, outcome) ==
  LET r == ForReport(row)
      fresh == [r EXCEPT !.age = Settling]
  IN CASE outcome = "running"     -> r
       [] outcome = "installed"   -> [fresh EXCEPT !.status = "installed", !.checked = TRUE]
       [] outcome = "rolled_back" -> [fresh EXCEPT !.status = "rolled_back"]
       [] outcome = "started"     ->
            [fresh EXCEPT !.status = IF @ \in {"installed", "rolled_back"} THEN @ ELSE "started"]
       [] outcome = "already"     -> [fresh EXCEPT !.status = "installed"]
       [] outcome = "failed"      -> [fresh EXCEPT !.status = "failed"]

(* note_agent_hello, for the row of version v and an agent that runs w. *)
Hello(row, v, w) ==
  IF v = w /\ row.status \in InFlight \cup {"failed"}
  THEN [row EXCEPT !.status = "installed", !.age = Settling]
  ELSE IF w < v /\ row.status = "installed"
  THEN [row EXCEPT !.status = "rolled_back", !.age = Settling]
  ELSE row

(* RolloutService._should_send *)
ShouldSend(row) ==
  \/ row.status = "none"
  \/ row.status \in InFlight \cup {"failed"} /\ row.age = Late /\ row.attempts < MaxAttempts

(* The row takes room under max_in_flight. *)
TakesRoom(row) == row.status \in InFlight /\ row.age # Late

(* A version just installed is given time before the next. *)
Settled(row) == ~(row.status = "installed" /\ row.age = Settling)
===============================================================================
