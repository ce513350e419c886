----------------------------- MODULE OperatorSync -----------------------------
(***************************************************************************)
(* One operator's account between the center and a weighing PC: the whole   *)
(* list goes to the agent with every hello and after every change, read in  *)
(* one step and sent in another; the replica of the PC, where an account    *)
(* may also be made by hand; the sign-in of the operator and his session.   *)
(* A password is the number of the change that set it.                      *)
(***************************************************************************)
EXTENDS Naturals, Sequences

CONSTANTS
  Desk,            \* browsers of operators on the PC
  MaxEdits,        \* bound: changes of the account at the center
  MaxLocalEdits,   \* bound: add-operator on the PC
  MaxOpLinks       \* bound: connections

ASSUME OperatorBounds == {MaxEdits, MaxLocalEdits, MaxOpLinks} \subseteq Nat

VARIABLES
  centerOp,   \* users: the operator's account, and the number of its last change
  push,       \* per change, and 0 for the hello: the handler that sends the list
  opWire,     \* lists on the way to the agent
  opLink,     \* whether the agent is connected
  localOp,    \* local_users of the PC
  desk,       \* per browser: the sign-in under way, the session
  opPast      \* history and bounds

operatorVars == <<centerOp, push, opWire, opLink, localOp, desk, opPast>>

OpState == {"absent", "active", "blocked"}
OpHandler == 0 .. MaxEdits
NoAccount == [state |-> "absent", pw |-> 0, change |-> 0]
NoLocalRow     == [state |-> "absent", pw |-> 0, change |-> 0, from |-> "none"]
DeskAway      == [at |-> "away", typed |-> 0, stamp |-> 0]
OpPassword  == 0 .. MaxEdits + MaxLocalEdits

OperatorInit ==
  /\ centerOp = NoAccount
  /\ push = [h \in OpHandler |-> [at |-> "none", list |-> NoAccount]]
  /\ opWire = <<>>
  /\ opLink = FALSE
  /\ localOp = NoLocalRow
  /\ desk = [d \in Desk |-> DeskAway]
  /\ opPast = [local |-> 0, links |-> 0, inverted |-> FALSE, mixed |-> FALSE]

(***************************************************************************)
(* The center                                                              *)
(***************************************************************************)

(* The change and then _push_operators, in the same handler.               *)
OperatorChanges(state, pw) ==
  /\ centerOp.change < MaxEdits
  /\ centerOp' = [state |-> state, pw |-> pw, change |-> centerOp.change + 1]
  /\ push' = [push EXCEPT ![centerOp.change + 1].at = IF opLink THEN "load" ELSE "none"]
  /\ UNCHANGED <<opWire, opLink, localOp, desk, opPast>>

NewPassword == centerOp.change + 1

CreateOperator == centerOp = NoAccount /\ OperatorChanges("active", NewPassword)

(* update_user, set_password, toggle_active: moved to another site or made *)
(* something else, the operator leaves the list of this scale.             *)
EditOperator ==
  /\ centerOp # NoAccount
  /\ \/ OperatorChanges(centerOp.state, NewPassword)
     \/ \E state \in OpState \ {centerOp.state} : OperatorChanges(state, centerOp.pw)

(* An account made by hand on the PC is shut out by a blocked double; a    *)
(* login the center has already is left as it is.                          *)
BlockAgentOperator == centerOp = NoAccount /\ OperatorChanges("blocked", NewPassword)

(* load_operators_for_scale, in a thread *)
LoadOperators(h) ==
  /\ push[h].at = "load"
  /\ push' = [push EXCEPT ![h] = [at |-> "send", list |-> centerOp]]
  /\ UNCHANGED <<centerOp, opWire, opLink, localOp, desk, opPast>>

(* send_operators; the lists of two handlers may go in either order.       *)
SendOperators(h) ==
  /\ push[h].at = "send"
  /\ push' = [push EXCEPT ![h] = [at |-> "none", list |-> NoAccount]]
  /\ opWire' = IF opLink THEN Append(opWire, push[h].list) ELSE opWire
  /\ opPast' = [opPast EXCEPT !.inverted = @ \/
       (opWire' # opWire /\ \E g \in OpHandler : push[g].at = "send" /\ push[g].list.change < push[h].list.change)]
  /\ UNCHANGED <<centerOp, opLink, localOp, desk>>

(* The hello of a new connection; what was on the way is lost with the old *)
(* one, handlers go on.                                                    *)
OperatorConnects ==
  /\ ~opLink /\ push[0].at = "none"
  /\ opLink' = TRUE
  /\ push' = [push EXCEPT ![0].at = "load"]
  /\ UNCHANGED <<centerOp, opWire, localOp, desk, opPast>>

OperatorLinkBreaks ==
  /\ opLink /\ opPast.links < MaxOpLinks
  /\ opLink' = FALSE
  /\ opWire' = <<>>
  /\ push' = [push EXCEPT ![0] = [at |-> "none", list |-> NoAccount]]
  /\ opPast' = [opPast EXCEPT !.links = @ + 1]
  /\ UNCHANGED <<centerOp, localOp, desk>>

(***************************************************************************)
(* The PC                                                                  *)
(***************************************************************************)

(* replace_center_operators: the center's rows go, its list comes; a row   *)
(* made by hand stays unless the list names its login.                     *)
ReplacedRow(row, list) ==
  IF list.state # "absent"
  THEN [state |-> list.state, pw |-> list.pw, change |-> list.change, from |-> "center"]
  ELSE IF row.from = "center" THEN [NoLocalRow EXCEPT !.change = list.change]
  ELSE [row EXCEPT !.change = list.change]

ReceiveOperators ==
  /\ opWire # <<>>
  /\ localOp' = ReplacedRow(localOp, Head(opWire))
  /\ opWire' = Tail(opWire)
  /\ UNCHANGED <<centerOp, push, opLink, desk, opPast>>

(* upsert_operator, from the command line of the PC *)
AddOperatorByHand ==
  /\ opPast.local < MaxLocalEdits
  /\ localOp' = [localOp EXCEPT !.state = "active", !.from = "local",
                                !.pw = MaxEdits + opPast.local + 1]
  /\ opPast' = [opPast EXCEPT !.local = @ + 1]
  /\ UNCHANGED <<centerOp, push, opWire, opLink, desk>>

(* login_submit: the password is verified, then the stamp of the account   *)
(* is read.                                                                *)
StampNow == IF localOp.state = "active" THEN localOp.pw ELSE 0

VerifyOperator(d) ==
  /\ desk[d] = DeskAway
  /\ localOp.state = "active"
  /\ desk' = [desk EXCEPT ![d] = [DeskAway EXCEPT !.at = "verified", !.typed = localOp.pw]]
  /\ UNCHANGED <<centerOp, push, opWire, opLink, localOp, opPast>>

ReadStamp(d) ==
  /\ desk[d].at = "verified"
  /\ desk' = [desk EXCEPT ![d].at = "session", ![d].stamp = StampNow]
  /\ opPast' = [opPast EXCEPT !.mixed = @ \/ StampNow \notin {0, desk[d].typed}]
  /\ UNCHANGED <<centerOp, push, opWire, opLink, localOp>>

(* Mutant: any stamp of an active account will do. *)
SessionGoesOn(d) == desk[d].at = "session" /\ desk[d].stamp # 0 /\ StampNow # 0

(* current_operator, at every request *)
SessionLives(d) ==
  desk[d].at = "session" /\ desk[d].stamp # 0 /\ desk[d].stamp = StampNow

OperatorRequest(d) ==
  /\ desk[d].at = "session"
  /\ ~SessionLives(d)
  /\ desk' = [desk EXCEPT ![d] = DeskAway]
  /\ UNCHANGED <<centerOp, push, opWire, opLink, localOp, opPast>>

OperatorNext ==
  \/ CreateOperator \/ EditOperator \/ BlockAgentOperator \/ OperatorConnects \/ OperatorLinkBreaks
  \/ \E h \in OpHandler : LoadOperators(h) \/ SendOperators(h)
  \/ ReceiveOperators \/ AddOperatorByHand
  \/ \E d \in Desk : VerifyOperator(d) \/ ReadStamp(d) \/ OperatorRequest(d)

OperatorSpec == OperatorInit /\ [][OperatorNext]_operatorVars

-----------------------------------------------------------------------------
(* The accounts, the lists and the sign-ins. *)
OperatorTypeOK ==
  /\ centerOp \in [state : OpState, pw : OpPassword, change : OpHandler]
  /\ localOp \in [state : OpState, pw : OpPassword, change : OpHandler, from : {"none", "center", "local"}]
  /\ localOp.from = "none" => localOp.state = "absent"
  /\ \A d \in Desk : desk[d].typed \in OpPassword

OpQuiet == opLink /\ opWire = <<>> /\ \A h \in OpHandler : push[h].at = "none"

(* Once every list is sent and read, the PC has the account as it is at    *)
(* the center: blocked there is blocked here, taken away there is not here *)
(* but for one made by hand.  The exceptions: two handlers sent their      *)
(* lists in the wrong order, or somebody wrote over the account by hand.   *)
ReplicaSettles ==
  OpQuiet /\ ~opPast.inverted =>
    \/ localOp.from = "local"
    \/ localOp.state = centerOp.state /\ (centerOp.state # "absent" => localOp.pw = centerOp.pw)

(* Whoever works on the PC typed the password of now: a change or a block  *)
(* that has come shuts the sessions of before.  The exception is a list    *)
(* that came between the check of the password and the stamp.              *)
TypedPasswordOfNow ==
  \A d \in Desk : SessionLives(d) => desk[d].typed = localOp.pw \/ opPast.mixed

(* The accounts of the operators at the center and on the PC: the lists    *)
(* settle, and whoever works typed the password of now.                    *)
OperatorInv == OperatorTypeOK /\ ReplicaSettles /\ TypedPasswordOfNow
===============================================================================
