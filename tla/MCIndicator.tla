----------------------------- MODULE MCIndicator -----------------------------
(***************************************************************************)
(* The two halves of the way from the indicator to a weight: the bytes of  *)
(* the line up to driver.state, and driver.state up to the weight of an    *)
(* operation.  A behaviour is one half's; in the second half the packets   *)
(* of a vehicle on the platform are the inputs.                            *)
(***************************************************************************)
EXTENDS ScaleWatcher, IndicatorStream

CONSTANTS Parts, g1, g2, short, long

VARIABLE part

(* Longer than the silence the driver forgives, and not longer. *)
MCStableFor == [c \in Config |-> IF c = short THEN 2 ELSE 3]

(* More than three discretes apart, one below zero and off the discrete. *)
SomeRaw == {-3, 9}

(* The half that stands still has one initial state. *)
IndicatorInit ==
  /\ part \in Parts /\ Init /\ StreamInit
  /\ part = "watch" => proto = "vesar"
  /\ part = "stream" => ~there /\ cfg = short
Watch  == part = "watch" /\ Next /\ UNCHANGED <<part, streamVars>>
Stream == part = "stream" /\ StreamNext /\ UNCHANGED <<part, vars>>

IndicatorSpec ==
  /\ IndicatorInit /\ [][Watch \/ Stream]_<<part, vars, streamVars>>
  /\ WF_vars(part = "watch" /\ Tick) /\ WF_vars(part = "watch" /\ Pass)
  /\ WF_vars(part = "watch" /\ Wake) /\ WF_vars(part = "watch" /\ Shots)
===============================================================================
