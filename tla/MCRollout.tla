------------------------------ MODULE MCRollout ------------------------------
(***************************************************************************)
(* The roll-out of releases from two sides that share no state in the      *)
(* models: one update of one PC through all its steps (UpdateChain), and   *)
(* the catalogue and the queue over several PCs (RolloutFleet). A          *)
(* behaviour is one of theirs; the other stays where it begins.            *)
(***************************************************************************)
EXTENDS UpdateChain, RolloutFleet

CONSTANT Parts  \* the parts a run looks at

VARIABLE part

RolloutInit == part \in Parts /\ Init /\ FleetInit

Chain == part = "chain" /\ Next /\ UNCHANGED <<part, fleetVars>>
Fleet == part = "fleet" /\ FleetNext /\ UNCHANGED <<part, vars>>

RolloutSpec == RolloutInit /\ [][Chain \/ Fleet]_<<part, vars, fleetVars>>
==============================================================================
