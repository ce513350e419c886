--------------------------- MODULE MCScaleSettings ---------------------------
EXTENDS ScaleSettings

CONSTANTS com3, com4

(* A restart; or a break of the session and a read that hangs. *)
SomeTroubles ==
  { [drops |-> 0, restarts |-> 1, stuck |-> 0], [drops |-> 1, restarts |-> 0, stuck |-> 1] }
=============================================================================
