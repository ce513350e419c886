--------------------------- MODULE MCWeighDelivery ---------------------------
EXTENDS WeighDelivery, TLC
CONSTANTS c1, c2, c3, m1, f1, f2, s1

(* Commands under one AIS number and a manual record, all on one scale. *)
OneNumberRefOf  == (c1 :> f1) @@ (c2 :> f1)
OneScaleScaleOf == (c1 :> s1) @@ (c2 :> s1) @@ (m1 :> s1)

(* A command repeated twice. *)
TriedThriceRefOf   == (c1 :> f1) @@ (c2 :> f1) @@ (c3 :> f1)
TriedThriceScaleOf == (c1 :> s1) @@ (c2 :> s1) @@ (c3 :> s1)

(* A command and its repeat, nothing else. *)
RepeatScaleOf == (c1 :> s1) @@ (c2 :> s1)
=============================================================================
