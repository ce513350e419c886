---------------------------- MODULE MCTareRegistry ----------------------------
EXTENDS TareRegistry

CONSTANTS w1, w2, w3, i1, i2, s1, s2, p1, p2

MCTargetOf   == [s \in Storno |-> w1]
TwoTargetsOf == [s \in Storno |-> IF s = s1 THEN w1 ELSE w2]

(* The import brings a taring older than w1 and one newer than w3. *)
MCPairOf  == [w \in Taring |-> IF w \in {w3, i2} THEN p2 ELSE p1]
MCTaredAt == [w \in Taring |-> IF w = i1 THEN 1 ELSE IF w \in {w1, w3} THEN 2 ELSE 3]
=============================================================================
