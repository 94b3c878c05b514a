---------------------------- MODULE MCCloudSync ----------------------------
(* Two promotions that compete for the first revision, or the second of      *)
(* which is based on a revision that does not exist yet.                     *)
EXTENDS CloudSync

CONSTANTS d1, d2, v1, v2

MCVersionOf == [e \in Event |-> IF e = d1 THEN v1 ELSE v2]
MCBases == {[e \in Event |-> 0], [e \in Event |-> IF e = d1 THEN 0 ELSE 1]}
=============================================================================
