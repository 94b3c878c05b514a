-------------------------- MODULE MCFileTransaction --------------------------
(* Three files; a change set that writes two of them, and one that renames   *)
(* the first to the third.                                                   *)
EXTENDS FileTransaction

CONSTANTS f1, f2, f3, old, new

MCPlans == {[f \in File |-> IF f = f3 THEN Keep ELSE new],
            [f \in File |-> IF f = f1 THEN Absent ELSE IF f = f2 THEN Keep ELSE old]}
=============================================================================
