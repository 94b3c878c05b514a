------------------------ MODULE MCWorkflowScheduler ------------------------
(* A parent p with two nodes that may run together and wait for a child, and  *)
(* its child c, for a pool of two threads.                                    *)
EXTENDS WorkflowScheduler, TLC

CONSTANTS a, b, x, p, c

MCRunOf == (a :> p) @@ (b :> p) @@ (x :> c)
MCRevisionOf == [n \in Node |-> 1]
MCKeys == [n \in Node |-> {}]
MCMaxAttempts == [n \in Node |-> IF n = x THEN 2 ELSE 1]
MCMaxParallel == ("normal" :> 2) @@ ("deep" :> 2)
MCParentOf == (c :> p)
=============================================================================
