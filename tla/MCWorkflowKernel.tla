-------------------------- MODULE MCWorkflowKernel --------------------------
(* Instances of WorkflowKernel.  The run r1 plans two reads, a and b, that   *)
(* may overlap, and a serial node c that joins them; its second revision is  *)
(* the single node d.  A configuration takes the nodes it needs.             *)
EXTENDS WorkflowKernel, TLC

CONSTANTS a, b, c, d, r1, files, web

MCRunOf == [n \in Node |-> r1]
MCRevisionOf == [n \in Node |-> IF n = d THEN 2 ELSE 1]
MCEdge == {<<a, c>>, <<b, c>>} \intersect (Node \X Node)
MCKeys == (a :> {files}) @@ (b :> {web}) @@ (c :> {files, web}) @@ (d :> {files})
MCMaxAttempts == [n \in Node |-> IF n = a THEN 1 ELSE 2]
MCMaxParallel == ("normal" :> 1) @@ ("deep" :> 2)
MCDeepParallel == ("normal" :> 2) @@ ("deep" :> 2)
=============================================================================
