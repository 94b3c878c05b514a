-------------------------- MODULE MCExecutionQueue --------------------------
(* One job that three workers claim, lose and find again, twice over.        *)
EXTENDS ExecutionQueue
=============================================================================
