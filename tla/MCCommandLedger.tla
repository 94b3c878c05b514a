--------------------------- MODULE MCCommandLedger --------------------------
(* Two interchangeable workers that contend for one command. *)
EXTENDS CommandLedger, TLC

Workers == Permutations(Worker)

=============================================================================
