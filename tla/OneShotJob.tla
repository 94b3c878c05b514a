----------------------------- MODULE OneShotJob -----------------------------
(***************************************************************************)
(* What the cloud execution queue promises about a job (ADR 0008): its     *)
(* process starts at most once, a job withdrawn before the start never     *)
(* starts, and its outcome is decided once.  An uncertain side effect is   *)
(* interrupted, never replayed.                                            *)
(***************************************************************************)
CONSTANTS
    Job,        \* sandbox requests, by job id
    Result      \* what a process that ran can report

VARIABLES
    started,    \* the start of the job's process was made durable
    outcome     \* "open", "withdrawn", "interrupted" or a result

Init ==
    /\ started = [j \in Job |-> FALSE]
    /\ outcome = [j \in Job |-> "open"]

Decide(j, o) ==
    /\ outcome[j] = "open"
    /\ outcome' = [outcome EXCEPT ![j] = o]
    /\ UNCHANGED started

Start(j) ==
    /\ outcome[j] = "open" /\ ~started[j]
    /\ started' = [started EXCEPT ![j] = TRUE]
    /\ UNCHANGED outcome

Report(j) == started[j] /\ \E r \in Result : Decide(j, r)

(* Nobody knows what the process did. *)
Interrupt(j) == started[j] /\ Decide(j, "interrupted")

Withdraw(j) == ~started[j] /\ Decide(j, "withdrawn")

(* One worker's recovery pass decides several jobs at once.                   *)
Recover(J) ==
    /\ \A j \in J : outcome[j] = "open"
    /\ outcome' = [j \in Job |-> IF j \notin J THEN outcome[j]
                                 ELSE IF started[j] THEN "interrupted" ELSE "withdrawn"]
    /\ UNCHANGED started

Next ==
    \/ \E j \in Job : Start(j) \/ Report(j) \/ Interrupt(j) \/ Withdraw(j)
    \/ \E J \in SUBSET Job : Recover(J)

Spec == Init /\ [][Next]_<<started, outcome>>

=============================================================================
