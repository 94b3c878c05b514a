--------------------------- MODULE ExecutionQueue ---------------------------
(***************************************************************************)
(* The cloud execution queue: execution_jobs in PostgreSQL, the workers    *)
(* that claim jobs and run them in a sandbox, and the Core side that       *)
(* enqueues a job, waits for its outcome and may give up or cancel.        *)
(* Source: cloud/src/fairy_cloud/execution/repository.py and executor.py,  *)
(* cloud/src/fairy_cloud/workers/execution.py.                             *)
(*                                                                         *)
(* An action is one transaction of the repository, or one step of the      *)
(* worker between two of them; a worker may crash between any two, and its *)
(* lease may lapse while it still runs.                                    *)
(***************************************************************************)
EXTENDS Integers, FiniteSets

CONSTANTS
    Job,        \* sandbox requests, by job id
    Worker,     \* execution workers, by owner id
    Nobody,     \* no lease owner
    NoJob,      \* a worker without a claim
    FenceCap    \* workers crash and leases lapse only below this fence

ASSUME QueueAssumption ==
    /\ Nobody \notin Worker
    /\ NoJob \notin Job
    /\ FenceCap \in Nat

VARIABLES
    job,        \* execution_jobs
    worker,     \* where each worker is in run_once, and the claim it acts for
    starts,     \* sandbox processes ever started for a job
    asking,     \* jobs some Core process waits for (CloudSandboxExecutor.execute)
    answers     \* what those waits ever returned

vars == <<job, worker, starts, asking, answers>>

Result == {"completed", "failed", "timed_out", "cancelled"}
None == "none"

(* _terminal_status, and the statuses in which a worker owns the job.         *)
StatusOf == [r \in Result |-> IF r = "completed" THEN "succeeded" ELSE r]
Terminal == {"succeeded", "failed", "timed_out", "cancelled", "interrupted"}
Owned == {"claimed", "running", "result_recorded"}
Status == {"absent", "queued"} \union Owned \union Terminal

Row == [status : Status, cancel : BOOLEAN, spawned : BOOLEAN,
        owner : Worker \union {Nobody}, live : BOOLEAN, fence : Nat,
        result : Result \union {None}]

Place == {"idle", "claimed", "withdrawing", "checked", "unspawned", "spawned",
          "running", "exited", "recorded", "broken"}

Init ==
    /\ job = [j \in Job |-> [status |-> "absent", cancel |-> FALSE, spawned |-> FALSE,
                             owner |-> Nobody, live |-> FALSE, fence |-> 0, result |-> None]]
    /\ worker = [w \in Worker |-> [at |-> "idle", job |-> NoJob, fence |-> 0, result |-> None]]
    /\ starts = [j \in Job |-> 0]
    /\ asking = {}
    /\ answers = [j \in Job |-> {}]

-----------------------------------------------------------------------------
(* Core. *)

(* execute: a job id is enqueued once, later calls wait for the same job.    *)
(* It raises on a request for the public network before it is enqueued, so   *)
(* the worker's own refusal of such a request has no row to strike.           *)
Execute(j) ==
    /\ j \notin asking
    /\ asking' = asking \union {j}
    /\ job' = IF job[j].status = "absent" THEN [job EXCEPT ![j].status = "queued"] ELSE job
    /\ UNCHANGED <<worker, starts, answers>>

(* A terminal row without a result is an interruption to the caller.         *)
Answer(row) == IF row.status = "interrupted" \/ row.result = None THEN "lost" ELSE row.result

Observe(j) ==
    /\ j \in asking
    /\ job[j].status \in Terminal
    /\ asking' = asking \ {j}
    /\ answers' = [answers EXCEPT ![j] = @ \union {Answer(job[j])}]
    /\ UNCHANGED <<job, worker, starts>>

(* request_cancel: a queued job ends here, a claimed one is asked to end.    *)
Cancelled(row) ==
    IF row.status \in Terminal THEN row
    ELSE [row EXCEPT !.cancel = TRUE,
                     !.status = IF @ = "queued" THEN "cancelled" ELSE @]

(* The wait reached its deadline: the caller asks for cancellation and goes. *)
GiveUp(j) ==
    /\ j \in asking
    /\ asking' = asking \ {j}
    /\ answers' = [answers EXCEPT ![j] = @ \union {"gave_up"}]
    /\ job' = [job EXCEPT ![j] = Cancelled(@)]
    /\ UNCHANGED <<worker, starts>>

RequestCancel(j) ==
    /\ job[j].status \notin {"absent"} \union Terminal
    /\ ~job[j].cancel
    /\ job' = [job EXCEPT ![j] = Cancelled(@)]
    /\ UNCHANGED <<worker, starts, asking, answers>>

(* The waiting Core process dies; the job stays.                              *)
AskerDies(j) ==
    /\ j \in asking
    /\ asking' = asking \ {j}
    /\ UNCHANGED <<job, worker, starts, answers>>

-----------------------------------------------------------------------------
(* The worker's claim. *)

Holds(w) ==
    /\ worker[w].job # NoJob
    /\ job[worker[w].job].owner = w
    /\ job[worker[w].job].fence = worker[w].fence

FaultyClaimable(row) ==
    \/ row.status = "queued"
    \/ row.status \in {"claimed", "running", "result_recorded"} /\ ~row.live
(* Only what has not started its process, or only lacks its last step.       *)
Claimable(row) ==
    \/ row.status = "queued"
    \/ row.status = "claimed" /\ ~row.spawned /\ ~row.live
    \/ row.status = "result_recorded" /\ ~row.live

(* The owner, a lease and the next fence; a recorded result stays recorded.   *)
Claimed(row, w) ==
    LET next == IF row.status = "result_recorded" THEN "result_recorded" ELSE "claimed"
    IN  [row EXCEPT !.status = next, !.owner = w, !.live = TRUE, !.fence = @ + 1]

(* SKIP LOCKED passes over rows other transactions hold, so any may be next. *)
ClaimNext(w, j) ==
    /\ worker[w].at = "idle"
    /\ Claimable(job[j])
    /\ LET next == job[j].fence + 1
       IN  /\ job' = [job EXCEPT ![j] = Claimed(@, w)]
           /\ worker' = [worker EXCEPT ![w] =
                 [at |-> IF job[j].status = "result_recorded" THEN "recorded" ELSE "claimed",
                  job |-> j, fence |-> next, result |-> None]]
    /\ UNCHANGED <<starts, asking, answers>>

FaultyEnded(row, status) == [row EXCEPT !.status = status]
(* An ending drops the lease. *)
Ended(row, status) == [row EXCEPT !.status = status, !.owner = Nobody, !.live = FALSE]

FaultyRecovered(row) ==
    IF row.status = "claimed" /\ row.cancel /\ ~row.live THEN Ended(row, "cancelled") ELSE row
(* reconcile_expired: a started process whose worker is gone is interrupted, *)
(* a job to be cancelled that never started is cancelled.                     *)
Recovered(row) ==
    CASE row.status = "running" /\ row.spawned /\ ~row.live -> Ended(row, "interrupted")
      [] row.status = "claimed" /\ ~row.spawned /\ row.cancel /\ ~row.live
            -> Ended(row, "cancelled")
      [] OTHER -> row

Reconcile(w) ==
    /\ worker[w].at = "idle"
    /\ \E j \in Job : Recovered(job[j]) # job[j]
    /\ job' = [j \in Job |-> Recovered(job[j])]
    /\ UNCHANGED <<worker, starts, asking, answers>>

-----------------------------------------------------------------------------
(* The worker's steps, from one place to the next. *)

Go(w, place) == worker' = [worker EXCEPT ![w].at = place]
Drop(w) ==
    worker' = [worker EXCEPT ![w] = [at |-> "idle", job |-> NoJob, fence |-> 0, result |-> None]]
Mine(w) == job[worker[w].job]

(* cancellation_requested before the start; without the fence it raises.     *)
CheckCancel(w) ==
    /\ worker[w].at = "claimed"
    /\ \/ Holds(w) /\ Mine(w).cancel /\ Go(w, "withdrawing")
       \/ Holds(w) /\ ~Mine(w).cancel /\ Go(w, "checked")
       \/ ~Holds(w) /\ Drop(w)
    /\ UNCHANGED <<job, starts, asking, answers>>

FaultySpawnable(row) == row.status = "claimed"
(* The start is made durable only while nobody asked for cancellation.       *)
Spawnable(row) == row.status = "claimed" /\ ~row.cancel

MarkSpawned(w) ==
    /\ worker[w].at = "checked"
    /\ IF Holds(w) /\ Spawnable(Mine(w))
       THEN /\ job' = [job EXCEPT ![worker[w].job] =
                          [@ EXCEPT !.status = "running", !.spawned = TRUE, !.live = TRUE]]
            /\ Go(w, "spawned")
       ELSE Go(w, "unspawned") /\ UNCHANGED job
    /\ UNCHANGED <<starts, asking, answers>>

(* Why the start was refused: cancelled meanwhile, or the fence is lost.     *)
CheckUnspawned(w) ==
    /\ worker[w].at = "unspawned"
    /\ IF Holds(w) /\ Mine(w).cancel THEN Go(w, "withdrawing") ELSE Drop(w)
    /\ UNCHANGED <<job, starts, asking, answers>>

(* mark_cancelled.  A lost fence is an error the worker logs or dies of.     *)
Withdraw(w) ==
    /\ worker[w].at = "withdrawing"
    /\ job' = IF Holds(w) /\ Mine(w).status = "claimed"
              THEN [job EXCEPT ![worker[w].job] = Ended([@ EXCEPT !.cancel = TRUE], "cancelled")]
              ELSE job
    /\ Drop(w)
    /\ UNCHANGED <<starts, asking, answers>>

(* mark_interrupted, for a runner that failed. *)
MarkInterrupted(w) ==
    /\ worker[w].at = "broken"
    /\ job' = IF Holds(w) /\ Mine(w).status \in {"claimed", "running"}
              THEN [job EXCEPT ![worker[w].job] = Ended(@, "interrupted")]
              ELSE job
    /\ Drop(w)
    /\ UNCHANGED <<starts, asking, answers>>

StartProcess(w) ==
    /\ worker[w].at = "spawned"
    /\ starts' = [starts EXCEPT ![worker[w].job] = @ + 1]
    /\ Go(w, "running")
    /\ UNCHANGED <<job, asking, answers>>

(* The sandbox reports "cancelled" only after the worker relayed a request.  *)
ProcessEnds(w) ==
    /\ worker[w].at = "running"
    /\ \E r \in Result :
          /\ r = "cancelled" => Mine(w).cancel
          /\ worker' = [worker EXCEPT ![w].at = "exited", ![w].result = r]
    /\ UNCHANGED <<job, starts, asking, answers>>

(* The runner failed, broke its deadline, or saw the fence lost.             *)
RunnerFails(w) ==
    /\ worker[w].at \in {"spawned", "running"}
    /\ Go(w, "broken")
    /\ UNCHANGED <<job, starts, asking, answers>>

FaultyRecordable(w) == Mine(w).status \in {"running", "interrupted"}
(* The fenced update of record_result. *)
Recordable(w) == Holds(w) /\ Mine(w).status = "running"

RecordResult(w) ==
    /\ worker[w].at = "exited"
    /\ IF Recordable(w)
       THEN /\ job' = [job EXCEPT ![worker[w].job] =
                          [@ EXCEPT !.status = "result_recorded", !.result = worker[w].result]]
            /\ Go(w, "recorded")
       ELSE Drop(w) /\ UNCHANGED job
    /\ UNCHANGED <<starts, asking, answers>>

FinalizeResult(w) ==
    /\ worker[w].at = "recorded"
    /\ job' = IF Holds(w) /\ Mine(w).status = "result_recorded"
              THEN [job EXCEPT ![worker[w].job] = Ended(@, StatusOf[@.result])]
              ELSE job
    /\ Drop(w)
    /\ UNCHANGED <<starts, asking, answers>>

-----------------------------------------------------------------------------
(* Time and failures.  From FenceCap on they strike only claims that lost    *)
(* their worker or their fence, so that only finitely many occur.            *)

LeaseExpires(j) ==
    /\ job[j].live
    /\ job[j].fence < FenceCap \/ \A w \in Worker : worker[w].job # j \/ ~Holds(w)
    /\ job' = [job EXCEPT ![j].live = FALSE]
    /\ UNCHANGED <<worker, starts, asking, answers>>

(* A crash, or an error of the database at any step.                          *)
Crash(w) ==
    /\ worker[w].at # "idle"
    /\ Holds(w) => worker[w].fence < FenceCap
    /\ Drop(w)
    /\ UNCHANGED <<job, starts, asking, answers>>

WorkerStep(w) ==
    \/ CheckCancel(w) \/ MarkSpawned(w) \/ CheckUnspawned(w) \/ Withdraw(w)
    \/ MarkInterrupted(w) \/ StartProcess(w) \/ ProcessEnds(w) \/ RunnerFails(w)
    \/ RecordResult(w) \/ FinalizeResult(w)

Next ==
    \/ \E j \in Job :
          \/ Execute(j) \/ Observe(j) \/ GiveUp(j) \/ RequestCancel(j) \/ AskerDies(j)
          \/ LeaseExpires(j)
    \/ \E w \in Worker :
          \/ \E j \in Job : ClaimNext(w, j)
          \/ Reconcile(w)
          \/ WorkerStep(w)
          \/ Crash(w)

Spec == Init /\ [][Next]_vars

(* Workers poll in a loop and are restarted, their runner has a deadline,    *)
(* and time passes for a lease.                                               *)
FairSpec ==
    /\ Spec
    /\ \A w \in Worker : WF_vars(WorkerStep(w)) /\ WF_vars(Reconcile(w))
    /\ \A j \in Job : WF_vars(LeaseExpires(j)) /\ WF_vars(\E w \in Worker : ClaimNext(w, j))

-----------------------------------------------------------------------------
(* Rows are well formed: a lease owner is named exactly in the statuses a    *)
(* claim passes through, a start precedes every result, and a worker acts    *)
(* for a fence that was issued (claim_next, _fenced_update).                  *)
TypeOK ==
    /\ job \in [Job -> Row]
    /\ worker \in [Worker -> [at : Place, job : Job \union {NoJob}, fence : Nat,
                              result : Result \union {None}]]
    /\ starts \in [Job -> Nat]
    /\ asking \subseteq Job
    /\ answers \in [Job -> SUBSET (Result \union {"lost", "gave_up"})]
    /\ \A j \in Job : job[j].owner # Nobody <=> job[j].status \in Owned
    /\ \A w \in Worker : worker[w].job = NoJob <=> worker[w].at = "idle"

(* A job's process starts at most once, whatever crashes, lapses and claims  *)
(* there are (ADR 0008: "An uncertain side effect is interrupted rather than *)
(* automatically replayed").                                                  *)
ProcessStartsOnce == \A j \in Job : starts[j] <= 1

(* A cancellation that arrives before the start is durable prevents it.      *)
CancelledNeverStarts ==
    [][\A j \in Job : job[j].cancel /\ ~job[j].spawned => ~job'[j].spawned]_vars

(* However often a job id is executed, waits that read its outcome return    *)
(* the same one, and a result only of a process that ran.                     *)
AnswersAgree ==
    \A j \in Job :
        /\ \A a, b \in answers[j] \ {"gave_up"} : a = b
        /\ answers[j] \intersect Result # {} => starts[j] = 1

Outcome(row) ==
    IF row.result # None THEN row.result
    ELSE IF row.status = "interrupted" THEN "interrupted"
    ELSE IF row.status = "cancelled" THEN "withdrawn"
    ELSE "open"

OneShot == INSTANCE OneShotJob
    WITH started <- [j \in Job |-> job[j].spawned],
         outcome <- [j \in Job |-> Outcome(job[j])]

(* The queue implements the one-shot job.                                     *)
EachJobIsOneShot == OneShot!Spec

(* Every job that is enqueued ends, after finitely many failures.             *)
EveryJobEnds == \A j \in Job : job[j].status = "queued" ~> job[j].status \in Terminal

=============================================================================
