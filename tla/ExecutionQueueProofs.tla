------------------------ MODULE ExecutionQueueProofs ------------------------
(***************************************************************************)
(* Proofs about the cloud execution queue, for every set of jobs and       *)
(* workers and any number of crashes and lapsed leases.  QueueInv is the   *)
(* inductive invariant: what a row says of itself (RowOK), what a worker   *)
(* at each place of run_once may rely on (WorkerOK), how often processes   *)
(* started (StartsOK, OneStarter) and what waits were told (AnswersOK).    *)
(***************************************************************************)
EXTENDS ExecutionQueue, TLAPS

RowOK(j, row) ==
    /\ row \in Row
    /\ row.owner # Nobody <=> row.status \in Owned
    /\ row.status \in {"absent", "queued", "claimed"} => ~row.spawned
    /\ row.status \in {"running", "result_recorded"} => row.spawned
    /\ row.result # None => row.spawned /\ row.status \in {"result_recorded", StatusOf[row.result]}
    /\ row.result = None => row.status \notin {"result_recorded", "succeeded", "failed", "timed_out"}
    /\ row.status = "interrupted" => row.spawned
    /\ row.status = "cancelled" /\ row.result = None => ~row.spawned

RowsOK == job \in [Job -> Row] /\ \A j \in Job : RowOK(j, job[j])

WorkerType == worker \in [Worker -> [at : Place, job : Job \union {NoJob}, fence : Nat,
                                     result : Result \union {None}]]

WorkerOK(w) ==
    /\ worker[w].job = NoJob <=> worker[w].at = "idle"
    /\ worker[w].at \in {"spawned", "running", "exited", "broken"} => job[worker[w].job].spawned
    /\ worker[w].at = "spawned" => starts[worker[w].job] = 0
    /\ worker[w].at \in {"running", "exited"} => starts[worker[w].job] = 1
    /\ worker[w].at = "exited" => worker[w].result \in Result

WorkersOK == WorkerType /\ \A w \in Worker : WorkerOK(w)

StartsOK ==
    /\ starts \in [Job -> Nat]
    /\ \A j \in Job : /\ starts[j] \in {0, 1}
                      /\ ~job[j].spawned => starts[j] = 0
                      /\ job[j].result # None => starts[j] = 1

(* A durable start has one worker to act on it.                               *)
OneStarter ==
    \A v, w \in Worker :
        worker[v].at = "spawned" /\ worker[w].at = "spawned" /\ worker[v].job = worker[w].job
            => v = w

AnswersOK ==
    /\ asking \subseteq {j \in Job : job[j].status # "absent"}
    /\ answers \in [Job -> SUBSET (Result \union {"lost", "gave_up"})]
    /\ \A j \in Job : \A a \in answers[j] \ {"gave_up"} :
            job[j].status \in Terminal /\ a = Answer(job[j])

QueueInv == RowsOK /\ WorkersOK /\ StartsOK /\ OneStarter /\ AnswersOK

-----------------------------------------------------------------------------
(* The strings that name statuses, results and places differ.                *)
LEMMA ResultStatus ==
    ASSUME NEW r \in Result
    PROVE  /\ StatusOf[r] \in Terminal \ {"interrupted"}
           /\ r # None /\ r \notin {"lost", "gave_up", "open", "interrupted", "withdrawn"}
BY DEF Result, StatusOf, Terminal, None

(* Each change of a row, and what it does to the job's outcome.               *)
LEMMA CancelledRow ==
    ASSUME NEW j \in Job, NEW row, RowOK(j, row), row.status # "absent"
    PROVE  /\ RowOK(j, Cancelled(row)) /\ Cancelled(row).status # "absent"
           /\ Cancelled(row).spawned = row.spawned /\ Cancelled(row).result = row.result
           /\ row.status \in Terminal => Cancelled(row) = row
           /\ \/ Outcome(Cancelled(row)) = Outcome(row)
              \/ ~row.spawned /\ Outcome(row) = "open" /\ Outcome(Cancelled(row)) = "withdrawn"
<1> DEFINE new == [row EXCEPT !.cancel = TRUE,
                              !.status = IF @ = "queued" THEN "cancelled" ELSE @]
<1>1. row \in Row
  BY DEF RowOK
<1>2. CASE row.status \in Terminal
  BY <1>2 DEF Cancelled
<1>3. CASE row.status \notin Terminal
  <2>1. Cancelled(row) = new
    BY <1>3 DEF Cancelled
  <2>2. /\ new.cancel = TRUE /\ new.spawned = row.spawned /\ new.result = row.result
        /\ new.owner = row.owner /\ new.live = row.live /\ new.fence = row.fence
        /\ new.status = IF row.status = "queued" THEN "cancelled" ELSE row.status
    BY <1>1 DEF Row
  <2>3. new \in Row
    BY <1>1 DEF Row, Status, Terminal
  <2> HIDE DEF new
  <2>4. CASE row.status = "queued"
    <3>1. row.result = None /\ ~row.spawned /\ row.owner = Nobody
      BY <2>4 DEF RowOK, Row, StatusOf, Result, Owned
    <3> QED BY <1>3, <2>1, <2>2, <2>3, <2>4, <3>1 DEF RowOK, Owned, Outcome, None
  <2>5. CASE row.status # "queued"
    BY <1>3, <2>1, <2>2, <2>3, <2>5 DEF RowOK, Outcome
  <2> QED BY <2>4, <2>5
<1> QED BY <1>2, <1>3

LEMMA EndedRow ==
    ASSUME NEW j \in Job, NEW row, RowOK(j, row), NEW status \in Terminal,
           \/ row.result # None /\ status = StatusOf[row.result]
           \/ row.result = None /\ status = "interrupted" /\ row.spawned
           \/ row.result = None /\ status = "cancelled" /\ ~row.spawned
    PROVE  /\ RowOK(j, Ended(row, status))
           /\ Ended(row, status).spawned = row.spawned /\ Ended(row, status).result = row.result
           /\ Ended(row, status).status = status
           /\ row.result # None => Outcome(Ended(row, status)) = row.result
           /\ row.result = None /\ status = "interrupted"
                => Outcome(Ended(row, status)) = "interrupted"
           /\ row.result = None /\ status = "cancelled"
                => Outcome(Ended(row, status)) = "withdrawn"
<1> DEFINE new == Ended(row, status)
<1>1. row \in Row
  BY DEF RowOK
<1>2. /\ new.cancel = row.cancel /\ new.spawned = row.spawned /\ new.result = row.result
      /\ new.owner = Nobody /\ new.live = FALSE /\ new.fence = row.fence /\ new.status = status
  BY <1>1 DEF Ended, Row
<1>3. new \in Row
  BY <1>1 DEF Ended, Row, Status
<1> HIDE DEF new
<1>4. RowOK(j, new)
  <2>1. row.result # None => /\ row.result \in Result /\ row.spawned
                             /\ status = StatusOf[row.result] /\ status # "interrupted"
    BY <1>1, ResultStatus DEF RowOK, Row
  <2>2. status \notin Owned /\ status \notin {"absent", "queued"}
    BY DEF Owned, Terminal
  <2>3. row.result = None => /\ status \notin {"result_recorded", "succeeded", "failed", "timed_out"}
                             /\ status = "interrupted" => row.spawned
                             /\ status = "cancelled" => ~row.spawned
    OBVIOUS
  <2>4. new.result # None => new.spawned /\ new.status \in {"result_recorded", StatusOf[new.result]}
    BY <1>2, <2>1
  <2>5. new.owner # Nobody <=> new.status \in Owned
    BY <1>2, <2>2
  <2>6. /\ new.status \in {"absent", "queued", "claimed"} => ~new.spawned
        /\ new.status \in {"running", "result_recorded"} => new.spawned
    BY <1>2, <2>2 DEF Owned
  <2>7. /\ new.result = None => new.status \notin {"result_recorded", "succeeded", "failed", "timed_out"}
        /\ new.status = "interrupted" => new.spawned
        /\ new.status = "cancelled" /\ new.result = None => ~new.spawned
    BY <1>2, <2>1, <2>3
  <2> QED BY <1>3, <2>4, <2>5, <2>6, <2>7 DEF RowOK
<1>5. /\ row.result # None => Outcome(new) = row.result
      /\ row.result = None /\ status = "interrupted" => Outcome(new) = "interrupted"
      /\ row.result = None /\ status = "cancelled" => Outcome(new) = "withdrawn"
  <2>1. CASE row.result # None
    BY <1>2, <2>1 DEF Outcome
  <2>2. CASE row.result = None /\ status = "interrupted"
    BY <1>2, <2>2 DEF Outcome
  <2>3. CASE row.result = None /\ status = "cancelled"
    BY <1>2, <2>3 DEF Outcome
  <2> QED BY <2>1, <2>2, <2>3
<1> QED BY <1>2, <1>4, <1>5 DEF new

LEMMA RecoveredRow ==
    ASSUME NEW j \in Job, NEW row, RowOK(j, row)
    PROVE  /\ RowOK(j, Recovered(row))
           /\ row.status # "absent" => Recovered(row).status # "absent"
           /\ Recovered(row).spawned = row.spawned /\ Recovered(row).result = row.result
           /\ row.status \in Terminal => Recovered(row) = row
           /\ \/ Outcome(Recovered(row)) = Outcome(row)
              \/ /\ Outcome(row) = "open"
                 /\ Outcome(Recovered(row)) = IF row.spawned THEN "interrupted" ELSE "withdrawn"
<1>1. row \in Row
  BY DEF RowOK
<1>2. CASE row.status = "running" /\ row.spawned /\ ~row.live
  <2>1. row.result = None
    BY <1>1, <1>2, ResultStatus DEF RowOK, Row, Terminal
  <2>2. Recovered(row) = Ended(row, "interrupted") /\ "interrupted" \in Terminal
    BY <1>2 DEF Recovered, Terminal
  <2>3. Outcome(row) = "open" /\ row.status \notin Terminal
    BY <1>2, <2>1 DEF Outcome, Terminal
  <2>4. LET new == Ended(row, "interrupted")
        IN  /\ RowOK(j, new) /\ new.spawned = row.spawned /\ new.result = row.result
            /\ Outcome(new) = "interrupted" /\ new.status = "interrupted"
    BY <1>2, <2>1, <2>2, EndedRow
  <2> QED BY <1>2, <2>2, <2>3, <2>4
<1>3. CASE row.status = "claimed" /\ ~row.spawned /\ row.cancel /\ ~row.live
  <2>1. row.result = None
    BY <1>3 DEF RowOK
  <2>2. Recovered(row) = Ended(row, "cancelled") /\ "cancelled" \in Terminal
    BY <1>3 DEF Recovered, Terminal
  <2>3. Outcome(row) = "open" /\ row.status \notin Terminal
    BY <1>3, <2>1 DEF Outcome, Terminal
  <2>4. LET new == Ended(row, "cancelled")
        IN  /\ RowOK(j, new) /\ new.spawned = row.spawned /\ new.result = row.result
            /\ Outcome(new) = "withdrawn" /\ new.status = "cancelled"
    BY <1>3, <2>1, <2>2, EndedRow
  <2> QED BY <1>3, <2>2, <2>3, <2>4
<1>4. CASE Recovered(row) = row
  BY <1>4
<1>5. \/ row.status = "running" /\ row.spawned /\ ~row.live
      \/ row.status = "claimed" /\ ~row.spawned /\ row.cancel /\ ~row.live
      \/ Recovered(row) = row
  BY DEF Recovered
<1> QED BY <1>2, <1>3, <1>4, <1>5

LEMMA ClaimedRow ==
    ASSUME NEW j \in Job, NEW row, RowOK(j, row), Claimable(row), NEW w \in Worker
    PROVE  LET new == Claimed(row, w)
           IN  /\ RowOK(j, new) /\ new.spawned = row.spawned /\ new.result = row.result
               /\ row.status \notin Terminal /\ new.status # "absent"
               /\ Outcome(new) = Outcome(row)
               /\ row.status # "result_recorded" => ~row.spawned /\ new.status = "claimed"
<1> DEFINE new == Claimed(row, w)
<1>1. row \in Row /\ row.status \in {"queued", "claimed", "result_recorded"} /\ w # Nobody
  BY QueueAssumption DEF RowOK, Claimable
<1>2. /\ new.cancel = row.cancel /\ new.spawned = row.spawned /\ new.result = row.result
      /\ new.owner = w /\ new.live = TRUE /\ new.fence = row.fence + 1
      /\ new.status = IF row.status = "result_recorded" THEN "result_recorded" ELSE "claimed"
      /\ new \in Row
  <2>1. row.fence + 1 \in Nat /\ {"claimed", "result_recorded"} \subseteq Status
    BY <1>1 DEF Row, Status, Owned
  <2>2. new = [status |-> IF row.status = "result_recorded" THEN "result_recorded" ELSE "claimed",
               cancel |-> row.cancel, spawned |-> row.spawned, owner |-> w, live |-> TRUE,
               fence |-> row.fence + 1, result |-> row.result]
    <3> DEFINE next == IF row.status = "result_recorded" THEN "result_recorded" ELSE "claimed"
    <3>1. new = [row EXCEPT !.status = next, !.owner = w, !.live = TRUE, !.fence = row.fence + 1]
      BY DEF Claimed
    <3> HIDE DEF new, next
    <3>2. new = [status |-> next, cancel |-> row.cancel, spawned |-> row.spawned, owner |-> w,
                 live |-> TRUE, fence |-> row.fence + 1, result |-> row.result]
      BY <1>1, <3>1 DEF Row
    <3> QED BY <3>2 DEF next
  <2> HIDE DEF new
  <2> QED BY <1>1, <2>1, <2>2 DEF Row
<1> HIDE DEF new
<1>3. row.result # None => row.result \in Result /\ row.status = "result_recorded"
  <2>1. row.result # None => row.result \in Result
    BY <1>1 DEF Row
  <2>2. row.result # None => StatusOf[row.result] \notin {"queued", "claimed"}
    BY <2>1, ResultStatus DEF Terminal
  <2>3. row.result # None => row.status \in {"result_recorded", StatusOf[row.result]}
    BY DEF RowOK
  <2> QED BY <1>1, <2>1, <2>2, <2>3
<1>4. RowOK(j, new)
  <2>1. new.owner # Nobody /\ new.status \in Owned /\ new.status \in {"claimed", "result_recorded"}
    BY <1>1, <1>2 DEF Owned
  <2>2. /\ row.status = "result_recorded" => row.spawned /\ row.result # None
        /\ row.status # "result_recorded" => ~row.spawned
    BY <1>1 DEF RowOK
  <2>3. /\ new.status = "claimed" => ~new.spawned /\ new.result = None
        /\ new.status = "result_recorded" => new.spawned /\ new.result # None
    BY <1>1, <1>2, <1>3, <2>2
  <2> QED BY <1>2, <2>1, <2>3 DEF RowOK
<1>5. Outcome(new) = Outcome(row)
  BY <1>1, <1>2, <1>3 DEF Outcome
<1>6. row.status \notin Terminal /\ (row.status # "result_recorded" => ~row.spawned)
  BY <1>1 DEF RowOK, Terminal
<1> QED BY <1>2, <1>4, <1>5, <1>6 DEF new

-----------------------------------------------------------------------------
(* Rows that keep their start, their ending and their result's process keep  *)
(* what was told about them.                                                  *)
LEMMA RowsChange ==
    ASSUME RowsOK, StartsOK, AnswersOK, starts' = starts,
           job' \in [Job -> Row],
           \A j \in Job : /\ RowOK(j, job'[j])
                          /\ job[j].spawned => job'[j].spawned
                          /\ job[j].status \in Terminal => job'[j] = job[j]
                          /\ job[j].status # "absent" => job'[j].status # "absent"
                          /\ job'[j].result # None => starts[j] = 1
    PROVE  /\ RowsOK' /\ StartsOK'
           /\ answers' = answers /\ asking' \subseteq asking => AnswersOK'
<1>1. RowsOK'
  BY DEF RowsOK, RowOK
<1>2. StartsOK'
  BY DEF StartsOK
<1>3. ASSUME answers' = answers, asking' \subseteq asking
      PROVE  AnswersOK'
  <2>1. \A j \in Job : job[j].status \in Terminal => job'[j].status \in Terminal
    OBVIOUS
  <2> QED BY <1>3, <2>1 DEF AnswersOK
<1> QED BY <1>1, <1>2, <1>3

(* The same for one worker that moves while starts only go on.                *)
LEMMA WorkersChange ==
    ASSUME WorkersOK, OneStarter, StartsOK, starts' = starts,
           \A j \in Job : job[j].spawned => job'[j].spawned,
           NEW w \in Worker, NEW rec,
           rec \in [at : Place, job : Job \union {NoJob}, fence : Nat, result : Result \union {None}],
           worker' = [worker EXCEPT ![w] = rec],
           rec.job = NoJob <=> rec.at = "idle",
           rec.at \in {"spawned", "running", "exited", "broken"} => job'[rec.job].spawned,
           rec.at = "spawned" => starts[rec.job] = 0,
           rec.at \in {"running", "exited"} => starts[rec.job] = 1,
           rec.at = "exited" => rec.result \in Result,
           rec.at = "spawned" =>
               \A v \in Worker : worker[v].at = "spawned" => worker[v].job # rec.job
    PROVE  WorkersOK' /\ OneStarter'
<1>1. worker'[w] = rec /\ \A v \in Worker : v # w => worker'[v] = worker[v]
  BY DEF WorkersOK, WorkerType
<1>2. WorkerType'
  BY DEF WorkersOK, WorkerType
<1>3. \A v \in Worker : worker[v].at # "idle" => worker[v].job \in Job
  BY DEF WorkersOK, WorkerOK, WorkerType
<1>4. ASSUME NEW v \in Worker
      PROVE  WorkerOK(v)'
  <2>1. CASE v = w
    BY <1>1, <2>1 DEF WorkerOK
  <2>2. CASE v # w
    <3>1. WorkerOK(v) /\ worker'[v] = worker[v]
      BY <1>1, <2>2 DEF WorkersOK
    <3>2. worker[v].at \in {"spawned", "running", "exited", "broken"} => job'[worker[v].job].spawned
      BY <1>3, <3>1 DEF WorkerOK
    <3> QED BY <3>1, <3>2 DEF WorkerOK
  <2> QED BY <2>1, <2>2
<1>5. OneStarter'
  BY <1>1 DEF OneStarter
<1> QED BY <1>2, <1>4, <1>5 DEF WorkersOK

LEMMA WorkersStand ==
    ASSUME WorkersOK, OneStarter, starts' = starts, worker' = worker,
           \A j \in Job : job[j].spawned => job'[j].spawned
    PROVE  WorkersOK' /\ OneStarter'
<1>1. \A v \in Worker : worker[v].at # "idle" => worker[v].job \in Job
  BY DEF WorkersOK, WorkerOK, WorkerType
<1>2. ASSUME NEW v \in Worker
      PROVE  WorkerOK(v)'
  <2>1. WorkerOK(v)
    BY DEF WorkersOK
  <2>2. worker[v].at \in {"spawned", "running", "exited", "broken"} => job'[worker[v].job].spawned
    BY <1>1, <2>1 DEF WorkerOK
  <2> QED BY <2>1, <2>2 DEF WorkerOK
<1> QED BY <1>2 DEF WorkersOK, WorkerType, OneStarter

(* A worker that is done with its claim. *)
LEMMA WorkerDrops ==
    ASSUME WorkersOK, OneStarter, StartsOK, starts' = starts,
           \A j \in Job : job[j].spawned => job'[j].spawned,
           NEW w \in Worker, Drop(w)
    PROVE  WorkersOK' /\ OneStarter'
<1> DEFINE rec == [at |-> "idle", job |-> NoJob, fence |-> 0, result |-> None]
<1>1. rec \in [at : Place, job : Job \union {NoJob}, fence : Nat, result : Result \union {None}]
  BY DEF Place
<1>2. worker' = [worker EXCEPT ![w] = rec]
  BY DEF Drop
<1>3. rec.at = "idle" /\ rec.job = NoJob
  OBVIOUS
<1> HIDE DEF rec
<1> QED BY <1>1, <1>2, <1>3, WorkersChange

(* A worker that goes on with its claim. *)
LEMMA WorkerGoes ==
    ASSUME WorkersOK, OneStarter, StartsOK, starts' = starts,
           \A j \in Job : job[j].spawned => job'[j].spawned,
           NEW w \in Worker, worker[w].at # "idle",
           NEW place \in Place \ {"idle", "spawned", "exited"}, Go(w, place),
           place \in {"running", "broken"} => job'[worker[w].job].spawned,
           place = "running" => starts[worker[w].job] = 1
    PROVE  WorkersOK' /\ OneStarter'
<1> DEFINE rec == [worker[w] EXCEPT !.at = place]
<1>1. worker[w] \in [at : Place, job : Job \union {NoJob}, fence : Nat, result : Result \union {None}]
      /\ worker[w].job # NoJob
  BY DEF WorkersOK, WorkerType, WorkerOK
<1>2. /\ rec.at = place /\ rec.job = worker[w].job
      /\ rec \in [at : Place, job : Job \union {NoJob}, fence : Nat, result : Result \union {None}]
  BY <1>1
<1>3. worker' = [worker EXCEPT ![w] = rec]
  BY DEF Go
<1> HIDE DEF rec
<1> QED BY <1>1, <1>2, <1>3, WorkersChange

-----------------------------------------------------------------------------
(* The one-shot job that a state of the queue stands for.                     *)
Started == [j \in Job |-> job[j].spawned]
Outcomes == [j \in Job |-> Outcome(job[j])]

Implements == OneShot!Next \/ UNCHANGED <<Started, Outcomes>>

LEMMA SameOutcome ==
    ASSUME \A j \in Job : job'[j].spawned = job[j].spawned /\ Outcome(job'[j]) = Outcome(job[j])
    PROVE  Implements
<1>1. (\A j \in Job : Outcome(job[j])' = Outcome(job[j])) => Outcomes' = Outcomes
  BY DEF Outcomes
<1>2. \A j \in Job : Outcome(job[j])' = Outcome(job'[j])
  BY DEF Outcome
<1> QED BY <1>1, <1>2 DEF Implements, Started

LEMMA NewOutcome ==
    ASSUME RowsOK, NEW j \in Job, NEW row, job' = [job EXCEPT ![j] = row],
           row.spawned = job[j].spawned, Outcome(job[j]) = "open", NEW o, Outcome(row) = o
    PROVE  OneShot!Decide(j, o)
<1>1. \A i \in Job : job'[i] = IF i = j THEN row ELSE job[i]
  BY DEF RowsOK
<1>2. Started' = Started
  BY <1>1 DEF Started
<1>3. Outcomes' = [Outcomes EXCEPT ![j] = o]
  <2>1. \A i \in Job : Outcome(job[i])' = Outcome(job'[i])
    BY DEF Outcome
  <2>2. \A i \in Job : Outcomes'[i] = IF i = j THEN o ELSE Outcomes[i]
    BY <1>1, <2>1 DEF Outcomes
  <2>3. Outcomes' = [i \in Job |-> Outcomes'[i]] /\ Outcomes = [i \in Job |-> Outcomes[i]]
    BY DEF Outcomes
  <2> QED BY <2>2, <2>3
<1>4. Outcomes[j] = "open"
  BY DEF Outcomes
<1> QED BY <1>2, <1>3, <1>4 DEF OneShot!Decide, Started, Outcomes

LEMMA AskStep ==
    ASSUME QueueInv, NEW j \in Job,
           Execute(j) \/ RequestCancel(j) \/ GiveUp(j)
    PROVE  QueueInv' /\ Implements
<1> USE DEF QueueInv
<1> DEFINE row == job'[j]
<1>1. job \in [Job -> Row] /\ \A i \in Job : RowOK(i, job[i])
  BY DEF RowsOK
<1>2. starts' = starts /\ worker' = worker
  BY DEF Execute, RequestCancel, GiveUp
<1>3. ASSUME NEW new, RowOK(j, new), job' = [job EXCEPT ![j] = new],
             new.spawned = job[j].spawned, new.result = job[j].result,
             job[j].status \in Terminal => new = job[j], new.status # "absent"
      PROVE  /\ RowsOK' /\ StartsOK' /\ WorkersOK' /\ OneStarter'
             /\ answers' = answers /\ asking' \subseteq asking => AnswersOK'
             /\ \A i \in Job \ {j} : job'[i] = job[i]
             /\ job'[j] = new
  <2>1. job' \in [Job -> Row] /\ job'[j] = new /\ \A i \in Job \ {j} : job'[i] = job[i]
    BY <1>1, <1>3 DEF RowOK
  <2>2. \A i \in Job : /\ RowOK(i, job'[i])
                       /\ job[i].spawned => job'[i].spawned
                       /\ job[i].status \in Terminal => job'[i] = job[i]
                       /\ job[i].status # "absent" => job'[i].status # "absent"
                       /\ job'[i].result # None => starts[i] = 1
    BY <1>1, <1>3, <2>1 DEF StartsOK
  <2> QED BY <1>2, <2>1, <2>2, RowsChange, WorkersStand
<1>4. CASE Execute(j) /\ job[j].status = "absent"
  <2> DEFINE new == [job[j] EXCEPT !.status = "queued"]
  <2>1. /\ new.status = "queued" /\ new.spawned = job[j].spawned /\ new.result = job[j].result
        /\ new.owner = job[j].owner /\ new \in Row
    BY <1>1 DEF Row, Status
  <2>2. job' = [job EXCEPT ![j] = new]
    BY <1>4 DEF Execute
  <2> HIDE DEF new
  <2>3. job[j].owner = Nobody /\ job[j].result = None /\ ~job[j].spawned
    <3>1. RowOK(j, job[j])
      BY <1>1
    <3> QED BY <1>4, <3>1 DEF RowOK, Owned
  <2>4. RowOK(j, new) /\ Outcome(new) = "open" /\ Outcome(job[j]) = "open"
        /\ job[j].status \notin Terminal
    BY <1>4, <2>1, <2>3 DEF RowOK, Owned, Outcome, Terminal
  <2>5. AnswersOK'
    <3>1. answers' = answers /\ asking' = asking \union {j}
      BY <1>4 DEF Execute
    <3>2. /\ \A i \in Job \ {j} : job'[i] = job[i]
          /\ job'[j].status = "queued" /\ job[j].status \notin Terminal
      BY <1>3, <2>1, <2>2, <2>4
    <3> QED BY <3>1, <3>2 DEF AnswersOK
  <2>6. Implements
    BY <1>3, <2>1, <2>2, <2>4, SameOutcome
  <2> QED BY <1>3, <2>1, <2>2, <2>4, <2>5, <2>6
<1>5. CASE Execute(j) /\ job[j].status # "absent"
  <2>1. job' = job /\ answers' = answers /\ asking' = asking \union {j}
    BY <1>5 DEF Execute
  <2>2. job' = [job EXCEPT ![j] = job[j]]
    BY <1>1, <2>1
  <2>3. Implements
    BY <2>1, SameOutcome
  <2>4. AnswersOK'
    BY <1>5, <2>1 DEF AnswersOK
  <2> QED BY <1>1, <1>3, <1>5, <2>1, <2>2, <2>3, <2>4
<1>6. CASE RequestCancel(j) \/ GiveUp(j)
  <2> DEFINE new == Cancelled(job[j])
  <2>1. job' = [job EXCEPT ![j] = new] /\ job[j].status # "absent"
    BY <1>6 DEF RequestCancel, GiveUp, AnswersOK
  <2>2. /\ RowOK(j, new) /\ new.status # "absent" /\ new.spawned = job[j].spawned /\ new.result = job[j].result
        /\ job[j].status \in Terminal => new = job[j]
        /\ \/ Outcome(new) = Outcome(job[j])
           \/ ~job[j].spawned /\ Outcome(job[j]) = "open" /\ Outcome(new) = "withdrawn"
    BY <1>1, <2>1, CancelledRow
  <2> HIDE DEF new
  <2>3. AnswersOK'
    <3>1. CASE RequestCancel(j)
      BY <1>3, <2>1, <2>2, <3>1 DEF RequestCancel, AnswersOK
    <3>2. CASE GiveUp(j)
      <4>1. /\ asking' \subseteq asking
            /\ answers' = [answers EXCEPT ![j] = @ \union {"gave_up"}]
        BY <3>2 DEF GiveUp, AnswersOK
      <4>2. \A i \in Job : /\ job[i].status \in Terminal => job'[i] = job[i]
                           /\ job[i].status # "absent" => job'[i].status # "absent"
        BY <1>3, <2>1, <2>2
      <4> QED BY <4>1, <4>2 DEF AnswersOK
    <3> QED BY <1>6, <3>1, <3>2
  <2>4. Implements
    <3>1. CASE Outcome(new) = Outcome(job[j])
      BY <1>3, <2>1, <2>2, <3>1, SameOutcome
    <3>2. CASE ~job[j].spawned /\ Outcome(job[j]) = "open" /\ Outcome(new) = "withdrawn"
      <4>1. OneShot!Decide(j, "withdrawn")
        BY <2>1, <2>2, <3>2, NewOutcome
      <4>2. ~Started[j]
        BY <3>2 DEF Started
      <4> QED BY <4>1, <4>2 DEF Implements, OneShot!Next, OneShot!Withdraw, Started
    <3> QED BY <2>2, <3>1, <3>2
  <2> QED BY <1>3, <2>1, <2>2, <2>3, <2>4
<1> QED BY <1>4, <1>5, <1>6

(* One row changes; the worker that changed it goes on or drops its claim.    *)
LEMMA OneRow ==
    ASSUME QueueInv, NEW j \in Job, NEW new, RowOK(j, new), job' = [job EXCEPT ![j] = new],
           starts' = starts, UNCHANGED <<asking, answers>>,
           job[j].spawned => new.spawned,
           job[j].status \in Terminal => new = job[j],
           job[j].status # "absent" => new.status # "absent",
           new.result # None => starts[j] = 1
    PROVE  /\ RowsOK' /\ StartsOK' /\ AnswersOK'
           /\ \A i \in Job : job[i].spawned => job'[i].spawned
           /\ \A i \in Job \ {j} : job'[i] = job[i]
           /\ job'[j] = new
<1> USE DEF QueueInv
<1>1. job \in [Job -> Row] /\ \A i \in Job : RowOK(i, job[i])
  BY DEF RowsOK
<1>2. job' \in [Job -> Row] /\ job'[j] = new /\ \A i \in Job \ {j} : job'[i] = job[i]
  BY <1>1 DEF RowOK
<1>3. \A i \in Job : /\ RowOK(i, job'[i])
                     /\ job[i].spawned => job'[i].spawned
                     /\ job[i].status \in Terminal => job'[i] = job[i]
                     /\ job[i].status # "absent" => job'[i].status # "absent"
                     /\ job'[i].result # None => starts[i] = 1
  BY <1>1, <1>2 DEF StartsOK
<1> QED BY <1>2, <1>3, RowsChange

LEMMA ObserveStep ==
    ASSUME QueueInv, NEW j \in Job, Observe(j) \/ AskerDies(j)
    PROVE  QueueInv' /\ Implements
<1> USE DEF QueueInv
<1>1. UNCHANGED <<job, worker, starts>> /\ asking' \subseteq asking
  BY DEF Observe, AskerDies
<1>2. RowsOK' /\ StartsOK'
  BY <1>1 DEF RowsOK, StartsOK
<1>3. WorkersOK' /\ OneStarter'
  BY <1>1, WorkersStand
<1>4. AnswersOK'
  <2>1. CASE AskerDies(j)
    BY <1>1, <2>1 DEF AskerDies, AnswersOK
  <2>2. CASE Observe(j)
    <3>1. Answer(job[j]) \in Result \union {"lost"}
      BY DEF Answer, RowsOK, Row
    <3>2. answers' = [answers EXCEPT ![j] = @ \union {Answer(job[j])}] /\ job[j].status \in Terminal
      BY <2>2 DEF Observe
    <3>3. \A i \in Job : \A a \in answers'[i] : \/ a \in answers[i]
                                                \/ i = j /\ a = Answer(job[j])
      BY <3>2 DEF AnswersOK
    <3>4. answers' \in [Job -> SUBSET (Result \union {"lost", "gave_up"})]
      BY <3>1, <3>2 DEF AnswersOK
    <3>5. \A i \in Job : Answer(job[i])' = Answer(job[i])
      BY <1>1
    <3>6. \A i \in Job : \A a \in answers'[i] \ {"gave_up"} :
              job[i].status \in Terminal /\ a = Answer(job[i])
      BY <3>2, <3>3 DEF AnswersOK
    <3> QED BY <1>1, <3>4, <3>5, <3>6 DEF AnswersOK
  <2> QED BY <2>1, <2>2
<1>5. Implements
  BY <1>1, SameOutcome
<1> QED BY <1>2, <1>3, <1>4, <1>5

LEMMA ClaimStep ==
    ASSUME QueueInv, NEW w \in Worker, NEW j \in Job, ClaimNext(w, j)
    PROVE  QueueInv' /\ Implements
<1> USE DEF QueueInv
<1> DEFINE new == Claimed(job[j], w)
           place == IF job[j].status = "result_recorded" THEN "recorded" ELSE "claimed"
           rec == [at |-> place, job |-> j, fence |-> job[j].fence + 1, result |-> None]
<1>1. job \in [Job -> Row] /\ RowOK(j, job[j]) /\ Claimable(job[j])
  BY DEF RowsOK, ClaimNext
<1>2. /\ RowOK(j, new) /\ new.spawned = job[j].spawned /\ new.result = job[j].result
      /\ job[j].status \notin Terminal /\ new.status # "absent"
      /\ Outcome(new) = Outcome(job[j])
  BY <1>1, ClaimedRow
<1>3. /\ job' = [job EXCEPT ![j] = new] /\ worker' = [worker EXCEPT ![w] = rec]
      /\ UNCHANGED <<starts, asking, answers>>
  BY DEF ClaimNext
<1>4. /\ rec \in [at : Place, job : Job \union {NoJob}, fence : Nat, result : Result \union {None}]
      /\ rec.at \in {"recorded", "claimed"} /\ rec.job = j
  <2>1. job[j].fence + 1 \in Nat /\ place \in {"recorded", "claimed"}
    BY <1>1 DEF Row
  <2> HIDE DEF place
  <2> QED BY <2>1 DEF Place
<1> HIDE DEF new, rec
<1>5. /\ RowsOK' /\ StartsOK' /\ AnswersOK'
      /\ \A i \in Job : job[i].spawned => job'[i].spawned
      /\ \A i \in Job \ {j} : job'[i] = job[i]
      /\ job'[j] = new
  <2>1. new.result # None => starts[j] = 1
    BY <1>2 DEF StartsOK
  <2>2. UNCHANGED <<asking, answers>> /\ starts' = starts
    BY <1>3
  <2> QED BY <1>2, <1>3, <2>1, <2>2, OneRow
<1>6. WorkersOK' /\ OneStarter'
  BY <1>3, <1>4, <1>5, QueueAssumption, WorkersChange
<1>7. Implements
  BY <1>2, <1>5, SameOutcome
<1> QED BY <1>5, <1>6, <1>7

LEMMA ReconcileStep ==
    ASSUME QueueInv, NEW w \in Worker, Reconcile(w)
    PROVE  QueueInv' /\ Implements
<1> USE DEF QueueInv
<1>1. job \in [Job -> Row] /\ \A j \in Job : RowOK(j, job[j])
  BY DEF RowsOK
<1>2. /\ job' = [j \in Job |-> Recovered(job[j])]
      /\ UNCHANGED <<worker, starts, asking, answers>>
  BY DEF Reconcile
<1>3. \A j \in Job :
         /\ job'[j] = Recovered(job[j]) /\ RowOK(j, job'[j]) /\ job'[j] \in Row
         /\ job'[j].spawned = job[j].spawned /\ job'[j].result = job[j].result
         /\ job[j].status # "absent" => job'[j].status # "absent"
         /\ job[j].status \in Terminal => job'[j] = job[j]
         /\ \/ Outcome(job'[j]) = Outcome(job[j])
            \/ /\ Outcome(job[j]) = "open"
               /\ Outcome(job'[j]) = IF job[j].spawned THEN "interrupted" ELSE "withdrawn"
  <2> SUFFICES ASSUME NEW j \in Job
               PROVE  /\ job'[j] = Recovered(job[j]) /\ RowOK(j, job'[j]) /\ job'[j] \in Row
                      /\ job'[j].spawned = job[j].spawned /\ job'[j].result = job[j].result
                      /\ job[j].status # "absent" => job'[j].status # "absent"
                      /\ job[j].status \in Terminal => job'[j] = job[j]
                      /\ \/ Outcome(job'[j]) = Outcome(job[j])
                         \/ /\ Outcome(job[j]) = "open"
                            /\ Outcome(job'[j]) = IF job[j].spawned THEN "interrupted"
                                                  ELSE "withdrawn"
    OBVIOUS
  <2>1. job'[j] = Recovered(job[j])
    BY <1>2
  <2>2. RowOK(j, Recovered(job[j])) /\ Recovered(job[j]) \in Row
    BY <1>1, RecoveredRow DEF RowOK
  <2> QED BY <1>1, <2>1, <2>2, RecoveredRow
<1>4. job' \in [Job -> Row]
  BY <1>2, <1>3
<1>5. RowsOK' /\ StartsOK' /\ AnswersOK'
  BY <1>2, <1>3, <1>4, RowsChange DEF StartsOK
<1>6. WorkersOK' /\ OneStarter'
  BY <1>2, <1>3, WorkersStand
<1>7. Implements
  <2> DEFINE J == {j \in Job : Outcome(job'[j]) # Outcome(job[j])}
  <2>1. \A j \in Job : Outcome(job[j])' = Outcome(job'[j])
    BY DEF Outcome
  <2>2. Started' = Started
    BY <1>3 DEF Started
  <2>3. Outcomes' = [j \in Job |-> IF j \notin J THEN Outcomes[j]
                                   ELSE IF Started[j] THEN "interrupted" ELSE "withdrawn"]
    BY <1>3, <2>1 DEF Outcomes, Started
  <2>4. \A j \in J : Outcomes[j] = "open"
    BY <1>3 DEF Outcomes
  <2>5. J \in SUBSET Job
    OBVIOUS
  <2> HIDE DEF J
  <2>6. OneShot!Recover(J)
    BY <2>2, <2>3, <2>4 DEF OneShot!Recover, Started, Outcomes
  <2> QED BY <2>5, <2>6 DEF Implements, OneShot!Next
<1> QED BY <1>5, <1>6, <1>7

(* A worker that holds its job or not, and changes nothing but itself.        *)
LEMMA OnlyWorker ==
    ASSUME QueueInv, UNCHANGED <<job, starts, asking, answers>>, WorkersOK', OneStarter'
    PROVE  QueueInv' /\ Implements
<1>1. Implements
  BY SameOutcome
<1> QED BY <1>1 DEF QueueInv, RowsOK, StartsOK, AnswersOK

LEMMA MovingStep ==
    ASSUME QueueInv, NEW w \in Worker,
           CheckCancel(w) \/ CheckUnspawned(w) \/ ProcessEnds(w) \/ RunnerFails(w) \/ Crash(w)
    PROVE  QueueInv' /\ Implements
<1> USE DEF QueueInv
<1>1. UNCHANGED <<job, starts, asking, answers>> /\ worker[w].at # "idle"
  BY DEF CheckCancel, CheckUnspawned, ProcessEnds, RunnerFails, Crash
<1>2. /\ \A i \in Job : job[i].spawned => job'[i].spawned
      /\ WorkerOK(w) /\ worker[w].job \in Job
      /\ worker[w] \in [at : Place, job : Job \union {NoJob}, fence : Nat,
                        result : Result \union {None}]
  BY <1>1 DEF WorkersOK, WorkerType, WorkerOK
<1>3. CASE Drop(w)
  BY <1>1, <1>2, <1>3, WorkerDrops, OnlyWorker
<1>4. CASE \E place \in {"withdrawing", "checked"} : Go(w, place)
  BY <1>1, <1>2, <1>4, WorkerGoes, OnlyWorker DEF Place
<1>5. CASE RunnerFails(w)
  <2>1. Go(w, "broken") /\ job'[worker[w].job].spawned
    BY <1>1, <1>2, <1>5 DEF RunnerFails, WorkerOK
  <2> QED BY <1>1, <1>2, <2>1, WorkerGoes, OnlyWorker DEF Place
<1>6. CASE ProcessEnds(w)
  <2>1. PICK r \in Result : worker' = [worker EXCEPT ![w].at = "exited", ![w].result = r]
    BY <1>6 DEF ProcessEnds
  <2> DEFINE rec == [worker[w] EXCEPT !.at = "exited", !.result = r]
  <2>2. worker' = [worker EXCEPT ![w] = rec]
    BY <2>1 DEF WorkersOK, WorkerType
  <2>3. /\ rec.at = "exited" /\ rec.job = worker[w].job /\ rec.result = r
        /\ rec \in [at : Place, job : Job \union {NoJob}, fence : Nat, result : Result \union {None}]
    BY <1>2 DEF Place
  <2> HIDE DEF rec
  <2>4. job'[rec.job].spawned /\ starts[rec.job] = 1 /\ rec.job # NoJob
    BY <1>1, <1>2, <1>6, <2>3, QueueAssumption DEF ProcessEnds, WorkerOK
  <2>5. WorkersOK' /\ OneStarter'
    BY <1>1, <1>2, <2>2, <2>3, <2>4, WorkersChange
  <2> QED BY <1>1, <2>5, OnlyWorker
<1> QED BY <1>3, <1>4, <1>5, <1>6 DEF CheckCancel, CheckUnspawned, Crash

LEMMA MarkSpawnedStep ==
    ASSUME QueueInv, NEW w \in Worker, NEW j \in Job, worker[w].job = j, MarkSpawned(w)
    PROVE  QueueInv' /\ Implements
<1> USE DEF QueueInv
<1> DEFINE new == [job[j] EXCEPT !.status = "running", !.spawned = TRUE, !.live = TRUE]
           rec == [worker[w] EXCEPT !.at = "spawned"]
<1>1. /\ worker[w].at = "checked" /\ UNCHANGED <<starts, asking, answers>>
      /\ WorkerOK(w)
      /\ worker[w] \in [at : Place, job : Job \union {NoJob}, fence : Nat,
                        result : Result \union {None}]
  BY DEF MarkSpawned, WorkersOK, WorkerType, WorkerOK
<1>2. CASE ~(Holds(w) /\ Spawnable(Mine(w)))
  <2>1. Go(w, "unspawned") /\ job' = job
    BY <1>2 DEF MarkSpawned
  <2> QED BY <1>1, <2>1, WorkerGoes, OnlyWorker DEF Place
<1>3. CASE Holds(w) /\ Spawnable(Mine(w))
  <2>1. /\ job' = [job EXCEPT ![j] = new] /\ worker' = [worker EXCEPT ![w] = rec]
        /\ job[j].status = "claimed"
    BY <1>3 DEF MarkSpawned, Go, Mine, Spawnable
  <2>2. job[j] \in Row /\ RowOK(j, job[j]) /\ job \in [Job -> Row]
    BY <1>1 DEF RowsOK
  <2>3. /\ new.status = "running" /\ new.spawned = TRUE /\ new.owner = job[j].owner
        /\ new.result = job[j].result /\ new \in Row
    BY <2>2 DEF Row, Status, Owned
  <2>4. /\ rec.at = "spawned" /\ rec.job = j
        /\ rec \in [at : Place, job : Job \union {NoJob}, fence : Nat, result : Result \union {None}]
    BY <1>1 DEF Place
  <2>5. job[j].result = None /\ ~job[j].spawned /\ job[j].owner # Nobody
    <3>1. ~job[j].spawned
      BY <2>1, <2>2 DEF RowOK
    <3> QED BY <2>1, <2>2, <3>1 DEF RowOK, Owned
  <2> HIDE DEF new, rec
  <2>6. RowOK(j, new)
    BY <2>3, <2>5 DEF RowOK, Owned
  <2>7. /\ job[j].status \notin Terminal /\ Outcome(job[j]) = "open" /\ Outcome(new) = "open"
        /\ starts[j] = 0
    BY <1>1, <2>1, <2>3, <2>5 DEF Terminal, Outcome, StartsOK
  <2>8. /\ RowsOK' /\ StartsOK' /\ AnswersOK'
        /\ \A i \in Job : job[i].spawned => job'[i].spawned
        /\ \A i \in Job \ {j} : job'[i] = job[i]
        /\ job'[j] = new
    <3>1. UNCHANGED <<asking, answers>> /\ starts' = starts
      BY <1>1
    <3> QED BY <1>1, <2>1, <2>3, <2>5, <2>6, <2>7, <3>1, OneRow
  <2>9. \A v \in Worker : worker[v].at = "spawned" => worker[v].job # j
    BY <2>5 DEF WorkersOK, WorkerOK
  <2>10. WorkersOK' /\ OneStarter'
    <3>1. j # NoJob
      BY <1>1, QueueAssumption
    <3>2. worker' = [worker EXCEPT ![w] = rec] /\ starts' = starts
      BY <1>1, <2>1
    <3>3. job'[rec.job].spawned /\ starts[rec.job] = 0
      BY <2>3, <2>4, <2>7, <2>8
    <3>4. \A i \in Job : job[i].spawned => job'[i].spawned
      BY <2>8
    <3> QED BY <2>4, <2>9, <3>1, <3>2, <3>3, <3>4, WorkersChange
  <2>11. Implements
    <3>1. \A i \in Job : Outcome(job[i])' = Outcome(job'[i])
      BY DEF Outcome
    <3>2. Outcomes' = Outcomes /\ Outcomes[j] = "open" /\ ~Started[j]
      BY <1>1, <2>5, <2>7, <2>8, <3>1 DEF Outcomes, Started
    <3>3. \A i \in Job : Started'[i] = IF i = j THEN TRUE ELSE Started[i]
      BY <2>3, <2>8 DEF Started
    <3>4. Started' = [i \in Job |-> Started'[i]] /\ Started = [i \in Job |-> Started[i]]
      BY DEF Started
    <3>5. Started' = [Started EXCEPT ![j] = TRUE]
      BY <3>3, <3>4
    <3>6. OneShot!Start(j)
      BY <3>2, <3>5 DEF OneShot!Start, Started, Outcomes
    <3> QED BY <1>1, <3>6 DEF Implements, OneShot!Next
  <2> QED BY <2>8, <2>10, <2>11
<1> QED BY <1>2, <1>3

(* A worker that writes its job's row and is done with it.                    *)
LEMMA LastStep ==
    ASSUME QueueInv, NEW w \in Worker, NEW j \in Job, NEW new,
           job' = [job EXCEPT ![j] = new], Drop(w), UNCHANGED <<starts, asking, answers>>,
           RowOK(j, new), job[j].status \notin Terminal, new.status # "absent",
           new.spawned = job[j].spawned, new.result = job[j].result,
           \/ Outcome(new) = Outcome(job[j])
           \/ /\ Outcome(job[j]) = "open"
              /\ \/ Outcome(new) = "withdrawn" /\ ~job[j].spawned
                 \/ Outcome(new) = "interrupted" /\ job[j].spawned
    PROVE  QueueInv' /\ Implements
<1> USE DEF QueueInv
<1>1. new.result # None => starts[j] = 1
  BY DEF StartsOK
<1>2. starts' = starts
  OBVIOUS
<1>3. /\ RowsOK' /\ StartsOK' /\ AnswersOK'
      /\ \A i \in Job : job[i].spawned => job'[i].spawned
      /\ \A i \in Job \ {j} : job'[i] = job[i]
      /\ job'[j] = new
  BY <1>1, <1>2, OneRow
<1>4. WorkersOK' /\ OneStarter'
  BY <1>2, <1>3, WorkerDrops
<1>5. Implements
  <2>1. CASE Outcome(new) = Outcome(job[j])
    BY <1>3, <2>1, SameOutcome
  <2>2. CASE Outcome(job[j]) = "open" /\ Outcome(new) = "withdrawn" /\ ~job[j].spawned
    <3>1. OneShot!Decide(j, "withdrawn")
      BY <2>2, NewOutcome
    <3>2. ~Started[j]
      BY <2>2 DEF Started
    <3> QED BY <3>1, <3>2 DEF Implements, OneShot!Next, OneShot!Withdraw, Started
  <2>3. CASE Outcome(job[j]) = "open" /\ Outcome(new) = "interrupted" /\ job[j].spawned
    <3>1. OneShot!Decide(j, "interrupted")
      BY <2>3, NewOutcome
    <3>2. Started[j]
      BY <2>3 DEF Started
    <3> QED BY <3>1, <3>2 DEF Implements, OneShot!Next, OneShot!Interrupt, Started
  <2> QED BY <2>1, <2>2, <2>3
<1> QED BY <1>3, <1>4, <1>5

LEMMA WithdrawStep ==
    ASSUME QueueInv, NEW w \in Worker, NEW j \in Job, worker[w].job = j, Withdraw(w)
    PROVE  QueueInv' /\ Implements
<1> USE DEF QueueInv
<1>1. Drop(w) /\ UNCHANGED <<starts, asking, answers>>
  BY DEF Withdraw
<1>2. CASE ~(Holds(w) /\ job[j].status = "claimed")
  <2>1. job' = job
    BY <1>2 DEF Withdraw, Mine
  <2> QED BY <1>1, <2>1, WorkerDrops, OnlyWorker
<1>3. CASE Holds(w) /\ job[j].status = "claimed"
  <2> DEFINE row == [job[j] EXCEPT !.cancel = TRUE]
             new == Ended(row, "cancelled")
  <2>1. job' = [job EXCEPT ![j] = new]
    BY <1>3 DEF Withdraw, Mine
  <2>2. job[j] \in Row /\ RowOK(j, job[j])
    BY DEF RowsOK
  <2>3. /\ row \in Row /\ row.status = job[j].status /\ row.spawned = job[j].spawned
        /\ row.result = job[j].result /\ row.owner = job[j].owner
    BY <2>2 DEF Row
  <2>4. job[j].result = None /\ ~job[j].spawned
    BY <1>3, <2>2 DEF RowOK
  <2> HIDE DEF row
  <2>5. RowOK(j, row)
    BY <2>2, <2>3 DEF RowOK
  <2>6. /\ RowOK(j, new) /\ new.spawned = job[j].spawned /\ new.result = job[j].result
        /\ new.status = "cancelled" /\ Outcome(new) = "withdrawn"
    BY <2>3, <2>4, <2>5, EndedRow DEF Terminal
  <2>7. Outcome(job[j]) = "open" /\ job[j].status \notin Terminal
    BY <1>3, <2>4 DEF Outcome, Terminal
  <2> HIDE DEF new
  <2> QED BY <1>1, <2>1, <2>4, <2>6, <2>7, LastStep
<1> QED BY <1>2, <1>3

LEMMA MarkInterruptedStep ==
    ASSUME QueueInv, NEW w \in Worker, NEW j \in Job, worker[w].job = j, MarkInterrupted(w)
    PROVE  QueueInv' /\ Implements
<1> USE DEF QueueInv
<1>1. /\ Drop(w) /\ UNCHANGED <<starts, asking, answers>>
      /\ worker[w].at = "broken" /\ WorkerOK(w)
  BY DEF MarkInterrupted, WorkersOK
<1>2. CASE ~(Holds(w) /\ job[j].status \in {"claimed", "running"})
  <2>1. job' = job
    BY <1>2 DEF MarkInterrupted, Mine
  <2> QED BY <1>1, <2>1, WorkerDrops, OnlyWorker
<1>3. CASE Holds(w) /\ job[j].status \in {"claimed", "running"}
  <2> DEFINE new == Ended(job[j], "interrupted")
  <2>1. job' = [job EXCEPT ![j] = new]
    BY <1>3 DEF MarkInterrupted, Mine
  <2>2. job[j] \in Row /\ RowOK(j, job[j])
    BY DEF RowsOK
  <2>3. job[j].spawned
    BY <1>1 DEF WorkerOK
  <2>4. job[j].result = None
    BY <1>3, <2>2, ResultStatus DEF RowOK, Row, Terminal
  <2>5. /\ RowOK(j, new) /\ new.spawned = job[j].spawned /\ new.result = job[j].result
        /\ new.status = "interrupted" /\ Outcome(new) = "interrupted"
    BY <2>2, <2>3, <2>4, EndedRow DEF Terminal
  <2>6. Outcome(job[j]) = "open" /\ job[j].status \notin Terminal
    BY <1>3, <2>4 DEF Outcome, Terminal
  <2> HIDE DEF new
  <2> QED BY <1>1, <2>1, <2>3, <2>5, <2>6, LastStep
<1> QED BY <1>2, <1>3

LEMMA FinalizeStep ==
    ASSUME QueueInv, NEW w \in Worker, NEW j \in Job, worker[w].job = j, FinalizeResult(w)
    PROVE  QueueInv' /\ Implements
<1> USE DEF QueueInv
<1>1. Drop(w) /\ UNCHANGED <<starts, asking, answers>>
  BY DEF FinalizeResult
<1>2. CASE ~(Holds(w) /\ job[j].status = "result_recorded")
  <2>1. job' = job
    BY <1>2 DEF FinalizeResult, Mine
  <2> QED BY <1>1, <2>1, WorkerDrops, OnlyWorker
<1>3. CASE Holds(w) /\ job[j].status = "result_recorded"
  <2> DEFINE status == StatusOf[job[j].result]
             new == Ended(job[j], status)
  <2>1. job' = [job EXCEPT ![j] = new]
    BY <1>3 DEF FinalizeResult, Mine
  <2>2. job[j] \in Row /\ RowOK(j, job[j])
    BY DEF RowsOK
  <2>3. job[j].result # None /\ job[j].result \in Result
    BY <1>3, <2>2 DEF RowOK, Row
  <2>4. status \in Terminal
    BY <2>3, ResultStatus
  <2>5. /\ RowOK(j, new) /\ new.spawned = job[j].spawned /\ new.result = job[j].result
        /\ new.status = status /\ Outcome(new) = job[j].result
    BY <2>2, <2>3, <2>4, EndedRow
  <2>6. Outcome(job[j]) = job[j].result /\ job[j].status \notin Terminal /\ status # "absent"
    BY <1>3, <2>3, <2>4 DEF Outcome, Terminal
  <2> HIDE DEF new, status
  <2> QED BY <1>1, <2>1, <2>5, <2>6, LastStep
<1> QED BY <1>2, <1>3

LEMMA RecordStep ==
    ASSUME QueueInv, NEW w \in Worker, NEW j \in Job, worker[w].job = j, RecordResult(w)
    PROVE  QueueInv' /\ Implements
<1> USE DEF QueueInv
<1>1. /\ UNCHANGED <<starts, asking, answers>> /\ worker[w].at = "exited" /\ WorkerOK(w)
      /\ worker[w] \in [at : Place, job : Job \union {NoJob}, fence : Nat,
                        result : Result \union {None}]
  BY DEF RecordResult, WorkersOK, WorkerType
<1>2. CASE ~Recordable(w)
  <2>1. job' = job /\ Drop(w)
    BY <1>2 DEF RecordResult
  <2> QED BY <1>1, <2>1, WorkerDrops, OnlyWorker
<1>3. CASE Recordable(w)
  <2> DEFINE r == worker[w].result
             new == [job[j] EXCEPT !.status = "result_recorded", !.result = r]
  <2>1. /\ job' = [job EXCEPT ![j] = new] /\ Go(w, "recorded") /\ job[j].status = "running"
    BY <1>3 DEF RecordResult, Recordable, Mine
  <2>2. job[j] \in Row /\ RowOK(j, job[j]) /\ r \in Result /\ r # None /\ starts[j] = 1
    BY <1>1, ResultStatus DEF RowsOK, WorkerOK
  <2>3. /\ new.status = "result_recorded" /\ new.result = r /\ new.spawned = job[j].spawned
        /\ new.owner = job[j].owner /\ new \in Row
    BY <2>2 DEF Row, Status, Owned
  <2>4. job[j].spawned /\ job[j].result = None /\ job[j].owner # Nobody
    BY <2>1, <2>2, ResultStatus DEF RowOK, Row, Terminal, Owned
  <2> HIDE DEF new, r
  <2>5. RowOK(j, new)
    BY <2>2, <2>3, <2>4 DEF RowOK, Owned
  <2>6. /\ job[j].status \notin Terminal /\ Outcome(job[j]) = "open" /\ Outcome(new) = r
    BY <2>1, <2>2, <2>3, <2>4 DEF Terminal, Outcome
  <2>7. UNCHANGED <<asking, answers>> /\ starts' = starts
    BY <1>1
  <2>8. /\ RowsOK' /\ StartsOK' /\ AnswersOK'
        /\ \A i \in Job : job[i].spawned => job'[i].spawned
    BY <2>1, <2>2, <2>3, <2>5, <2>6, <2>7, OneRow
  <2>9. WorkersOK' /\ OneStarter'
    BY <1>1, <2>1, <2>7, <2>8, WorkerGoes DEF Place
  <2>10. Implements
    <3>1. OneShot!Decide(j, r)
      BY <2>1, <2>3, <2>6, NewOutcome
    <3>2. Started[j]
      BY <2>4 DEF Started
    <3> QED BY <2>2, <3>1, <3>2 DEF Implements, OneShot!Next, OneShot!Report, Started
  <2> QED BY <2>8, <2>9, <2>10
<1> QED BY <1>2, <1>3

(* The step the queue exists for: one process, and nobody else to start it.  *)
LEMMA StartProcessStep ==
    ASSUME QueueInv, NEW w \in Worker, NEW j \in Job, worker[w].job = j, StartProcess(w)
    PROVE  QueueInv' /\ Implements
<1> USE DEF QueueInv
<1> DEFINE rec == [worker[w] EXCEPT !.at = "running"]
<1>1. /\ worker[w].at = "spawned" /\ worker' = [worker EXCEPT ![w] = rec]
      /\ starts' = [starts EXCEPT ![j] = @ + 1] /\ UNCHANGED <<job, asking, answers>>
  BY DEF StartProcess, Go
<1>2. /\ WorkerOK(w) /\ j # NoJob /\ starts[j] = 0 /\ job[j].spawned
      /\ worker[w] \in [at : Place, job : Job \union {NoJob}, fence : Nat,
                        result : Result \union {None}]
  BY <1>1, QueueAssumption DEF WorkersOK, WorkerType, WorkerOK
<1>3. /\ rec.at = "running" /\ rec.job = j
      /\ rec \in [at : Place, job : Job \union {NoJob}, fence : Nat, result : Result \union {None}]
  BY <1>2 DEF Place
<1> HIDE DEF rec
<1>4. starts'[j] = 1 /\ starts' \in [Job -> Nat] /\ \A i \in Job \ {j} : starts'[i] = starts[i]
  BY <1>1, <1>2 DEF StartsOK
<1>5. worker'[w] = rec /\ \A v \in Worker : v # w => worker'[v] = worker[v]
  BY <1>1 DEF WorkersOK, WorkerType
<1>6. RowsOK' /\ AnswersOK'
  BY <1>1 DEF RowsOK, RowOK, AnswersOK, Answer
<1>7. StartsOK'
  BY <1>1, <1>2, <1>4 DEF StartsOK
<1>8. WorkerType'
  BY <1>1, <1>3 DEF WorkersOK, WorkerType
<1>9. ASSUME NEW v \in Worker
      PROVE  WorkerOK(v)'
  <2>1. CASE v = w
    BY <1>1, <1>2, <1>3, <1>4, <1>5, <2>1 DEF WorkerOK
  <2>2. CASE v # w
    <3>1. WorkerOK(v) /\ worker'[v] = worker[v] /\ (worker[v].at # "idle" => worker[v].job \in Job)
      BY <1>5, <2>2 DEF WorkersOK, WorkerOK, WorkerType
    <3>2. worker[v].at = "spawned" => worker[v].job # j
      BY <1>1, <2>2 DEF OneStarter
    <3>3. worker[v].at \in {"running", "exited"} => worker[v].job # j
      BY <1>2, <3>1 DEF WorkerOK
    <3>4. worker[v].at \in {"spawned", "running", "exited"}
             => starts'[worker[v].job] = starts[worker[v].job]
      BY <1>4, <3>1, <3>2, <3>3
    <3> QED BY <1>1, <3>1, <3>4 DEF WorkerOK
  <2> QED BY <2>1, <2>2
<1>10. OneStarter'
  BY <1>3, <1>5 DEF OneStarter
<1>11. Implements
  BY <1>1, SameOutcome
<1> QED BY <1>6, <1>7, <1>8, <1>9, <1>10, <1>11 DEF WorkersOK

LEMMA LeaseExpiresStep ==
    ASSUME QueueInv, NEW j \in Job, LeaseExpires(j)
    PROVE  QueueInv' /\ Implements
<1> USE DEF QueueInv
<1> DEFINE new == [job[j] EXCEPT !.live = FALSE]
<1>1. /\ job' = [job EXCEPT ![j] = new] /\ job[j].live
      /\ starts' = starts /\ worker' = worker /\ UNCHANGED <<asking, answers>>
  BY DEF LeaseExpires
<1>2. job[j] \in Row /\ RowOK(j, job[j])
  BY DEF RowsOK
<1>3. /\ new \in Row /\ new.status = job[j].status /\ new.spawned = job[j].spawned
      /\ new.result = job[j].result /\ new.owner = job[j].owner
  BY <1>2 DEF Row
<1> HIDE DEF new
<1>4. RowOK(j, new) /\ Outcome(new) = Outcome(job[j]) /\ Answer(new) = Answer(job[j])
  BY <1>2, <1>3 DEF RowOK, Outcome, Answer
<1>5. job \in [Job -> Row] /\ \A i \in Job : RowOK(i, job[i])
  BY DEF RowsOK
<1>6. job' \in [Job -> Row] /\ job'[j] = new /\ \A i \in Job \ {j} : job'[i] = job[i]
  BY <1>1, <1>3, <1>5
<1>7. RowsOK' /\ StartsOK'
  BY <1>1, <1>3, <1>4, <1>5, <1>6 DEF RowsOK, StartsOK, RowOK
<1>8. WorkersOK' /\ OneStarter'
  BY <1>1, <1>3, <1>6, WorkersStand
<1>9. AnswersOK'
  <2>1. \A i \in Job : job'[i].status = job[i].status /\ Answer(job'[i]) = Answer(job[i])
    BY <1>3, <1>4, <1>6
  <2>2. \A i \in Job : Answer(job[i])' = Answer(job'[i])
    BY DEF Answer
  <2> QED BY <1>1, <2>1, <2>2 DEF AnswersOK
<1>10. Implements
  BY <1>3, <1>4, <1>6, SameOutcome
<1> QED BY <1>7, <1>8, <1>9, <1>10

-----------------------------------------------------------------------------
LEMMA InitLemma == Init => QueueInv /\ OneShot!Init
<1> SUFFICES ASSUME Init PROVE QueueInv /\ OneShot!Init
  OBVIOUS
<1> DEFINE row == [status |-> "absent", cancel |-> FALSE, spawned |-> FALSE, owner |-> Nobody,
                   live |-> FALSE, fence |-> 0, result |-> None]
           rec == [at |-> "idle", job |-> NoJob, fence |-> 0, result |-> None]
<1>1. job = [j \in Job |-> row] /\ worker = [w \in Worker |-> rec]
  BY DEF Init
<1>2. /\ row \in Row /\ row.status = "absent" /\ row.owner = Nobody /\ ~row.spawned
      /\ row.result = None
  BY DEF Row, Status
<1>3. /\ rec \in [at : Place, job : Job \union {NoJob}, fence : Nat, result : Result \union {None}]
      /\ rec.at = "idle" /\ rec.job = NoJob
  BY DEF Place
<1> HIDE DEF row, rec
<1>4. \A j \in Job : RowOK(j, row)
  BY <1>2 DEF RowOK, Owned
<1>5. RowsOK
  BY <1>1, <1>2, <1>4 DEF RowsOK
<1>6. WorkersOK /\ OneStarter
  BY <1>1, <1>3 DEF WorkersOK, WorkerType, WorkerOK, OneStarter
<1>7. StartsOK /\ AnswersOK
  BY <1>1, <1>2 DEF Init, StartsOK, AnswersOK
<1>8. \A j \in Job : Outcome(job[j]) = "open" /\ job[j].spawned = FALSE
  BY <1>1, <1>2 DEF Outcome, Row
<1> QED BY <1>5, <1>6, <1>7, <1>8 DEF QueueInv, OneShot!Init

LEMMA StepLemma == QueueInv /\ [Next]_vars => QueueInv' /\ Implements
<1> SUFFICES ASSUME QueueInv, [Next]_vars PROVE QueueInv' /\ Implements
  OBVIOUS
<1>1. ASSUME NEW j \in Job,
             Execute(j) \/ Observe(j) \/ GiveUp(j) \/ RequestCancel(j) \/ AskerDies(j)
                 \/ LeaseExpires(j)
      PROVE  QueueInv' /\ Implements
  BY <1>1, AskStep, ObserveStep, LeaseExpiresStep
<1>2. ASSUME NEW w \in Worker, NEW j \in Job, ClaimNext(w, j)
      PROVE  QueueInv' /\ Implements
  BY <1>2, ClaimStep
<1>3. ASSUME NEW w \in Worker, Reconcile(w)
      PROVE  QueueInv' /\ Implements
  BY <1>3, ReconcileStep
<1>4. ASSUME NEW w \in Worker, Crash(w)
      PROVE  QueueInv' /\ Implements
  BY <1>4, MovingStep
<1>5. ASSUME NEW w \in Worker, WorkerStep(w)
      PROVE  QueueInv' /\ Implements
  <2>1. worker[w].at # "idle"
    BY <1>5 DEF WorkerStep, CheckCancel, MarkSpawned, CheckUnspawned, Withdraw, MarkInterrupted,
                StartProcess, ProcessEnds, RunnerFails, RecordResult, FinalizeResult
  <2>2. PICK j \in Job : worker[w].job = j
    BY <2>1 DEF QueueInv, WorkersOK, WorkerType, WorkerOK
  <2> QED BY <1>5, <2>2, MovingStep, MarkSpawnedStep, WithdrawStep, MarkInterruptedStep,
             StartProcessStep, RecordStep, FinalizeStep DEF WorkerStep
<1>6. CASE UNCHANGED vars
  <2>1. UNCHANGED <<job, starts, asking, answers>> /\ worker' = worker
    BY <1>6 DEF vars
  <2>2. WorkersOK' /\ OneStarter'
    BY <2>1, WorkersStand DEF QueueInv
  <2> QED BY <2>1, <2>2, OnlyWorker
<1> QED BY <1>1, <1>2, <1>3, <1>4, <1>5, <1>6 DEF Next

THEOREM QueueInvariant == Spec => []QueueInv
<1>1. Init => QueueInv
  BY InitLemma
<1>2. QueueInv /\ [Next]_vars => QueueInv'
  BY StepLemma
<1> QED BY <1>1, <1>2, PTL DEF Spec

(* Rows are well formed and workers act for claims (claim_next,               *)
(* _fenced_update).                                                           *)
THEOREM QueueTypes == Spec => []TypeOK
<1>1. QueueInv => TypeOK
  <2> SUFFICES ASSUME QueueInv PROVE TypeOK
    OBVIOUS
  <2>1. \A j \in Job : job[j].owner # Nobody <=> job[j].status \in Owned
    BY DEF QueueInv, RowsOK, RowOK
  <2>2. \A w \in Worker : worker[w].job = NoJob <=> worker[w].at = "idle"
    BY DEF QueueInv, WorkersOK, WorkerOK
  <2> QED BY <2>1, <2>2 DEF QueueInv, RowsOK, WorkersOK, WorkerType, StartsOK, AnswersOK, TypeOK
<1> QED BY <1>1, QueueInvariant, PTL

(* Whatever crashes, lapses and is claimed again, a job's process starts at  *)
(* most once (mark_spawned, claim_next, reconcile_expired).                   *)
THEOREM StartsOnce == Spec => []ProcessStartsOnce
<1>1. QueueInv => ProcessStartsOnce
  BY DEF QueueInv, StartsOK, ProcessStartsOnce
<1> QED BY <1>1, QueueInvariant, PTL

(* All waits for a job are told the same outcome, and a result only of a     *)
(* process that ran (execute, _terminal_result).                              *)
THEOREM AnswersAreOne == Spec => []AnswersAgree
<1>1. QueueInv => AnswersAgree
  <2> SUFFICES ASSUME QueueInv, NEW j \in Job
               PROVE  /\ \A a, b \in answers[j] \ {"gave_up"} : a = b
                      /\ answers[j] \intersect Result # {} => starts[j] = 1
    BY DEF AnswersAgree
  <2>1. \A a \in answers[j] \ {"gave_up"} : a = Answer(job[j])
    BY DEF QueueInv, AnswersOK
  <2>2. ASSUME NEW a \in answers[j] \intersect Result
        PROVE  starts[j] = 1
    <3>1. a = Answer(job[j]) /\ a # "lost"
      BY <2>1, <2>2 DEF Result
    <3>2. job[j].result # None
      BY <3>1 DEF Answer
    <3> QED BY <3>2 DEF QueueInv, StartsOK
  <2> QED BY <2>1, <2>2
<1> QED BY <1>1, QueueInvariant, PTL

(* Every behaviour of the queue is one of the one-shot job: a start is made   *)
(* durable once, an outcome is decided once, and nothing is replayed.         *)
THEOREM JobsAreOneShot == Spec => EachJobIsOneShot
<1>1. Init => OneShot!Init
  BY InitLemma
<1>2. QueueInv /\ [Next]_vars
        => [OneShot!Next]_<<[j \in Job |-> job[j].spawned], [j \in Job |-> Outcome(job[j])]>>
  BY StepLemma DEF Implements, Started, Outcomes
<1> QED BY <1>1, <1>2, QueueInvariant, PTL DEF Spec, EachJobIsOneShot, OneShot!Spec

(* A step leaves a job that is to be cancelled unstarted: mark_spawned reads  *)
(* the request in the update that makes the start durable.                    *)
THEOREM CancelledJobsStay == Spec => CancelledNeverStarts
<1>1. ASSUME QueueInv, [Next]_vars
      PROVE  [\A j \in Job : job[j].cancel /\ ~job[j].spawned => ~job'[j].spawned]_vars
  <2>1. ASSUME NEW j \in Job, job[j].cancel, ~job[j].spawned
        PROVE  ~job'[j].spawned
    <3>1. \A i \in Job : RowOK(i, job[i]) /\ job[i] \in Row
      BY <1>1 DEF QueueInv, RowsOK
    <3>2. CASE job' = job
      BY <2>1, <3>2
    <3>3. ASSUME NEW i \in Job, NEW row, job' = [job EXCEPT ![i] = row],
                 row.spawned = job[i].spawned \/ ~job[i].cancel
          PROVE  ~job'[j].spawned
      BY <1>1, <2>1, <3>3 DEF QueueInv, RowsOK
    <3>4. ASSUME NEW i \in Job,
                 Execute(i) \/ Observe(i) \/ GiveUp(i) \/ RequestCancel(i) \/ AskerDies(i)
                     \/ LeaseExpires(i)
          PROVE  ~job'[j].spawned
      <4>1. CASE Execute(i) /\ job[i].status = "absent"
        <5>1. job' = [job EXCEPT ![i] = [job[i] EXCEPT !.status = "queued"]]
          BY <1>1, <4>1 DEF Execute, QueueInv, RowsOK
        <5>2. [job[i] EXCEPT !.status = "queued"].spawned = job[i].spawned
          BY <3>1 DEF Row
        <5> QED BY <3>3, <5>1, <5>2
      <4>2. CASE (Execute(i) /\ job[i].status # "absent") \/ Observe(i) \/ AskerDies(i)
        BY <3>2, <4>2 DEF Execute, Observe, AskerDies
      <4>3. CASE GiveUp(i) \/ RequestCancel(i)
        <5>1. job' = [job EXCEPT ![i] = Cancelled(job[i])] /\ job[i].status # "absent"
          BY <1>1, <4>3 DEF GiveUp, RequestCancel, QueueInv, AnswersOK
        <5> QED BY <3>1, <3>3, <5>1, CancelledRow
      <4>4. CASE LeaseExpires(i)
        <5>1. job' = [job EXCEPT ![i] = [job[i] EXCEPT !.live = FALSE]]
          BY <4>4 DEF LeaseExpires
        <5>2. [job[i] EXCEPT !.live = FALSE].spawned = job[i].spawned
          BY <3>1 DEF Row
        <5> QED BY <3>3, <5>1, <5>2
      <4> QED BY <3>4, <4>1, <4>2, <4>3, <4>4
    <3>5. ASSUME NEW w \in Worker, NEW i \in Job, ClaimNext(w, i)
          PROVE  ~job'[j].spawned
      <4>1. job' = [job EXCEPT ![i] = Claimed(job[i], w)] /\ Claimable(job[i])
        BY <3>5 DEF ClaimNext
      <4>2. RowOK(i, job[i])
        BY <3>1
      <4>3. Claimed(job[i], w).spawned = job[i].spawned
        BY <4>1, <4>2, ClaimedRow
      <4> QED BY <3>3, <4>1, <4>3
    <3>6. ASSUME NEW w \in Worker, Reconcile(w)
          PROVE  ~job'[j].spawned
      BY <2>1, <3>1, <3>6, RecoveredRow DEF Reconcile
    <3>7. ASSUME NEW w \in Worker, WorkerStep(w) \/ Crash(w)
          PROVE  ~job'[j].spawned
      <4>1. worker[w].at # "idle"
        BY <3>7 DEF WorkerStep, CheckCancel, MarkSpawned, CheckUnspawned, Withdraw, Crash,
                    MarkInterrupted, StartProcess, ProcessEnds, RunnerFails, RecordResult,
                    FinalizeResult
      <4>2. PICK i \in Job : worker[w].job = i
        BY <1>1, <4>1 DEF QueueInv, WorkersOK, WorkerType, WorkerOK
      <4>3. job[i] \in Row
        BY <3>1
      <4>4. CASE MarkSpawned(w) /\ Holds(w) /\ Spawnable(Mine(w))
        <5>1. ~job[i].cancel
          BY <4>2, <4>4 DEF Mine, Spawnable
        <5> QED BY <3>3, <4>2, <4>4, <5>1 DEF MarkSpawned
      <4>5. CASE Withdraw(w) \/ MarkInterrupted(w) \/ FinalizeResult(w) \/ RecordResult(w)
        <5> DEFINE Kept(row) == row.spawned = job[i].spawned
        <5>1. /\ Kept(Ended([job[i] EXCEPT !.cancel = TRUE], "cancelled"))
              /\ Kept(Ended(job[i], "interrupted"))
              /\ Kept(Ended(job[i], StatusOf[job[i].result]))
              /\ Kept([job[i] EXCEPT !.status = "result_recorded", !.result = worker[w].result])
          BY <4>3 DEF Ended, Row
        <5>2. \/ job' = job
              \/ job' = [job EXCEPT ![i] = Ended([job[i] EXCEPT !.cancel = TRUE], "cancelled")]
              \/ job' = [job EXCEPT ![i] = Ended(job[i], "interrupted")]
              \/ job' = [job EXCEPT ![i] = Ended(job[i], StatusOf[job[i].result])]
              \/ job' = [job EXCEPT ![i] = [job[i] EXCEPT !.status = "result_recorded",
                                                          !.result = worker[w].result]]
          BY <4>2, <4>5 DEF Withdraw, MarkInterrupted, FinalizeResult, RecordResult
        <5> QED BY <3>2, <3>3, <5>1, <5>2
      <4>6. CASE job' = job
        BY <3>2, <4>6
      <4> QED BY <3>7, <4>4, <4>5, <4>6
            DEF WorkerStep, CheckCancel, MarkSpawned, CheckUnspawned, Crash, StartProcess,
                ProcessEnds, RunnerFails
    <3> QED BY <1>1, <3>2, <3>4, <3>5, <3>6, <3>7 DEF Next, vars
  <2> QED BY <2>1
<1> QED BY <1>1, QueueInvariant, PTL DEF Spec, CancelledNeverStarts

=============================================================================
