------------------------ MODULE WorkflowKernelProofs ------------------------
(***************************************************************************)
(* Theorems about WorkflowKernel, for every set of runs, nodes and         *)
(* instructions and every plan.                                            *)
(***************************************************************************)
EXTENDS WorkflowKernel, TLAPS

(* Each transaction piece keeps the tables well formed. *)

LEMMA SetNodesType ==
    ASSUME node \in NodeTable, NEW N, NEW status \in NodeStatus
    PROVE  SetNodes(N, status) \in NodeTable
BY DEF SetNodes, NodeTable

LEMMA SettleAttemptType ==
    ASSUME attempt \in AttemptTable, NEW n \in Node, NEW k \in AttemptNo,
           NEW status \in AttemptStatus
    PROVE  SettleAttempt(n, k, status) \in AttemptTable
BY DEF SettleAttempt, AttemptTable

LEMMA CancelAttemptsType ==
    ASSUME NEW attempts \in AttemptTable, NEW R
    PROVE  CancelAttempts(attempts, R) \in AttemptTable
BY DEF CancelAttempts, AttemptTable, AttemptStatus

LEMMA LoseAttemptsType ==
    ASSUME NEW attempts \in AttemptTable, NEW A
    PROVE  LoseAttempts(attempts, A) \in AttemptTable
BY DEF LoseAttempts, AttemptTable, AttemptStatus

LEMMA LoseNodesType ==
    ASSUME NEW nodes \in NodeTable, NEW N, NEW o \in LostOutcomes(N)
    PROVE  LoseNodes(nodes, o) \in NodeTable
BY DEF LoseNodes, NodeTable, LostOutcomes, NodeStatus, NodeOpen, NodeTerminal

LEMMA LoseRunsType ==
    ASSUME NEW runs \in RunTable, NEW attempts, NEW o
    PROVE  LoseRuns(runs, attempts, o) \in RunTable
BY DEF LoseRuns, RunTable, RunStatus, RunTerminal, RunWaiting

LEMMA ExpireNodesType ==
    ASSUME node \in NodeTable
    PROVE  ExpireNodes \in NodeTable
BY DEF ExpireNodes, NodeTable, NodeStatus, NodeTerminal

LEMMA ExpireRunsType ==
    ASSUME run \in RunTable
    PROVE  ExpireRuns \in RunTable
<1>1. \A r \in Run : run[r].cancellation + 1 \in Nat
  BY DEF RunTable
<1>2. "failed" \in RunStatus /\ FALSE \in BOOLEAN
  BY DEF RunStatus, RunTerminal
<1>3. QED
  BY <1>1, <1>2 DEF ExpireRuns, RunTable

LEMMA InsertPlanType ==
    ASSUME NEW nodes \in NodeTable, NEW P
    PROVE  InsertPlan(nodes, P) \in NodeTable
BY BudgetAssumption DEF InsertPlan, NodeTable, NodeStatus, NodeOpen

LEMMA PromoteDependentsType ==
    ASSUME NEW nodes \in NodeTable, NEW r, NEW revision
    PROVE  PromoteDependents(nodes, r, revision) \in NodeTable
BY DEF PromoteDependents, NodeTable, NodeStatus, NodeOpen

LEMMA SettledStatusType ==
    ASSUME NEW nodes, NEW attempts, NEW r
    PROVE  SettledStatus(nodes, attempts, r) \in RunStatus
BY DEF SettledStatus, RunStatus, RunTerminal, RunWaiting

-----------------------------------------------------------------------------
(* Type correctness, one lemma per kind of transaction. *)

LEMMA InitType == Init => TypeOK
BY BudgetAssumption DEF Init, TypeOK, RunTable, NodeTable, AttemptTable, InstructionTable,
   RunStatus, NodeStatus, AttemptStatus

LEMMA ClaimReadyType ==
    ASSUME TypeOK, NEW limit, NEW reserve, ClaimReady(limit, reserve)
    PROVE  TypeOK'
<1> DEFINE swept == LoseAttempts(CancelAttempts(attempt, Overdue), Reclaimable)
<1>1. PICK o \in LostOutcomes({a[1] : a \in Reclaimable}), S \in SUBSET Node :
        LET nodes == LoseNodes(ExpireNodes, o)
            runs == LoseRuns(ExpireRuns, swept, o)
        IN  /\ Selection(nodes, runs, S, limit, reserve)
            /\ node' = [n \in Node |->
                  IF n \in S THEN [nodes[n] EXCEPT !.status = "running", !.attempts = @ + 1]
                  ELSE nodes[n]]
            /\ attempt' = [a \in Node \X AttemptNo |->
                  IF a[1] \in S /\ a[2] = nodes[a[1]].attempts + 1
                  THEN [status |-> "running", live |-> TRUE,
                        cancellation |-> runs[RunOf[a[1]]].cancellation]
                  ELSE swept[a]]
            /\ run' = [r \in Run |->
                  IF \E n \in S : RunOf[n] = r THEN [runs[r] EXCEPT !.status = "running"]
                  ELSE runs[r]]
  BY DEF ClaimReady
<1> DEFINE nodes == LoseNodes(ExpireNodes, o)
           runs == LoseRuns(ExpireRuns, swept, o)
<1>2. nodes \in NodeTable
  BY ExpireNodesType, LoseNodesType DEF TypeOK
<1>3. runs \in RunTable
  BY ExpireRunsType, LoseRunsType DEF TypeOK
<1>4. swept \in AttemptTable
  BY CancelAttemptsType, LoseAttemptsType DEF TypeOK
<1>5. \A n \in S : nodes[n].attempts + 1 \in 0..AttemptCap
  <2>1. \A n \in S : nodes[n].attempts < AttemptCap
    BY <1>1 DEF Selection, Candidates
  <2>2. QED
    BY <1>2, <2>1, BudgetAssumption DEF NodeTable
<1> HIDE DEF nodes, runs, swept
<1>6. node' \in NodeTable
  BY <1>1, <1>2, <1>5 DEF NodeTable, NodeStatus, NodeOpen, nodes
<1>7. run' \in RunTable
  BY <1>1, <1>3 DEF RunTable, RunStatus, runs
<1>8. attempt' \in AttemptTable
  <2>1. \A a \in Node \X AttemptNo : runs[RunOf[a[1]]].cancellation \in Nat
    BY <1>3, IdentityAssumption DEF RunTable
  <2>2. QED
    BY <1>1, <1>4, <2>1 DEF AttemptTable, AttemptStatus, runs, nodes
<1>9. QED
  BY <1>6, <1>7, <1>8 DEF TypeOK, ClaimReady

(* Settling a claim. *)
LEMMA FailRunType ==
    ASSUME TypeOK, NEW n \in Node, NEW k \in AttemptNo, FailRun(n, k)
    PROVE  TypeOK'
<1>1. run[RunOf[n]].cancellation + 1 \in Nat /\ RunOf[n] \in Run
  BY IdentityAssumption DEF TypeOK, RunTable
<1>2. run' \in RunTable
  BY <1>1 DEF FailRun, TypeOK, RunTable, RunStatus, RunTerminal
<1>3. node' \in NodeTable
  BY DEF FailRun, TypeOK, NodeTable, NodeStatus, NodeTerminal
<1>4. attempt' \in AttemptTable
  <2>1. CancelAttempts(attempt, {RunOf[n]}) \in AttemptTable
    BY CancelAttemptsType DEF TypeOK
  <2>2. attempt' = [CancelAttempts(attempt, {RunOf[n]}) EXCEPT ![<<n, k>>] =
                      [@ EXCEPT !.status = "failed", !.live = FALSE]]
    BY DEF FailRun
  <2>3. QED
    BY <2>1, <2>2 DEF AttemptTable, AttemptStatus
<1>5. QED
  BY <1>2, <1>3, <1>4 DEF TypeOK, FailRun

LEMMA PostponeType ==
    ASSUME TypeOK, NEW n \in Node, NEW k \in AttemptNo, NEW status \in AttemptStatus,
           Postpone(n, k, status)
    PROVE  TypeOK'
<1>1. run' \in RunTable
  BY IdentityAssumption DEF Postpone, TypeOK, RunTable, RunStatus
<1>2. node' \in NodeTable
  BY DEF Postpone, TypeOK, NodeTable, NodeStatus, NodeOpen
<1>3. attempt' \in AttemptTable
  BY SettleAttemptType DEF Postpone, TypeOK
<1>4. QED
  BY <1>1, <1>2, <1>3 DEF TypeOK, Postpone

LEMMA WaitForType ==
    ASSUME TypeOK, NEW n \in Node, NEW k \in AttemptNo, NEW waiting \in RunWaiting,
           WaitFor(n, k, waiting)
    PROVE  TypeOK'
<1>1. waiting \in RunStatus /\ waiting \in NodeStatus
  BY DEF RunWaiting, RunStatus, NodeStatus, NodeOpen, NodeWaiting
<1>2. run' \in RunTable
  BY <1>1, IdentityAssumption DEF WaitFor, TypeOK, RunTable
<1>3. node' \in NodeTable
  BY <1>1, SetNodesType DEF WaitFor, TypeOK
<1>4. attempt' \in AttemptTable
  BY SettleAttemptType DEF WaitFor, TypeOK, AttemptStatus
<1>5. QED
  BY <1>2, <1>3, <1>4 DEF TypeOK, WaitFor

LEMMA CompleteType ==
    ASSUME TypeOK, NEW n \in Node, NEW k \in AttemptNo, Complete(n, k)
    PROVE  TypeOK'
<1> DEFINE settled == SettleAttempt(n, k, "succeeded")
           promoted == PromoteDependents(SetNodes({n}, "succeeded"), RunOf[n], RevisionOf[n])
<1>1. settled \in AttemptTable
  BY SettleAttemptType DEF TypeOK, AttemptStatus
<1>2. promoted \in NodeTable
  BY SetNodesType, PromoteDependentsType DEF TypeOK, NodeStatus, NodeTerminal
<1>3. SettledStatus(promoted, settled, RunOf[n]) \in RunStatus
  BY SettledStatusType
<1>4. /\ attempt' = settled
      /\ node' = promoted
      /\ run' = [run EXCEPT ![RunOf[n]].status = SettledStatus(promoted, settled, RunOf[n])]
      /\ UNCHANGED instruction
  BY DEF Complete
<1> HIDE DEF settled, promoted
<1>5. run' \in RunTable
  BY <1>3, <1>4, IdentityAssumption DEF TypeOK, RunTable
<1>6. QED
  BY <1>1, <1>2, <1>4, <1>5 DEF TypeOK

LEMMA SettleType ==
    ASSUME TypeOK, NEW n \in Node, NEW k \in AttemptNo, Settle(n, k)
    PROVE  TypeOK'
<1>1. CASE Complete(n, k)
  BY <1>1, CompleteType
<1>2. CASE Retry(n, k)
  BY <1>2, FailRunType, PostponeType DEF Retry, AttemptStatus
<1>3. CASE Defer(n, k)
  BY <1>3, FailRunType, PostponeType DEF Defer, AttemptStatus
<1>4. CASE Fail(n, k)
  BY <1>4, FailRunType DEF Fail
<1>5. CASE WaitForApproval(n, k)
  BY <1>5, WaitForType DEF WaitForApproval, RunWaiting
<1>6. CASE WaitForInput(n, k)
  BY <1>6, WaitForType DEF WaitForInput, RunWaiting
<1>7. QED
  BY <1>1, <1>2, <1>3, <1>4, <1>5, <1>6 DEF Settle

(* Losing, renewing and the passage of time. *)
LEMMA AbandonType ==
    ASSUME TypeOK, NEW n \in Node, NEW k \in AttemptNo, Abandon(n, k)
    PROVE  TypeOK'
<1>1. PICK o \in LostOutcomes({n}) :
        /\ node' = LoseNodes(node, o)
        /\ run' = LoseRuns(run, LoseAttempts(attempt, {<<n, k>>}), o)
  BY DEF Abandon
<1>2. attempt' \in AttemptTable
  BY LoseAttemptsType DEF Abandon, TypeOK
<1>3. QED
  BY <1>1, <1>2, LoseNodesType, LoseRunsType DEF TypeOK, Abandon

LEMMA RenewType ==
    ASSUME TypeOK, NEW n \in Node, NEW k \in AttemptNo, Renew(n, k)
    PROVE  TypeOK'
BY ExpireNodesType, ExpireRunsType, CancelAttemptsType DEF Renew, TypeOK

LEMMA TimeType ==
    ASSUME TypeOK,
           \/ \E n \in Node, k \in AttemptNo : LeaseExpires(n, k)
           \/ \E n \in Node : BecomesDue(n)
           \/ \E r \in Run : DeadlinePasses(r)
    PROVE  TypeOK'
<1>1. ASSUME NEW n \in Node, NEW k \in AttemptNo, LeaseExpires(n, k)
      PROVE  TypeOK'
  BY <1>1 DEF LeaseExpires, TypeOK, AttemptTable
<1>2. ASSUME NEW n \in Node, BecomesDue(n)
      PROVE  TypeOK'
  BY <1>2 DEF BecomesDue, TypeOK, NodeTable
<1>3. ASSUME NEW r \in Run, DeadlinePasses(r)
      PROVE  TypeOK'
  <2>1. run \in RunTable
    BY DEF TypeOK
  <2>2. run' \in RunTable
    BY <1>3, <2>1 DEF DeadlinePasses, RunTable
  <2>3. QED
    BY <1>3, <2>2 DEF DeadlinePasses, TypeOK
<1>4. QED
  BY <1>1, <1>2, <1>3

(* What users and the owners of a run ask for. *)
LEMMA RequestType ==
    ASSUME TypeOK, NEW r \in Run,
           \/ Create(r)
           \/ RequestPause(r)
           \/ Resume(r)
           \/ Cancel(r)
           \/ UpgradeBudget(r)
    PROVE  TypeOK'
<1>1. CASE Create(r)
  <2>1. run' \in RunTable
    BY <1>1 DEF Create, TypeOK, RunTable, RunStatus
  <2>2. node' \in NodeTable
    BY <1>1, InsertPlanType DEF Create, TypeOK
  <2>3. QED
    BY <1>1, <2>1, <2>2 DEF Create, TypeOK
<1>2. CASE RequestPause(r)
  <2>1. run' \in RunTable
    BY <1>2 DEF RequestPause, TypeOK, RunTable, RunStatus
  <2>2. QED
    BY <1>2, <2>1 DEF RequestPause, TypeOK
<1>3. CASE Resume(r)
  <2>1. node' \in NodeTable
    BY <1>3, SetNodesType DEF Resume, TypeOK, NodeStatus, NodeOpen
  <2>2. run' \in RunTable
    BY <1>3 DEF Resume, TypeOK, RunTable, RunStatus
  <2>3. QED
    BY <1>3, <2>1, <2>2 DEF Resume, TypeOK
<1>4. CASE Cancel(r)
  <2>1. run[r].cancellation + 1 \in Nat
    BY DEF TypeOK, RunTable
  <2>2. run' \in RunTable
    BY <1>4, <2>1 DEF Cancel, TypeOK, RunTable, RunStatus, RunTerminal
  <2>3. node' \in NodeTable
    BY <1>4, SetNodesType DEF Cancel, TypeOK, NodeStatus, NodeTerminal
  <2>4. attempt' \in AttemptTable
    BY <1>4, CancelAttemptsType DEF Cancel, TypeOK
  <2>5. QED
    BY <1>4, <2>2, <2>3, <2>4 DEF Cancel, TypeOK
<1>5. CASE UpgradeBudget(r)
  BY <1>5 DEF UpgradeBudget, TypeOK, RunTable
<1>6. QED
  BY <1>1, <1>2, <1>3, <1>4, <1>5

LEMMA SteeringType ==
    ASSUME TypeOK, NEW r \in Run, NEW i,
           (i \in Instruction /\ AddInstruction(r, i)) \/ AppendPlan(r, i)
    PROVE  TypeOK'
<1>1. run[r].revision \in Nat /\ run[r].revision + 1 \in Nat
  BY DEF TypeOK, RunTable
<1>2. CASE i \in Instruction /\ AddInstruction(r, i)
  BY <1>1, <1>2 DEF AddInstruction, TypeOK, InstructionTable
<1>3. CASE AppendPlan(r, i)
  <2>1. node' \in NodeTable
    BY <1>3, SetNodesType, InsertPlanType DEF AppendPlan, TypeOK, NodeStatus, NodeTerminal
  <2>2. run' \in RunTable
    <3>1. run' = [run EXCEPT ![r] = [@ EXCEPT !.revision = run[r].revision + 1,
                                              !.status = "queued", !.pause = FALSE]]
      BY <1>3 DEF AppendPlan
    <3>2. "queued" \in RunStatus
      BY DEF RunStatus
    <3>3. QED
      BY <1>1, <3>1, <3>2 DEF TypeOK, RunTable
  <2>3. instruction' \in InstructionTable
    BY <1>1, <1>3 DEF AppendPlan, TypeOK, InstructionTable
  <2>4. QED
    BY <1>3, <2>1, <2>2, <2>3 DEF AppendPlan, TypeOK
<1>4. QED
  BY <1>2, <1>3

LEMMA NextType == TypeOK /\ [Next]_vars => TypeOK'
<1> SUFFICES ASSUME TypeOK, [Next]_vars PROVE TypeOK'
  OBVIOUS
<1>1. CASE \E limit \in 1..MaxLimit, reserve \in BOOLEAN : ClaimReady(limit, reserve)
  BY <1>1, ClaimReadyType
<1>2. CASE \E n \in Node, k \in AttemptNo :
             Settle(n, k) \/ Abandon(n, k) \/ Renew(n, k) \/ LeaseExpires(n, k)
  BY <1>2, SettleType, AbandonType, RenewType, TimeType
<1>3. ASSUME NEW r \in Run,
             Create(r) \/ RequestPause(r) \/ Resume(r) \/ Cancel(r) \/ UpgradeBudget(r)
      PROVE  TypeOK'
  BY <1>3, RequestType
<1>4. ASSUME NEW r \in Run,
             \/ \E i \in Instruction : AddInstruction(r, i)
             \/ \E i \in Instruction \union {None} : AppendPlan(r, i)
      PROVE  TypeOK'
  BY <1>4, SteeringType
<1>5. CASE \/ \E r \in Run : DeadlinePasses(r)
           \/ \E n \in Node : BecomesDue(n)
  BY <1>5, TimeType
<1>6. CASE UNCHANGED vars
  BY <1>6 DEF vars, TypeOK
<1>7. QED
  BY <1>1, <1>2, <1>3, <1>4, <1>5, <1>6 DEF Next

(* Every reachable row of the four tables is one the schema admits: no        *)
(* transaction of the kernel writes a status of the wrong kind or an attempt  *)
(* number past its bound.                                                     *)
THEOREM TypeCorrect == Spec => []TypeOK
<1>1. QED
  BY InitType, NextType, PTL DEF Spec

-----------------------------------------------------------------------------
(* The inductive invariant, stated of tables so that it can be followed       *)
(* through the stages of one transaction.                                     *)

Matched(nodes, attempts) ==
    \A n \in Node, k \in AttemptNo :
        attempts[<<n, k>>].status = "running"
            <=> nodes[n].status = "running" /\ nodes[n].attempts = k

Planned(nodes, runs) ==
    \A n \in Node :
        /\ nodes[n].status # "absent"
              => runs[RunOf[n]].status # "absent" /\ RevisionOf[n] <= runs[RunOf[n]].revision
        /\ nodes[n].status \in NodeOpen => RevisionOf[n] = runs[RunOf[n]].revision
        /\ nodes[n].status = "superseded" => RevisionOf[n] < runs[RunOf[n]].revision
        /\ nodes[n].status = "running" => nodes[n].attempts >= 1

Quiet(nodes, runs) ==
    \A r \in Run :
        runs[r].status = "paused"
            => runs[r].pause /\ \A n \in Node : RunOf[n] = r => nodes[n].status # "running"

Done(nodes, runs) ==
    \A n \in Node :
        /\ runs[RunOf[n]].status \in {"completed", "cancelled"} => nodes[n].status \notin NodeOpen
        /\ runs[RunOf[n]].status = "completed" /\ RevisionOf[n] = runs[RunOf[n]].revision
              => nodes[n].status = "succeeded"

KernelInv ==
    /\ TypeOK
    /\ Matched(node, attempt)
    /\ Planned(node, run)
    /\ Quiet(node, run)
    /\ Done(node, run)

LEMMA KernelInvParts ==
    ASSUME KernelInv
    PROVE  OneAttemptInFlight /\ PlansAreHistory /\ PausedIsQuiet /\ FinishedIsDone
<1>1. OneAttemptInFlight
  BY DEF KernelInv, Matched, OneAttemptInFlight
<1>2. PlansAreHistory
  BY DEF KernelInv, Planned, PlansAreHistory
<1>3. PausedIsQuiet
  BY DEF KernelInv, Quiet, PausedIsQuiet, Busy
<1>4. FinishedIsDone
  BY DEF KernelInv, Done, FinishedIsDone, ActivePlan, Plan
<1>5. QED
  BY <1>1, <1>2, <1>3, <1>4

LEMMA InitInv == Init => KernelInv
<1> SUFFICES ASSUME Init PROVE KernelInv
  OBVIOUS
<1>1. TypeOK
  BY InitType
<1>2. Matched(node, attempt)
  BY DEF Init, Matched
<1>3. Planned(node, run)
  BY DEF Init, Planned, NodeOpen, NodeWaiting
<1>4. Quiet(node, run)
  BY DEF Init, Quiet
<1>5. Done(node, run)
  BY IdentityAssumption DEF Init, Done
<1>6. QED
  BY <1>1, <1>2, <1>3, <1>4, <1>5 DEF KernelInv

(* A run with a running node has a running attempt, and conversely. *)
LEMMA BusyIffAttempt ==
    ASSUME NEW nodes \in NodeTable, NEW attempts, NEW runs, NEW r \in Run,
           Matched(nodes, attempts), Planned(nodes, runs)
    PROVE  HasRunningAttempt(attempts, r)
               <=> \E n \in Node : RunOf[n] = r /\ nodes[n].status = "running"
<1>1. ASSUME NEW n \in Node, RunOf[n] = r, nodes[n].status = "running"
      PROVE  HasRunningAttempt(attempts, r)
  <2>1. nodes[n].attempts \in AttemptNo
    BY <1>1, BudgetAssumption DEF Planned, NodeTable, AttemptNo
  <2>2. attempts[<<n, nodes[n].attempts>>].status = "running"
    BY <1>1, <2>1 DEF Matched
  <2>3. QED
    BY <1>1, <2>1, <2>2 DEF HasRunningAttempt
<1>2. ASSUME HasRunningAttempt(attempts, r)
      PROVE  \E n \in Node : RunOf[n] = r /\ nodes[n].status = "running"
  BY <1>2 DEF HasRunningAttempt, Matched
<1>3. QED
  BY <1>1, <1>2

LEMMA CancelAttemptsEffect ==
    ASSUME NEW attempts \in AttemptTable, NEW R, NEW n \in Node, NEW k \in AttemptNo
    PROVE  CancelAttempts(attempts, R)[<<n, k>>].status = "running"
               <=> attempts[<<n, k>>].status = "running" /\ RunOf[n] \notin R
<1>1. attempts[<<n, k>>] \in [status : AttemptStatus, cancellation : Nat, live : BOOLEAN]
  BY DEF AttemptTable
<1>2. CancelAttempts(attempts, R)[<<n, k>>] =
          IF RunOf[n] \in R /\ attempts[<<n, k>>].status = "running"
          THEN [attempts[<<n, k>>] EXCEPT !.status = "cancelled", !.live = FALSE]
          ELSE attempts[<<n, k>>]
  BY Zenon DEF CancelAttempts
<1>3. [attempts[<<n, k>>] EXCEPT !.status = "cancelled", !.live = FALSE].status = "cancelled"
  BY <1>1
<1>4. QED
  BY <1>2, <1>3

(* Failing the overdue runs keeps the tables consistent. *)
LEMMA ExpireStage ==
    ASSUME KernelInv
    PROVE  /\ Matched(ExpireNodes, CancelAttempts(attempt, Overdue))
           /\ Planned(ExpireNodes, ExpireRuns)
           /\ Quiet(ExpireNodes, ExpireRuns)
           /\ Done(ExpireNodes, ExpireRuns)
<1> DEFINE nodes == ExpireNodes
           attempts == CancelAttempts(attempt, Overdue)
           runs == ExpireRuns
<1>1. \A n \in Node :
        /\ RunOf[n] \in Overdue /\ node[n].status \in NodeOpen => nodes[n].status = "cancelled"
        /\ ~(RunOf[n] \in Overdue /\ node[n].status \in NodeOpen)
              => nodes[n].status = node[n].status
        /\ nodes[n].attempts = node[n].attempts
  BY DEF ExpireNodes, KernelInv, TypeOK, NodeTable
<1>2. \A n \in Node, k \in AttemptNo :
        attempts[<<n, k>>].status = "running"
            <=> attempt[<<n, k>>].status = "running" /\ RunOf[n] \notin Overdue
  BY CancelAttemptsEffect DEF KernelInv, TypeOK
<1>3. \A r \in Run :
        /\ r \in Overdue => runs[r].status = "failed" /\ run[r].status # "absent"
        /\ r \notin Overdue => runs[r].status = run[r].status
        /\ runs[r].revision = run[r].revision
        /\ r \notin Overdue => runs[r].pause = run[r].pause
  BY DEF ExpireRuns, Overdue, Live, KernelInv, TypeOK, RunTable
<1>4. /\ Matched(node, attempt)
      /\ Planned(node, run)
      /\ Quiet(node, run)
      /\ Done(node, run)
      /\ \A n \in Node : RunOf[n] \in Run
  BY IdentityAssumption DEF KernelInv
<1>5. "running" \in NodeOpen /\ "cancelled" \notin NodeOpen
  BY DEF NodeOpen, NodeWaiting
<1> HIDE DEF nodes, attempts, runs
<1>6. Matched(nodes, attempts)
  <2>1. \A n \in Node : nodes[n].status = "running"
                            <=> node[n].status = "running" /\ RunOf[n] \notin Overdue
    <3>1. SUFFICES ASSUME NEW n \in Node
                   PROVE  nodes[n].status = "running"
                              <=> node[n].status = "running" /\ RunOf[n] \notin Overdue
      OBVIOUS
    <3>2. CASE RunOf[n] \in Overdue /\ node[n].status \in NodeOpen
      BY <1>1, <3>2
    <3>3. CASE ~(RunOf[n] \in Overdue /\ node[n].status \in NodeOpen)
      BY <1>1, <1>5, <3>3
    <3>4. QED
      BY <3>2, <3>3
  <2>2. ASSUME NEW n \in Node, NEW k \in AttemptNo
        PROVE  attempts[<<n, k>>].status = "running"
                  <=> nodes[n].status = "running" /\ nodes[n].attempts = k
    <3>1. attempts[<<n, k>>].status = "running"
              <=> attempt[<<n, k>>].status = "running" /\ RunOf[n] \notin Overdue
      BY <1>2
    <3>2. attempt[<<n, k>>].status = "running"
              <=> node[n].status = "running" /\ node[n].attempts = k
      BY <1>4 DEF Matched
    <3>3. QED
      BY <1>1, <2>1, <3>1, <3>2
  <2>3. QED
    BY <2>2 DEF Matched
<1>7. Planned(nodes, runs)
  <2>1. \A n \in Node : /\ runs[RunOf[n]].revision = run[RunOf[n]].revision
                        /\ runs[RunOf[n]].status = "absent" => run[RunOf[n]].status = "absent"
    BY <1>3, <1>4
  <2>2. \A n \in Node : \/ nodes[n].status = node[n].status
                        \/ nodes[n].status = "cancelled" /\ node[n].status \in NodeOpen
    <3>1. SUFFICES ASSUME NEW n \in Node
                   PROVE  \/ nodes[n].status = node[n].status
                          \/ nodes[n].status = "cancelled" /\ node[n].status \in NodeOpen
      OBVIOUS
    <3>2. CASE RunOf[n] \in Overdue /\ node[n].status \in NodeOpen
      BY <1>1, <3>2
    <3>3. CASE ~(RunOf[n] \in Overdue /\ node[n].status \in NodeOpen)
      BY <1>1, <3>3
    <3>4. QED
      BY <3>2, <3>3
  <2>3. "absent" \notin NodeOpen
    BY DEF NodeOpen, NodeWaiting
  <2>4. ASSUME NEW n \in Node
        PROVE  /\ nodes[n].status # "absent" => node[n].status # "absent"
               /\ nodes[n].status \in NodeOpen => node[n].status \in NodeOpen
               /\ nodes[n].status = "superseded" => node[n].status = "superseded"
               /\ nodes[n].status = "running" => node[n].status = "running"
    BY <1>5, <2>2, <2>3
  <2>5. QED
    <3>1. ASSUME NEW n \in Node
          PROVE  /\ nodes[n].status # "absent"
                       => runs[RunOf[n]].status # "absent"
                            /\ RevisionOf[n] <= runs[RunOf[n]].revision
                 /\ nodes[n].status \in NodeOpen => RevisionOf[n] = runs[RunOf[n]].revision
                 /\ nodes[n].status = "superseded" => RevisionOf[n] < runs[RunOf[n]].revision
                 /\ nodes[n].status = "running" => nodes[n].attempts >= 1
      BY <1>1, <1>4, <2>1, <2>4 DEF Planned
    <3>2. QED
      BY <3>1 DEF Planned
<1>8. Quiet(nodes, runs)
  BY <1>1, <1>3, <1>4 DEF Quiet
<1>9. Done(nodes, runs)
  BY <1>1, <1>3, <1>4, <1>5 DEF Done
<1>10. QED
  BY <1>6, <1>7, <1>8, <1>9 DEF nodes, attempts, runs

(* So does giving up a set A of running attempts, whatever becomes of their   *)
(* nodes.                                                                     *)
LEMMA LoseStage ==
    ASSUME NEW nodes \in NodeTable, NEW attempts \in AttemptTable, NEW runs \in RunTable,
           Matched(nodes, attempts), Planned(nodes, runs), Quiet(nodes, runs), Done(nodes, runs),
           NEW A \in SUBSET (Node \X AttemptNo),
           \A a \in A : attempts[a].status = "running",
           NEW o \in [{a[1] : a \in A} -> {"ready", "failed", "cancelled"}]
    PROVE  /\ Matched(LoseNodes(nodes, o), LoseAttempts(attempts, A))
           /\ Planned(LoseNodes(nodes, o), LoseRuns(runs, LoseAttempts(attempts, A), o))
           /\ Quiet(LoseNodes(nodes, o), LoseRuns(runs, LoseAttempts(attempts, A), o))
           /\ Done(LoseNodes(nodes, o), LoseRuns(runs, LoseAttempts(attempts, A), o))
<1> DEFINE N == {a[1] : a \in A}
           after == LoseNodes(nodes, o)
           left == LoseAttempts(attempts, A)
           settled == LoseRuns(runs, left, o)
<1>1. \A n \in N : n \in Node /\ nodes[n].status = "running" /\ <<n, nodes[n].attempts>> \in A
  BY DEF Matched
<1>2. \A n \in Node : /\ n \in N => after[n].status = o[n]
                      /\ n \notin N => after[n] = nodes[n]
                      /\ after[n].attempts = nodes[n].attempts
  BY <1>1 DEF LoseNodes, NodeTable
<1>3. \A n \in N : o[n] \in {"ready", "failed", "cancelled"}
  OBVIOUS
<1>4. \A r \in Run : /\ settled[r].revision = runs[r].revision
                     /\ settled[r].pause = runs[r].pause
                     /\ \/ settled[r] = runs[r]
                        \/ /\ runs[r].status \notin RunTerminal
                           /\ \E n \in N : RunOf[n] = r
                           /\ settled[r].status \in {"failed", "queued", "paused"}
  BY DEF LoseRuns, RunTable
<1>5. Matched(after, left)
  <2>1. ASSUME NEW n \in Node, NEW k \in AttemptNo
        PROVE  left[<<n, k>>].status = "running"
                  <=> attempts[<<n, k>>].status = "running" /\ <<n, k>> \notin A
    BY DEF LoseAttempts, AttemptTable
  <2>2. \A n \in Node, k \in AttemptNo : <<n, k>> \in A => n \in N
    OBVIOUS
  <2> HIDE DEF left, after, N
  <2>3. ASSUME NEW n \in Node, NEW k \in AttemptNo, n \in N
        PROVE  left[<<n, k>>].status # "running" /\ after[n].status # "running"
    BY <1>1, <1>2, <1>3, <2>1, <2>3 DEF Matched
  <2>4. ASSUME NEW n \in Node, NEW k \in AttemptNo, n \notin N
        PROVE  left[<<n, k>>].status = "running"
                  <=> after[n].status = "running" /\ after[n].attempts = k
    <3>1. left[<<n, k>>].status = "running" <=> attempts[<<n, k>>].status = "running"
      BY <2>1, <2>2, <2>4
    <3>2. after[n] = nodes[n]
      BY <1>2, <2>4
    <3>3. attempts[<<n, k>>].status = "running"
              <=> nodes[n].status = "running" /\ nodes[n].attempts = k
      BY DEF Matched
    <3>4. QED
      BY <3>1, <3>2, <3>3
  <2>5. QED
    BY <2>3, <2>4 DEF Matched
<1>6. Planned(after, settled)
  <2>1. \A r \in Run : settled[r].status = "absent" => runs[r].status = "absent"
    BY <1>4
  <2>2. "running" \in NodeOpen /\ \A n \in Node : RunOf[n] \in Run
    BY IdentityAssumption DEF NodeOpen
  <2> HIDE DEF left, after, settled, N
  <2>3. ASSUME NEW n \in N
        PROVE  /\ settled[RunOf[n]].status # "absent"
               /\ RevisionOf[n] = settled[RunOf[n]].revision
               /\ after[n].status \notin {"superseded", "running"}
               /\ RevisionOf[n] <= settled[RunOf[n]].revision
    <4>1. /\ runs[RunOf[n]].status # "absent"
          /\ RevisionOf[n] <= runs[RunOf[n]].revision
          /\ RevisionOf[n] = runs[RunOf[n]].revision
      BY <1>1, <2>2 DEF Planned
    <4>2. QED
      BY <1>1, <1>2, <1>3, <1>4, <2>1, <2>2, <4>1
  <2>4. ASSUME NEW n \in Node, n \notin N
        PROVE  /\ after[n] = nodes[n]
               /\ settled[RunOf[n]].status = "absent" => runs[RunOf[n]].status = "absent"
               /\ settled[RunOf[n]].revision = runs[RunOf[n]].revision
    BY <1>2, <1>4, <2>1, <2>2, <2>4
  <2>5. QED
    BY <1>1, <2>3, <2>4 DEF Planned
<1>7. Quiet(after, settled)
  <2>1. ASSUME NEW r \in Run, settled[r].status = "paused", settled[r] # runs[r]
        PROVE  runs[r].pause /\ ~HasRunningAttempt(left, r)
    BY <2>1 DEF LoseRuns, RunTable
  <2>2. after \in NodeTable
    <3>1. \A n \in Node : after[n] \in [status : NodeStatus, attempts : 0..AttemptCap, due : BOOLEAN]
      BY <1>3 DEF LoseNodes, NodeTable, NodeStatus, NodeOpen, NodeTerminal
    <3>2. QED
      BY <3>1 DEF LoseNodes, NodeTable
  <2> HIDE DEF left, after, settled, N
  <2>3. ASSUME NEW r \in Run, settled[r].status = "paused", NEW n \in Node, RunOf[n] = r
        PROVE  settled[r].pause /\ after[n].status # "running"
    <3>1. CASE settled[r] = runs[r]
      BY <1>2, <1>3, <2>3, <3>1 DEF Quiet
    <3>2. CASE settled[r] # runs[r]
      BY <1>4, <1>5, <1>6, <2>1, <2>2, <2>3, <3>2, BusyIffAttempt
    <3>3. QED
      BY <3>1, <3>2
  <2>4. ASSUME NEW r \in Run, settled[r].status = "paused"
        PROVE  settled[r].pause
    BY <1>4, <2>1, <2>4 DEF Quiet
  <2>5. QED
    BY <2>3, <2>4 DEF Quiet
<1>8. Done(after, settled)
  <2> HIDE DEF left, after, settled, N
  <2>1. \A n \in Node : /\ RunOf[n] \in Run
                        /\ settled[RunOf[n]].status \in {"completed", "cancelled"}
                              => settled[RunOf[n]] = runs[RunOf[n]]
    BY <1>4, IdentityAssumption
  <2>2. "running" \in NodeOpen
    BY DEF NodeOpen
  <2>3. \A n \in N : settled[RunOf[n]].status \notin {"completed", "cancelled"}
    BY <1>1, <2>1, <2>2 DEF Done
  <2>4. QED
    BY <1>1, <1>2, <2>1, <2>3 DEF Done
<1>9. QED
  BY <1>5, <1>6, <1>7, <1>8

(* And so does claiming a set S of candidates. *)
Claimed(nodes, S) ==
    [n \in Node |->
        IF n \in S THEN [nodes[n] EXCEPT !.status = "running", !.attempts = @ + 1] ELSE nodes[n]]

Begun(nodes, attempts, runs, S) ==
    [a \in Node \X AttemptNo |->
        IF a[1] \in S /\ a[2] = nodes[a[1]].attempts + 1
        THEN [status |-> "running", live |-> TRUE,
              cancellation |-> runs[RunOf[a[1]]].cancellation]
        ELSE attempts[a]]

Resumed(runs, S) ==
    [r \in Run |->
        IF \E n \in S : RunOf[n] = r THEN [runs[r] EXCEPT !.status = "running"] ELSE runs[r]]

LEMMA ClaimStage ==
    ASSUME NEW nodes \in NodeTable, NEW attempts \in AttemptTable, NEW runs \in RunTable,
           Matched(nodes, attempts), Planned(nodes, runs), Quiet(nodes, runs), Done(nodes, runs),
           NEW S \in SUBSET Candidates(nodes, runs)
    PROVE  /\ Matched(Claimed(nodes, S), Begun(nodes, attempts, runs, S))
           /\ Planned(Claimed(nodes, S), Resumed(runs, S))
           /\ Quiet(Claimed(nodes, S), Resumed(runs, S))
           /\ Done(Claimed(nodes, S), Resumed(runs, S))
<1> DEFINE claimed == Claimed(nodes, S)
           begun == Begun(nodes, attempts, runs, S)
           resumed == Resumed(runs, S)
<1>1. \A n \in S : /\ n \in Node
                   /\ nodes[n].status = "ready"
                   /\ RevisionOf[n] = runs[RunOf[n]].revision
                   /\ runs[RunOf[n]].status \in {"queued", "running"}
                   /\ ~runs[RunOf[n]].pause
  BY DEF Candidates
<1>2. \A n \in Node : /\ n \in S => /\ claimed[n].status = "running"
                                    /\ claimed[n].attempts = nodes[n].attempts + 1
                      /\ n \notin S => claimed[n] = nodes[n]
                      /\ nodes[n].attempts \in Nat
  BY BudgetAssumption DEF NodeTable, Claimed
<1>3. ASSUME NEW n \in Node, NEW k \in AttemptNo
      PROVE  /\ n \in S /\ k = nodes[n].attempts + 1 => begun[<<n, k>>].status = "running"
             /\ ~(n \in S /\ k = nodes[n].attempts + 1) => begun[<<n, k>>] = attempts[<<n, k>>]
  BY DEF Begun
<1>4. \A r \in Run : /\ resumed[r].revision = runs[r].revision
                     /\ resumed[r].pause = runs[r].pause
                     /\ \/ resumed[r] = runs[r] /\ \A n \in S : RunOf[n] # r
                        \/ resumed[r].status = "running" /\ \E n \in S : RunOf[n] = r
  BY DEF RunTable, Resumed
<1>5. /\ "running" \in NodeOpen /\ "ready" \in NodeOpen
      /\ \A n \in Node : RunOf[n] \in Run
  BY IdentityAssumption DEF NodeOpen
<1> HIDE DEF claimed, begun, resumed
<1>6. Matched(claimed, begun)
  <2>1. ASSUME NEW n \in S, NEW k \in AttemptNo
        PROVE  begun[<<n, k>>].status = "running" <=> k = nodes[n].attempts + 1
    <3>1. attempts[<<n, k>>].status # "running"
      BY <1>1 DEF Matched
    <3>2. QED
      BY <1>1, <1>3, <3>1
  <2>2. ASSUME NEW n \in Node, NEW k \in AttemptNo, n \notin S
        PROVE  begun[<<n, k>>].status = "running"
                  <=> claimed[n].status = "running" /\ claimed[n].attempts = k
    BY <1>2, <1>3, <2>2 DEF Matched
  <2>3. ASSUME NEW n \in Node, NEW k \in AttemptNo, n \in S
        PROVE  begun[<<n, k>>].status = "running"
                  <=> claimed[n].status = "running" /\ claimed[n].attempts = k
    BY <1>2, <2>1, <2>3
  <2>4. QED
    BY <2>2, <2>3 DEF Matched
<1>7. Planned(claimed, resumed)
  <2>1. ASSUME NEW n \in Node, n \in S
        PROVE  /\ resumed[RunOf[n]].status # "absent"
               /\ RevisionOf[n] = resumed[RunOf[n]].revision
               /\ RevisionOf[n] <= resumed[RunOf[n]].revision
               /\ claimed[n].status = "running"
               /\ claimed[n].attempts >= 1
    <3>1. runs[RunOf[n]].revision \in Nat
      BY <1>5 DEF RunTable
    <3>2. QED
      BY <1>1, <1>2, <1>4, <1>5, <2>1, <3>1
  <2>2. ASSUME NEW n \in Node, n \notin S
        PROVE  /\ claimed[n] = nodes[n]
               /\ resumed[RunOf[n]].status = "absent" => runs[RunOf[n]].status = "absent"
               /\ resumed[RunOf[n]].revision = runs[RunOf[n]].revision
    BY <1>2, <1>4, <1>5, <2>2
  <2>3. QED
    BY <2>1, <2>2 DEF Planned
<1>8. Quiet(claimed, resumed)
  BY <1>2, <1>4 DEF Quiet
<1>9. Done(claimed, resumed)
  <2>1. ASSUME NEW n \in Node, n \in S
        PROVE  resumed[RunOf[n]].status = "running"
    BY <1>4, <1>5, <2>1
  <2>2. ASSUME NEW n \in Node, n \notin S, resumed[RunOf[n]].status # "running"
        PROVE  claimed[n] = nodes[n] /\ resumed[RunOf[n]] = runs[RunOf[n]]
    BY <1>2, <1>4, <1>5, <2>2
  <2>3. QED
    BY <2>1, <2>2 DEF Done
<1>10. QED
  BY <1>6, <1>7, <1>8, <1>9 DEF claimed, begun, resumed

(* One lemma per kind of transaction. *)
LEMMA ClaimReadyInv ==
    ASSUME KernelInv, NEW limit, NEW reserve, ClaimReady(limit, reserve)
    PROVE  KernelInv'
<1> DEFINE cut == CancelAttempts(attempt, Overdue)
           swept == LoseAttempts(cut, Reclaimable)
<1>1. PICK o \in LostOutcomes({a[1] : a \in Reclaimable}), S \in SUBSET Node :
        LET nodes == LoseNodes(ExpireNodes, o)
            runs == LoseRuns(ExpireRuns, swept, o)
        IN  /\ Selection(nodes, runs, S, limit, reserve)
            /\ node' = [n \in Node |->
                  IF n \in S THEN [nodes[n] EXCEPT !.status = "running", !.attempts = @ + 1]
                  ELSE nodes[n]]
            /\ attempt' = [a \in Node \X AttemptNo |->
                  IF a[1] \in S /\ a[2] = nodes[a[1]].attempts + 1
                  THEN [status |-> "running", live |-> TRUE,
                        cancellation |-> runs[RunOf[a[1]]].cancellation]
                  ELSE swept[a]]
            /\ run' = [r \in Run |->
                  IF \E n \in S : RunOf[n] = r THEN [runs[r] EXCEPT !.status = "running"]
                  ELSE runs[r]]
  BY DEF ClaimReady
<1> DEFINE nodes == LoseNodes(ExpireNodes, o)
           runs == LoseRuns(ExpireRuns, swept, o)
<1>2. /\ ExpireNodes \in NodeTable
      /\ cut \in AttemptTable
      /\ ExpireRuns \in RunTable
  BY ExpireNodesType, ExpireRunsType, CancelAttemptsType DEF KernelInv, TypeOK
<1>3. /\ nodes \in NodeTable
      /\ swept \in AttemptTable
      /\ runs \in RunTable
  BY <1>2, LoseNodesType, LoseAttemptsType, LoseRunsType
<1>4. \A a \in Reclaimable : a \in Node \X AttemptNo /\ cut[a].status = "running"
  <2>1. ASSUME NEW n \in Node, NEW k \in AttemptNo, <<n, k>> \in Reclaimable
        PROVE  cut[<<n, k>>].status = "running"
    BY <2>1, CancelAttemptsEffect DEF Reclaimable, KernelInv, TypeOK
  <2> HIDE DEF cut
  <2>2. QED
    BY <2>1 DEF Reclaimable
<1>5. o \in [{a[1] : a \in Reclaimable} -> {"ready", "failed", "cancelled"}]
  BY DEF LostOutcomes
<1>6. S \in SUBSET Candidates(nodes, runs)
  BY <1>1 DEF Selection
<1>7. /\ Matched(ExpireNodes, cut)
      /\ Planned(ExpireNodes, ExpireRuns)
      /\ Quiet(ExpireNodes, ExpireRuns)
      /\ Done(ExpireNodes, ExpireRuns)
  BY ExpireStage
<1> HIDE DEF cut
<1>8. /\ Matched(nodes, swept)
      /\ Planned(nodes, runs)
      /\ Quiet(nodes, runs)
      /\ Done(nodes, runs)
  BY <1>2, <1>4, <1>5, <1>7, LoseStage
<1>9. /\ node' = Claimed(nodes, S)
      /\ attempt' = Begun(nodes, swept, runs, S)
      /\ run' = Resumed(runs, S)
  BY <1>1 DEF Claimed, Begun, Resumed
<1> HIDE DEF nodes, runs, swept
<1>10. /\ Matched(node', attempt')
       /\ Planned(node', run')
       /\ Quiet(node', run')
       /\ Done(node', run')
  BY <1>3, <1>6, <1>8, <1>9, ClaimStage
<1>11. TypeOK'
  BY ClaimReadyType DEF KernelInv
<1>12. QED
  BY <1>10, <1>11 DEF KernelInv, Matched, Planned, Quiet, Done

LEMMA RenewInv ==
    ASSUME KernelInv, NEW n \in Node, NEW k \in AttemptNo, Renew(n, k)
    PROVE  KernelInv'
<1>1. /\ node' = ExpireNodes
      /\ attempt' = CancelAttempts(attempt, Overdue)
      /\ run' = ExpireRuns
  BY DEF Renew
<1>2. /\ Matched(node', attempt')
      /\ Planned(node', run')
      /\ Quiet(node', run')
      /\ Done(node', run')
  BY <1>1, ExpireStage
<1>3. TypeOK'
  BY RenewType DEF KernelInv
<1>4. QED
  BY <1>2, <1>3 DEF KernelInv, Matched, Planned, Quiet, Done

LEMMA AbandonInv ==
    ASSUME KernelInv, NEW n \in Node, NEW k \in AttemptNo, Abandon(n, k)
    PROVE  KernelInv'
<1> DEFINE A == {<<n, k>>}
           swept == LoseAttempts(attempt, A)
<1>1. PICK o \in LostOutcomes({n}) : node' = LoseNodes(node, o) /\ run' = LoseRuns(run, swept, o)
  BY DEF Abandon
<1>2. attempt' = swept
  BY DEF Abandon
<1>3. /\ A \in SUBSET (Node \X AttemptNo)
      /\ \A a \in A : attempt[a].status = "running"
  BY DEF Abandon, ClaimHeld
<1>4. o \in [{a[1] : a \in A} -> {"ready", "failed", "cancelled"}]
  <2>1. {a[1] : a \in A} = {n}
    OBVIOUS
  <2>2. QED
    BY <1>1, <2>1 DEF LostOutcomes
<1>5. /\ node \in NodeTable
      /\ attempt \in AttemptTable
      /\ run \in RunTable
      /\ Matched(node, attempt)
      /\ Planned(node, run)
      /\ Quiet(node, run)
      /\ Done(node, run)
  BY DEF KernelInv, TypeOK
<1> HIDE DEF A
<1>6. /\ Matched(node', attempt')
      /\ Planned(node', run')
      /\ Quiet(node', run')
      /\ Done(node', run')
  BY <1>1, <1>2, <1>3, <1>4, <1>5, LoseStage
<1>7. TypeOK'
  BY AbandonType DEF KernelInv
<1>8. QED
  BY <1>6, <1>7 DEF KernelInv, Matched, Planned, Quiet, Done

(* What every other transaction does: it changes one run r, whose open nodes  *)
(* were open before.                                                          *)
OneRunChange(r, nodes, runs) ==
    /\ \A q \in Run : q # r => runs[q] = run[q]
    /\ runs[r].revision = run[r].revision
    /\ run[r].status # "absent" /\ runs[r].status # "absent"
    /\ \A m \in Node : RunOf[m] # r => nodes[m] = node[m]
    /\ \A m \in Node : RunOf[m] = r =>
          /\ nodes[m].status = "absent" <=> node[m].status = "absent"
          /\ nodes[m].status \in NodeOpen => node[m].status \in NodeOpen
          /\ nodes[m].status = "superseded" => node[m].status = "superseded"
          /\ nodes[m].status = "running" => node[m].status = "running"
          /\ nodes[m].attempts = node[m].attempts
    /\ runs[r].status = "paused"
          => runs[r].pause /\ \A m \in Node : RunOf[m] = r => nodes[m].status # "running"
    /\ runs[r].status \in {"completed", "cancelled"}
          => \A m \in Node : RunOf[m] = r => nodes[m].status \notin NodeOpen
    /\ runs[r].status = "completed"
          => \A m \in Node : RunOf[m] = r /\ RevisionOf[m] = run[r].revision
                                => nodes[m].status = "succeeded"

LEMMA OneRunStage ==
    ASSUME Planned(node, run), Quiet(node, run), Done(node, run),
           NEW r \in Run, NEW nodes, NEW runs, OneRunChange(r, nodes, runs)
    PROVE  Planned(nodes, runs) /\ Quiet(nodes, runs) /\ Done(nodes, runs)
<1>1. \A n \in Node : RunOf[n] \in Run
  BY IdentityAssumption
<1>2. Planned(nodes, runs)
  <2>1. ASSUME NEW m \in Node, RunOf[m] = r
        PROVE  /\ nodes[m].status # "absent"
                     => runs[r].status # "absent" /\ RevisionOf[m] <= runs[r].revision
               /\ nodes[m].status \in NodeOpen => RevisionOf[m] = runs[r].revision
               /\ nodes[m].status = "superseded" => RevisionOf[m] < runs[r].revision
               /\ nodes[m].status = "running" => nodes[m].attempts >= 1
    BY <2>1 DEF Planned, OneRunChange
  <2>2. ASSUME NEW m \in Node, RunOf[m] # r
        PROVE  nodes[m] = node[m] /\ runs[RunOf[m]] = run[RunOf[m]]
    BY <1>1, <2>2 DEF OneRunChange
  <2>3. QED
    BY <2>1, <2>2 DEF Planned
<1>3. Quiet(nodes, runs)
  BY DEF Quiet, OneRunChange
<1>4. Done(nodes, runs)
  BY <1>1 DEF Done, OneRunChange
<1>5. QED
  BY <1>2, <1>3, <1>4

(* What is known of a claim that is held. *)
LEMMA Held ==
    ASSUME KernelInv, NEW n \in Node, NEW k \in AttemptNo, ClaimHeld(n, k)
    PROVE  /\ RunOf[n] \in Run
           /\ node[n].status = "running" /\ node[n].attempts = k
           /\ run[RunOf[n]].status # "absent"
           /\ RevisionOf[n] = run[RunOf[n]].revision
<1>1. node[n].status = "running" /\ node[n].attempts = k
  BY DEF KernelInv, Matched, ClaimHeld
<1>2. "running" \in NodeOpen
  BY DEF NodeOpen
<1>3. QED
  BY <1>1, <1>2, IdentityAssumption DEF KernelInv, Planned

LEMMA SettleAttemptEffect ==
    ASSUME attempt \in AttemptTable, NEW n \in Node, NEW k \in AttemptNo,
           NEW status, status # "running", NEW m \in Node, NEW j \in AttemptNo
    PROVE  SettleAttempt(n, k, status)[<<m, j>>].status = "running"
               <=> attempt[<<m, j>>].status = "running" /\ ~(m = n /\ j = k)
BY DEF SettleAttempt, AttemptTable

LEMMA SettleAttemptMatched ==
    ASSUME KernelInv, NEW n \in Node, NEW k \in AttemptNo, ClaimHeld(n, k),
           NEW status, status # "running", NEW nodes, nodes[n].status # "running",
           \A m \in Node : /\ m # n => (nodes[m].status = "running" <=> node[m].status = "running")
                           /\ nodes[m].attempts = node[m].attempts
    PROVE  Matched(nodes, SettleAttempt(n, k, status))
<1> DEFINE attempts == SettleAttempt(n, k, status)
<1>1. attempt \in AttemptTable
  BY DEF KernelInv, TypeOK
<1>2. /\ node[n].attempts = k
      /\ Matched(node, attempt)
  BY Held DEF KernelInv
<1> HIDE DEF attempts
<1>3. ASSUME NEW m \in Node, NEW j \in AttemptNo
      PROVE  attempts[<<m, j>>].status = "running"
                <=> nodes[m].status = "running" /\ nodes[m].attempts = j
  <2>1. attempts[<<m, j>>].status = "running"
            <=> attempt[<<m, j>>].status = "running" /\ ~(m = n /\ j = k)
    BY <1>1, SettleAttemptEffect DEF attempts
  <2>2. attempt[<<m, j>>].status = "running"
            <=> node[m].status = "running" /\ node[m].attempts = j
    BY <1>2 DEF Matched
  <2>3. CASE m = n
    BY <1>2, <2>1, <2>2, <2>3
  <2>4. CASE m # n
    BY <2>1, <2>2, <2>4
  <2>5. QED
    BY <2>3, <2>4
<1>4. QED
  BY <1>3 DEF Matched, attempts

LEMMA PostponeInv ==
    ASSUME KernelInv, NEW n \in Node, NEW k \in AttemptNo, ClaimHeld(n, k),
           NEW status \in AttemptStatus \ {"running"}, Postpone(n, k, status)
    PROVE  KernelInv'
<1>1. /\ RunOf[n] \in Run
      /\ node[n].status = "running" /\ node[n].attempts = k
      /\ run[RunOf[n]].status # "absent"
  BY Held
<1>2. \A m \in Node : /\ m # n => node'[m] = node[m]
                      /\ m = n => node'[m].status = "ready"
                      /\ node'[m].attempts = node[m].attempts
  BY DEF Postpone, KernelInv, TypeOK, NodeTable
<1>3. attempt' = SettleAttempt(n, k, status) /\ ClaimHeld(n, k)
  BY DEF Postpone
<1>4. /\ \A q \in Run : q # RunOf[n] => run'[q] = run[q]
      /\ run'[RunOf[n]].status = "queued"
      /\ run'[RunOf[n]].revision = run[RunOf[n]].revision
  BY <1>1 DEF Postpone, KernelInv, TypeOK, RunTable
<1>5. Matched(node', attempt')
  BY <1>1, <1>2, <1>3, SettleAttemptMatched
<1>6. OneRunChange(RunOf[n], node', run')
  BY <1>1, <1>2, <1>4 DEF OneRunChange, NodeOpen
<1>7. Planned(node', run') /\ Quiet(node', run') /\ Done(node', run')
  BY <1>1, <1>6, OneRunStage DEF KernelInv
<1>8. TypeOK'
  BY PostponeType DEF KernelInv
<1>9. QED
  BY <1>5, <1>7, <1>8 DEF KernelInv, Matched, Planned, Quiet, Done

LEMMA WaitForInv ==
    ASSUME KernelInv, NEW n \in Node, NEW k \in AttemptNo, NEW waiting \in RunWaiting,
           WaitFor(n, k, waiting)
    PROVE  KernelInv'
<1>1. /\ RunOf[n] \in Run
      /\ node[n].status = "running" /\ node[n].attempts = k
      /\ run[RunOf[n]].status # "absent"
  BY Held DEF WaitFor, RequireClaim
<1>2. \A m \in Node : /\ m # n => node'[m] = node[m]
                      /\ m = n => node'[m].status = waiting
                      /\ node'[m].attempts = node[m].attempts
  BY DEF WaitFor, SetNodes, KernelInv, TypeOK, NodeTable
<1>3. attempt' = SettleAttempt(n, k, "waiting") /\ ClaimHeld(n, k)
  BY DEF WaitFor, RequireClaim
<1>4. /\ \A q \in Run : q # RunOf[n] => run'[q] = run[q]
      /\ run'[RunOf[n]].status = waiting
      /\ run'[RunOf[n]].revision = run[RunOf[n]].revision
  BY <1>1 DEF WaitFor, KernelInv, TypeOK, RunTable
<1>5. waiting \in {"waiting_for_approval", "waiting_for_input"}
  BY DEF RunWaiting
<1>6. Matched(node', attempt')
  BY <1>1, <1>2, <1>3, <1>5, SettleAttemptMatched
<1>7. OneRunChange(RunOf[n], node', run')
  BY <1>1, <1>2, <1>4, <1>5 DEF OneRunChange, NodeOpen
<1>8. Planned(node', run') /\ Quiet(node', run') /\ Done(node', run')
  BY <1>1, <1>7, OneRunStage DEF KernelInv
<1>9. TypeOK'
  BY WaitForType DEF KernelInv
<1>10. QED
  BY <1>6, <1>8, <1>9 DEF KernelInv, Matched, Planned, Quiet, Done

LEMMA PromoteDependentsEffect ==
    ASSUME NEW nodes \in NodeTable, NEW r, NEW revision, NEW m \in Node
    PROVE  LET promoted == PromoteDependents(nodes, r, revision)
           IN  /\ promoted[m].attempts = nodes[m].attempts
               /\ \/ promoted[m].status = nodes[m].status
                  \/ /\ nodes[m].status = "pending"
                     /\ promoted[m].status = "ready"
                     /\ RunOf[m] = r
               /\ RunOf[m] # r => promoted[m] = nodes[m]
BY DEF PromoteDependents, NodeTable, Plan

(* The two facts about _settle_run that matter: it pauses only a pausing run  *)
(* that holds no worker, and ends a run only when its active plan has ended.  *)
LEMMA SettledStatusMeaning ==
    ASSUME NEW nodes, NEW attempts, NEW r
    PROVE  /\ SettledStatus(nodes, attempts, r) = "paused"
                 => run[r].pause /\ ~HasRunningAttempt(attempts, r)
           /\ SettledStatus(nodes, attempts, r) \in {"completed", "cancelled"}
                 => \A m \in ActivePlan(r) : nodes[m].status \in NodeTerminal
           /\ SettledStatus(nodes, attempts, r) = "completed"
                 => \A m \in ActivePlan(r) : nodes[m].status \in {"succeeded", "superseded"}
           /\ SettledStatus(nodes, attempts, r) # "absent"
BY DEF SettledStatus, NodeTerminal

LEMMA CompleteInv ==
    ASSUME KernelInv, NEW n \in Node, NEW k \in AttemptNo, Complete(n, k)
    PROVE  KernelInv'
<1> DEFINE r == RunOf[n]
           settled == SettleAttempt(n, k, "succeeded")
           done == SetNodes({n}, "succeeded")
           promoted == PromoteDependents(done, r, RevisionOf[n])
           status == SettledStatus(promoted, settled, r)
<1>1. /\ r \in Run
      /\ node[n].status = "running" /\ node[n].attempts = k
      /\ run[r].status # "absent"
      /\ RevisionOf[n] = run[r].revision
  BY Held DEF Complete, RequireClaim
<1>2. /\ attempt' = settled
      /\ node' = promoted
      /\ run' = [run EXCEPT ![r].status = status]
      /\ ClaimHeld(n, k)
  BY DEF Complete, RequireClaim
<1>3. done \in NodeTable
  BY SetNodesType DEF KernelInv, TypeOK, NodeStatus, NodeTerminal
<1>4. \A m \in Node : /\ m # n => done[m] = node[m]
                      /\ m = n => done[m].status = "succeeded"
                      /\ done[m].attempts = node[m].attempts
  BY DEF SetNodes, KernelInv, TypeOK, NodeTable
<1> HIDE DEF done, settled
<1>5. \A m \in Node :
        /\ promoted[m].attempts = done[m].attempts
        /\ \/ promoted[m].status = done[m].status
           \/ done[m].status = "pending" /\ promoted[m].status = "ready" /\ RunOf[m] = r
        /\ RunOf[m] # r => promoted[m] = done[m]
  BY <1>3, PromoteDependentsEffect
<1>6. /\ status = "paused" => run[r].pause /\ ~HasRunningAttempt(settled, r)
      /\ status \in {"completed", "cancelled"}
            => \A m \in ActivePlan(r) : promoted[m].status \in NodeTerminal
      /\ status = "completed"
            => \A m \in ActivePlan(r) : promoted[m].status \in {"succeeded", "superseded"}
      /\ status # "absent"
  BY SettledStatusMeaning
<1>7. promoted \in NodeTable
  BY <1>3, PromoteDependentsType
<1> HIDE DEF promoted, status
<1>8. \A m \in Node :
        /\ m # n => \/ promoted[m].status = node[m].status
                    \/ node[m].status = "pending" /\ promoted[m].status = "ready"
        /\ m = n => promoted[m].status = "succeeded"
        /\ promoted[m].attempts = node[m].attempts
        /\ RunOf[m] # r => promoted[m] = node[m]
  BY <1>4, <1>5
<1>9. Matched(promoted, settled)
  <2>1. \A m \in Node : /\ m # n => (promoted[m].status = "running" <=> node[m].status = "running")
                        /\ promoted[m].attempts = node[m].attempts
    BY <1>8
  <2>2. promoted[n].status # "running"
    BY <1>8
  <2>3. QED
    BY <1>2, <2>1, <2>2, SettleAttemptMatched DEF settled
<1>10. /\ \A q \in Run : q # r => run'[q] = run[q]
       /\ run'[r].status = status
       /\ run'[r].revision = run[r].revision
       /\ run'[r].pause = run[r].pause
  BY <1>1, <1>2 DEF KernelInv, TypeOK, RunTable
<1>11. ASSUME NEW m \in Node, RunOf[m] = r
       PROVE  /\ promoted[m].status = "absent" <=> node[m].status = "absent"
              /\ promoted[m].status \in NodeOpen => node[m].status \in NodeOpen
              /\ promoted[m].status = "superseded" => node[m].status = "superseded"
              /\ promoted[m].status = "running" => node[m].status = "running"
  BY <1>1, <1>8, <1>11 DEF NodeOpen, NodeWaiting
<1>12. /\ \A m \in Node : node[m].status \in NodeOpen => RevisionOf[m] = run[RunOf[m]].revision
       /\ \A m \in Node : node[m].status = "superseded" => RevisionOf[m] < run[RunOf[m]].revision
       /\ \A m \in Node : RevisionOf[m] \in Nat
  BY IdentityAssumption DEF KernelInv, Planned
<1>13. ASSUME status \in {"completed", "cancelled"}, NEW m \in Node, RunOf[m] = r
       PROVE  promoted[m].status \notin NodeOpen
  <2>1. CASE RevisionOf[m] = run[r].revision
    BY <1>6, <1>13, <2>1 DEF ActivePlan, Plan, NodeTerminal, NodeOpen, NodeWaiting
  <2>2. CASE RevisionOf[m] # run[r].revision
    BY <1>11, <1>12, <1>13, <2>2
  <2>3. QED
    BY <2>1, <2>2
<1>14. ASSUME status = "completed", NEW m \in Node, RunOf[m] = r,
              RevisionOf[m] = run[r].revision
       PROVE  promoted[m].status = "succeeded"
  <2>1. promoted[m].status \in {"succeeded", "superseded"}
    BY <1>6, <1>14 DEF ActivePlan, Plan
  <2>2. promoted[m].status # "superseded"
    BY <1>11, <1>12, <1>14
  <2>3. QED
    BY <2>1, <2>2
<1>15. ASSUME status = "paused"
       PROVE  run[r].pause /\ \A m \in Node : RunOf[m] = r => promoted[m].status # "running"
  <2>1. run[r].pause /\ ~HasRunningAttempt(settled, r)
    BY <1>6, <1>15
  <2>2. ASSUME NEW m \in Node, RunOf[m] = r, promoted[m].status = "running"
        PROVE  FALSE
    <3>1. node[m].status = "running" /\ m # n
      BY <1>8, <2>2
    <3>2. node[m].attempts \in AttemptNo
      BY <3>1, BudgetAssumption DEF KernelInv, Planned, TypeOK, NodeTable, AttemptNo
    <3>3. settled[<<m, node[m].attempts>>].status = "running"
      BY <1>8, <1>9, <2>2, <3>2 DEF Matched
    <3>4. QED
      BY <2>1, <2>2, <3>2, <3>3 DEF HasRunningAttempt
  <2>3. QED
    BY <2>1, <2>2
<1>16. OneRunChange(r, node', run')
  BY <1>1, <1>2, <1>6, <1>8, <1>10, <1>11, <1>13, <1>14, <1>15 DEF OneRunChange
<1>17. Planned(node', run') /\ Quiet(node', run') /\ Done(node', run')
  BY <1>1, <1>16, OneRunStage DEF KernelInv
<1>18. TypeOK'
  BY CompleteType DEF KernelInv
<1>19. QED
  BY <1>2, <1>9, <1>17, <1>18 DEF KernelInv, Matched, Planned, Quiet, Done

(* Closing a run r: nothing of it is open and no attempt of it runs. *)
LEMMA CloseStage ==
    ASSUME KernelInv, NEW r \in Run, NEW nodes, NEW attempts,
           \A m \in Node : /\ RunOf[m] # r => nodes[m] = node[m]
                           /\ RunOf[m] = r => nodes[m].status # "running",
           \A m \in Node, j \in AttemptNo :
              /\ RunOf[m] # r => (attempts[<<m, j>>].status = "running"
                                     <=> attempt[<<m, j>>].status = "running")
              /\ RunOf[m] = r => attempts[<<m, j>>].status # "running"
    PROVE  Matched(nodes, attempts)
<1>1. ASSUME NEW m \in Node, NEW j \in AttemptNo
      PROVE  attempts[<<m, j>>].status = "running"
                <=> nodes[m].status = "running" /\ nodes[m].attempts = j
  <2>1. CASE RunOf[m] = r
    BY <2>1
  <2>2. CASE RunOf[m] # r
    BY <2>2 DEF KernelInv, Matched
  <2>3. QED
    BY <2>1, <2>2
<1>2. QED
  BY <1>1 DEF Matched

LEMMA CancelRunEffect ==
    ASSUME NEW attempts \in AttemptTable, NEW r, NEW n \in Node, NEW k \in AttemptNo
    PROVE  CancelAttempts(attempts, {r})[<<n, k>>].status = "running"
               <=> attempts[<<n, k>>].status = "running" /\ RunOf[n] # r
<1>1. RunOf[n] \notin {r} <=> RunOf[n] # r
  OBVIOUS
<1>2. QED
  BY <1>1, CancelAttemptsEffect

LEMMA FailRunInv ==
    ASSUME KernelInv, NEW n \in Node, NEW k \in AttemptNo, ClaimHeld(n, k), FailRun(n, k)
    PROVE  KernelInv'
<1> DEFINE r == RunOf[n]
           cut == CancelAttempts(attempt, {r})
<1>1. r \in Run /\ run[r].status # "absent" /\ node[n].status = "running"
  BY Held
<1>2. cut \in AttemptTable /\ attempt \in AttemptTable
  BY CancelAttemptsType DEF KernelInv, TypeOK
<1>3. attempt' = [cut EXCEPT ![<<n, k>>] = [@ EXCEPT !.status = "failed", !.live = FALSE]]
  BY DEF FailRun
<1>4. ASSUME NEW m \in Node, NEW j \in AttemptNo
      PROVE  cut[<<m, j>>].status = "running"
                <=> attempt[<<m, j>>].status = "running" /\ RunOf[m] # r
  BY <1>2, CancelRunEffect
<1> HIDE DEF cut
<1>5. ASSUME NEW m \in Node, NEW j \in AttemptNo
      PROVE  /\ RunOf[m] # r => (attempt'[<<m, j>>].status = "running"
                                    <=> attempt[<<m, j>>].status = "running")
             /\ RunOf[m] = r => attempt'[<<m, j>>].status # "running"
  <2>1. \/ attempt'[<<m, j>>] = cut[<<m, j>>]
        \/ m = n /\ attempt'[<<m, j>>].status = "failed"
    BY <1>2, <1>3 DEF AttemptTable
  <2>2. QED
    BY <1>4, <2>1
<1>6. \A m \in Node :
        /\ node'[m].attempts = node[m].attempts
        /\ m = n => node'[m].status = "failed"
        /\ m # n /\ RunOf[m] = r /\ node[m].status \in NodeOpen => node'[m].status = "cancelled"
        /\ m # n /\ ~(RunOf[m] = r /\ node[m].status \in NodeOpen) => node'[m] = node[m]
  BY DEF FailRun, KernelInv, TypeOK, NodeTable
<1>7. /\ \A q \in Run : q # r => run'[q] = run[q]
      /\ run'[r].status = "failed"
      /\ run'[r].revision = run[r].revision
  BY <1>1 DEF FailRun, KernelInv, TypeOK, RunTable
<1>8. \A m \in Node : /\ RunOf[m] # r => node'[m] = node[m]
                      /\ RunOf[m] = r => node'[m].status \notin NodeOpen
  BY <1>6 DEF NodeOpen, NodeWaiting
<1>9. "running" \in NodeOpen /\ "absent" \notin NodeOpen
  BY DEF NodeOpen, NodeWaiting
<1>10. Matched(node', attempt')
  BY <1>1, <1>5, <1>8, <1>9, CloseStage
<1>11. ASSUME NEW m \in Node, RunOf[m] = r
       PROVE  /\ node'[m].status = "absent" <=> node[m].status = "absent"
              /\ node'[m].status \notin NodeOpen
              /\ node'[m].status = "superseded" => node[m].status = "superseded"
              /\ node'[m].status # "running"
              /\ node'[m].attempts = node[m].attempts
  BY <1>1, <1>6, <1>8, <1>9, <1>11
<1>12. OneRunChange(r, node', run')
  BY <1>1, <1>7, <1>8, <1>11 DEF OneRunChange
<1>13. Planned(node', run') /\ Quiet(node', run') /\ Done(node', run')
  BY <1>1, <1>12, OneRunStage DEF KernelInv
<1>14. TypeOK'
  BY FailRunType DEF KernelInv
<1>15. QED
  BY <1>10, <1>13, <1>14 DEF KernelInv, Matched, Planned, Quiet, Done

LEMMA SettleInv ==
    ASSUME KernelInv, NEW n \in Node, NEW k \in AttemptNo, Settle(n, k)
    PROVE  KernelInv'
<1>1. CASE Complete(n, k)
  BY <1>1, CompleteInv
<1>2. CASE Retry(n, k)
  BY <1>2, FailRunInv, PostponeInv DEF Retry, RequireClaim, AttemptStatus
<1>3. CASE Defer(n, k)
  BY <1>3, FailRunInv, PostponeInv DEF Defer, RequireClaim, AttemptStatus
<1>4. CASE Fail(n, k)
  BY <1>4, FailRunInv DEF Fail, RequireClaim
<1>5. CASE WaitForApproval(n, k)
  BY <1>5, WaitForInv DEF WaitForApproval, RunWaiting
<1>6. CASE WaitForInput(n, k)
  BY <1>6, WaitForInv DEF WaitForInput, RunWaiting
<1>7. QED
  BY <1>1, <1>2, <1>3, <1>4, <1>5, <1>6 DEF Settle

LEMMA CancelInv ==
    ASSUME KernelInv, NEW r \in Run, Cancel(r)
    PROVE  KernelInv'
<1>1. run[r].status # "absent"
  BY DEF Cancel, Live
<1>2. ASSUME NEW m \in Node, NEW j \in AttemptNo
      PROVE  attempt'[<<m, j>>].status = "running"
                <=> attempt[<<m, j>>].status = "running" /\ RunOf[m] # r
  <2>1. attempt \in AttemptTable /\ attempt' = CancelAttempts(attempt, {r})
    BY DEF Cancel, KernelInv, TypeOK
  <2>2. CancelAttempts(attempt, {r})[<<m, j>>].status = "running"
            <=> attempt[<<m, j>>].status = "running" /\ RunOf[m] # r
    BY <2>1, CancelRunEffect
  <2>3. QED
    BY <2>1, <2>2, Zenon
<1>3. \A m \in Node :
        /\ node'[m].attempts = node[m].attempts
        /\ RunOf[m] = r /\ node[m].status \in NodeOpen => node'[m].status = "cancelled"
        /\ ~(RunOf[m] = r /\ node[m].status \in NodeOpen) => node'[m] = node[m]
  BY DEF Cancel, SetNodes, KernelInv, TypeOK, NodeTable
<1>4. /\ \A q \in Run : q # r => run'[q] = run[q]
      /\ run'[r].status = "cancelled"
      /\ run'[r].revision = run[r].revision
  BY DEF Cancel, KernelInv, TypeOK, RunTable
<1>5. "running" \in NodeOpen /\ "cancelled" \notin NodeOpen /\ "absent" \notin NodeOpen
  BY DEF NodeOpen, NodeWaiting
<1>6. ASSUME NEW m \in Node, RunOf[m] = r
      PROVE  /\ node'[m].status = "absent" <=> node[m].status = "absent"
             /\ node'[m].status \notin NodeOpen
             /\ node'[m].status = "superseded" => node[m].status = "superseded"
             /\ node'[m].status # "running"
             /\ node'[m].attempts = node[m].attempts
  BY <1>3, <1>5, <1>6
<1>7. \A m \in Node : RunOf[m] # r => node'[m] = node[m]
  BY <1>3
<1>8. Matched(node', attempt')
  BY <1>2, <1>6, <1>7, CloseStage
<1>9. OneRunChange(r, node', run')
  BY <1>1, <1>4, <1>6, <1>7 DEF OneRunChange
<1>10. Planned(node', run') /\ Quiet(node', run') /\ Done(node', run')
  BY <1>9, OneRunStage DEF KernelInv
<1>11. TypeOK'
  BY RequestType DEF KernelInv
<1>12. QED
  BY <1>8, <1>10, <1>11 DEF KernelInv, Matched, Planned, Quiet, Done

(* Requests that touch no attempt. *)
LEMMA RequestPauseInv ==
    ASSUME KernelInv, NEW r \in Run, RequestPause(r)
    PROVE  KernelInv'
<1>1. /\ run[r].status # "absent"
      /\ UNCHANGED <<node, attempt>>
  BY DEF RequestPause, Live
<1>2. /\ \A q \in Run : q # r => run'[q] = run[q]
      /\ run'[r].pause = TRUE
      /\ run'[r].revision = run[r].revision
      /\ run'[r].status \in {"running", "paused"}
      /\ run'[r].status = "paused" => ~HasRunningAttempt(attempt, r)
  BY DEF RequestPause, KernelInv, TypeOK, RunTable
<1>3. ~HasRunningAttempt(attempt, r)
          => \A m \in Node : RunOf[m] = r => node[m].status # "running"
  BY BusyIffAttempt DEF KernelInv, TypeOK
<1>4. OneRunChange(r, node', run')
  BY <1>1, <1>2, <1>3 DEF OneRunChange
<1>5. Planned(node', run') /\ Quiet(node', run') /\ Done(node', run')
  BY <1>4, OneRunStage DEF KernelInv
<1>6. TypeOK'
  BY RequestType DEF KernelInv
<1>7. Matched(node', attempt')
  BY <1>1 DEF KernelInv
<1>8. QED
  BY <1>5, <1>6, <1>7 DEF KernelInv, Matched, Planned, Quiet, Done

LEMMA ResumeInv ==
    ASSUME KernelInv, NEW r \in Run, Resume(r)
    PROVE  KernelInv'
<1>1. /\ run[r].status # "absent"
      /\ UNCHANGED attempt
  BY DEF Resume, Live
<1>2. /\ \A q \in Run : q # r => run'[q] = run[q]
      /\ run'[r].revision = run[r].revision
      /\ run'[r].status \in {"running", "queued"}
  BY DEF Resume, KernelInv, TypeOK, RunTable
<1>3. \A m \in Node :
        /\ node'[m].attempts = node[m].attempts
        /\ \/ node'[m] = node[m]
           \/ /\ RunOf[m] = r
              /\ node[m].status \in NodeWaiting
              /\ node'[m].status = "ready"
  BY DEF Resume, SetNodes, ActivePlan, Plan, KernelInv, TypeOK, NodeTable
<1>4. /\ NodeWaiting \subseteq NodeOpen
      /\ "running" \notin NodeWaiting
      /\ "absent" \notin NodeWaiting
      /\ "superseded" \notin NodeWaiting
  BY DEF NodeOpen, NodeWaiting
<1>5. \A m \in Node : node'[m].status = "running" <=> node[m].status = "running"
  BY <1>3, <1>4
<1>6. Matched(node', attempt')
  <2>1. ASSUME NEW m \in Node, NEW j \in AttemptNo
        PROVE  attempt'[<<m, j>>].status = "running"
                  <=> node'[m].status = "running" /\ node'[m].attempts = j
    BY <1>1, <1>3, <1>5 DEF KernelInv, Matched
  <2>2. QED
    BY <2>1 DEF Matched
<1>7. ASSUME NEW m \in Node, RunOf[m] = r
      PROVE  /\ node'[m].status = "absent" <=> node[m].status = "absent"
             /\ node'[m].status \in NodeOpen => node[m].status \in NodeOpen
             /\ node'[m].status = "superseded" => node[m].status = "superseded"
             /\ node'[m].attempts = node[m].attempts
  BY <1>3, <1>4
<1>8. \A m \in Node : RunOf[m] # r => node'[m] = node[m]
  BY <1>3
<1>9. OneRunChange(r, node', run')
  BY <1>1, <1>2, <1>5, <1>7, <1>8 DEF OneRunChange
<1>10. Planned(node', run') /\ Quiet(node', run') /\ Done(node', run')
  BY <1>9, OneRunStage DEF KernelInv
<1>11. TypeOK'
  BY RequestType DEF KernelInv
<1>12. QED
  BY <1>6, <1>10, <1>11 DEF KernelInv, Matched, Planned, Quiet, Done

(* A change of tier or of a deadline, or a date that comes, moves no status.  *)
LEMMA StatusUnchangedInv ==
    ASSUME KernelInv, TypeOK',
           \A r \in Run : /\ run'[r].status = run[r].status
                          /\ run'[r].revision = run[r].revision
                          /\ run'[r].pause = run[r].pause,
           \A n \in Node : /\ node'[n].status = node[n].status
                           /\ node'[n].attempts = node[n].attempts,
           \A n \in Node, k \in AttemptNo : attempt'[<<n, k>>].status = attempt[<<n, k>>].status
    PROVE  KernelInv'
<1>1. \A n \in Node : RunOf[n] \in Run
  BY IdentityAssumption
<1>2. Matched(node', attempt')
  <2>1. ASSUME NEW n \in Node, NEW k \in AttemptNo
        PROVE  attempt'[<<n, k>>].status = "running"
                  <=> node'[n].status = "running" /\ node'[n].attempts = k
    BY DEF KernelInv, Matched
  <2>2. QED
    BY <2>1 DEF Matched
<1>3. Planned(node', run')
  <2>1. ASSUME NEW n \in Node
        PROVE  /\ node'[n].status = node[n].status
               /\ node'[n].attempts = node[n].attempts
               /\ run'[RunOf[n]].status = run[RunOf[n]].status
               /\ run'[RunOf[n]].revision = run[RunOf[n]].revision
    BY <1>1
  <2>2. QED
    BY <2>1 DEF KernelInv, Planned
<1>4. Quiet(node', run')
  BY DEF KernelInv, Quiet
<1>5. Done(node', run')
  BY <1>1 DEF KernelInv, Done
<1>6. QED
  BY <1>2, <1>3, <1>4, <1>5 DEF KernelInv, Matched, Planned, Quiet, Done

LEMMA TimeInv ==
    ASSUME KernelInv,
           \/ \E n \in Node, k \in AttemptNo : LeaseExpires(n, k)
           \/ \E n \in Node : BecomesDue(n)
           \/ \E r \in Run : DeadlinePasses(r)
           \/ \E r \in Run : UpgradeBudget(r)
    PROVE  KernelInv'
<1>1. TypeOK'
  BY TimeType, RequestType DEF KernelInv
<1>2. ASSUME NEW n \in Node, NEW k \in AttemptNo, LeaseExpires(n, k)
      PROVE  KernelInv'
  <2>1. \A m \in Node, j \in AttemptNo : attempt'[<<m, j>>].status = attempt[<<m, j>>].status
    BY <1>2 DEF LeaseExpires, KernelInv, TypeOK, AttemptTable
  <2>2. QED
    BY <1>1, <1>2, <2>1, StatusUnchangedInv DEF LeaseExpires
<1>3. ASSUME NEW n \in Node, BecomesDue(n)
      PROVE  KernelInv'
  <2>1. \A m \in Node : /\ node'[m].status = node[m].status
                        /\ node'[m].attempts = node[m].attempts
    BY <1>3 DEF BecomesDue, KernelInv, TypeOK, NodeTable
  <2>2. QED
    BY <1>1, <1>3, <2>1, StatusUnchangedInv DEF BecomesDue
<1>4. ASSUME NEW r \in Run, DeadlinePasses(r) \/ UpgradeBudget(r)
      PROVE  KernelInv'
  <2>1. \A q \in Run : /\ run'[q].status = run[q].status
                       /\ run'[q].revision = run[q].revision
                       /\ run'[q].pause = run[q].pause
    BY <1>4 DEF DeadlinePasses, UpgradeBudget, KernelInv, TypeOK, RunTable
  <2>2. UNCHANGED <<node, attempt>>
    BY <1>4 DEF DeadlinePasses, UpgradeBudget
  <2>3. QED
    BY <1>1, <2>1, <2>2, StatusUnchangedInv
<1>5. QED
  BY <1>2, <1>3, <1>4

LEMMA InsertPlanEffect ==
    ASSUME NEW nodes \in NodeTable, NEW P, NEW m \in Node
    PROVE  /\ m \in P => InsertPlan(nodes, P)[m].status \in {"ready", "pending"}
           /\ m \notin P => InsertPlan(nodes, P)[m] = nodes[m]
BY DEF InsertPlan

(* A node that is not running has no attempt in flight. *)
LEMMA IdleNode ==
    ASSUME KernelInv, NEW n \in Node, node[n].status # "running", NEW k \in AttemptNo
    PROVE  attempt[<<n, k>>].status # "running"
BY DEF KernelInv, Matched

LEMMA CreateInv ==
    ASSUME KernelInv, NEW r \in Run, Create(r)
    PROVE  KernelInv'
<1> DEFINE P == Plan(r, 1)
<1>1. /\ run[r].status = "absent"
      /\ attempt' = attempt
      /\ node' = InsertPlan(node, P)
  BY DEF Create
<1>2. /\ \A q \in Run : q # r => run'[q] = run[q]
      /\ run'[r].status = "queued"
      /\ run'[r].revision = 1
  BY DEF Create, KernelInv, TypeOK, RunTable
<1>3. \A m \in Node : m \in P <=> RunOf[m] = r /\ RevisionOf[m] = 1
  BY DEF Plan
<1> HIDE DEF P
<1>4. \A m \in Node : RunOf[m] \in Run /\ RevisionOf[m] \in Nat
  BY IdentityAssumption
<1>5. \A m \in Node : RunOf[m] = r => node[m].status = "absent"
  BY <1>1 DEF KernelInv, Planned
<1>6. ASSUME NEW m \in Node
      PROVE  /\ m \in P => node'[m].status \in {"ready", "pending"}
             /\ m \notin P => node'[m] = node[m]
  BY <1>1, InsertPlanEffect DEF KernelInv, TypeOK
<1>7. Matched(node', attempt')
  <2>1. ASSUME NEW m \in Node, NEW j \in AttemptNo, m \in P
        PROVE  attempt'[<<m, j>>].status # "running" /\ node'[m].status # "running"
    BY <1>1, <1>3, <1>5, <1>6, <2>1, IdleNode
  <2>2. ASSUME NEW m \in Node, NEW j \in AttemptNo, m \notin P
        PROVE  attempt'[<<m, j>>].status = "running"
                  <=> node'[m].status = "running" /\ node'[m].attempts = j
    BY <1>1, <1>6, <2>2 DEF KernelInv, Matched
  <2>3. QED
    BY <2>1, <2>2 DEF Matched
<1>8. Planned(node', run')
  <2>1. ASSUME NEW m \in Node, m \in P
        PROVE  /\ run'[RunOf[m]].status # "absent"
               /\ RevisionOf[m] = run'[RunOf[m]].revision
               /\ RevisionOf[m] <= run'[RunOf[m]].revision
               /\ node'[m].status \notin {"superseded", "running"}
    BY <1>2, <1>3, <1>6, <2>1
  <2>2. ASSUME NEW m \in Node, m \notin P, RunOf[m] = r
        PROVE  node'[m].status = "absent"
    BY <1>5, <1>6, <2>2
  <2>3. ASSUME NEW m \in Node, m \notin P, RunOf[m] # r
        PROVE  node'[m] = node[m] /\ run'[RunOf[m]] = run[RunOf[m]]
    BY <1>2, <1>4, <1>6, <2>3
  <2>4. "absent" \notin NodeOpen
    BY DEF NodeOpen, NodeWaiting
  <2>5. QED
    BY <2>1, <2>2, <2>3, <2>4 DEF KernelInv, Planned
<1>9. Quiet(node', run')
  <2>1. ASSUME NEW q \in Run, run'[q].status = "paused"
        PROVE  /\ q # r
               /\ run'[q] = run[q]
               /\ \A m \in Node : RunOf[m] = q => node'[m] = node[m]
    BY <1>2, <1>3, <1>6, <2>1
  <2>2. QED
    BY <2>1 DEF KernelInv, Quiet
<1>10. Done(node', run')
  <2>1. ASSUME NEW m \in Node, run'[RunOf[m]].status \in {"completed", "cancelled"}
        PROVE  run'[RunOf[m]] = run[RunOf[m]] /\ node'[m] = node[m]
    BY <1>2, <1>3, <1>4, <1>6, <2>1
  <2>2. QED
    BY <2>1 DEF KernelInv, Done
<1>11. TypeOK'
  BY RequestType DEF KernelInv
<1>12. QED
  BY <1>7, <1>8, <1>9, <1>10, <1>11 DEF KernelInv, Matched, Planned, Quiet, Done

LEMMA AppendPlanInv ==
    ASSUME KernelInv, NEW r \in Run, NEW i, AppendPlan(r, i)
    PROVE  KernelInv'
<1> DEFINE next == run[r].revision + 1
           P == Plan(r, next)
           replaced == {n \in ActivePlan(r) : node[n].status \in NodeOpen \ {"running"}}
           base == SetNodes(replaced, "superseded")
<1>1. /\ run[r].status # "absent"
      /\ ~HasRunningAttempt(attempt, r)
      /\ attempt' = attempt
      /\ node' = InsertPlan(base, P)
  BY DEF AppendPlan, Live
<1>2. run[r].revision \in Nat /\ next \in Nat /\ next > run[r].revision
  BY DEF KernelInv, TypeOK, RunTable
<1>3. /\ \A q \in Run : q # r => run'[q] = run[q]
      /\ run'[r].status = "queued"
      /\ run'[r].revision = next
  BY DEF AppendPlan, KernelInv, TypeOK, RunTable
<1>4. \A m \in Node : /\ m \in P <=> RunOf[m] = r /\ RevisionOf[m] = next
                      /\ RunOf[m] \in Run
                      /\ RevisionOf[m] \in Nat
  BY IdentityAssumption DEF Plan
<1>5. base \in NodeTable
  BY SetNodesType DEF KernelInv, TypeOK, NodeStatus, NodeTerminal
<1>6. \A m \in Node : /\ m \in replaced => base[m].status = "superseded"
                      /\ m \notin replaced => base[m] = node[m]
  BY DEF SetNodes, KernelInv, TypeOK, NodeTable
<1>7. \A m \in Node : m \in replaced <=> /\ RunOf[m] = r
                                         /\ RevisionOf[m] = run[r].revision
                                         /\ node[m].status \in NodeOpen
                                         /\ node[m].status # "running"
  BY DEF ActivePlan, Plan
<1> HIDE DEF P, base, replaced, next
<1>8. ASSUME NEW m \in Node
      PROVE  /\ m \in P => node'[m].status \in {"ready", "pending"}
             /\ m \notin P => node'[m] = base[m]
  BY <1>1, <1>5, InsertPlanEffect
<1>9. \A m \in Node : RunOf[m] = r => node[m].status # "running"
  BY <1>1, BusyIffAttempt DEF KernelInv, TypeOK
<1>10. /\ \A m \in Node : m \in P => node[m].status = "absent"
       /\ \A m \in Node : RunOf[m] = r /\ node[m].status # "absent"
                              => RevisionOf[m] <= run[r].revision
       /\ \A m \in Node : RunOf[m] = r /\ node[m].status \in NodeOpen => m \in replaced
       /\ \A m \in Node : RunOf[m] = r /\ node[m].status = "superseded"
                              => RevisionOf[m] < run[r].revision
  BY <1>2, <1>4, <1>7, <1>9 DEF KernelInv, Planned
<1>11. "absent" \notin NodeOpen /\ "superseded" \notin NodeOpen /\ "running" \in NodeOpen
  BY DEF NodeOpen, NodeWaiting
<1>12. ASSUME NEW m \in Node, RunOf[m] # r
       PROVE  node'[m] = node[m] /\ run'[RunOf[m]] = run[RunOf[m]]
  BY <1>3, <1>4, <1>6, <1>7, <1>8, <1>12
<1>13. ASSUME NEW m \in Node, RunOf[m] = r
       PROVE  node'[m].status # "running" /\ node[m].status # "running"
  <2>1. CASE m \in P
    BY <1>8, <1>9, <1>13, <2>1
  <2>2. CASE m \notin P
    BY <1>6, <1>8, <1>9, <1>13, <2>2
  <2>3. QED
    BY <2>1, <2>2
<1>14. Matched(node', attempt')
  <2>1. ASSUME NEW m \in Node, NEW j \in AttemptNo, RunOf[m] = r
        PROVE  attempt'[<<m, j>>].status # "running" /\ node'[m].status # "running"
    BY <1>1, <1>13, <2>1, IdleNode
  <2>2. ASSUME NEW m \in Node, NEW j \in AttemptNo, RunOf[m] # r
        PROVE  attempt'[<<m, j>>].status = "running"
                  <=> node'[m].status = "running" /\ node'[m].attempts = j
    BY <1>1, <1>12, <2>2 DEF KernelInv, Matched
  <2>3. QED
    BY <2>1, <2>2 DEF Matched
<1>15. Planned(node', run')
  <2>1. ASSUME NEW m \in Node, RunOf[m] = r, m \in P
        PROVE  /\ run'[r].status # "absent" /\ RevisionOf[m] = run'[r].revision
               /\ RevisionOf[m] <= run'[r].revision
               /\ node'[m].status \notin {"superseded", "running"}
    BY <1>3, <1>4, <1>8, <2>1
  <2>2. ASSUME NEW m \in Node, RunOf[m] = r, m \notin P
        PROVE  /\ run'[r].status # "absent"
               /\ node'[m].status # "absent" => RevisionOf[m] <= run[r].revision
               /\ node'[m].status \notin NodeOpen
               /\ node'[m].status # "running"
    <3>1. CASE m \in replaced
      BY <1>2, <1>3, <1>4, <1>6, <1>7, <1>8, <1>11, <1>13, <2>2, <3>1
    <3>2. CASE m \notin replaced
      BY <1>3, <1>6, <1>8, <1>10, <1>13, <2>2, <3>2
    <3>3. QED
      BY <3>1, <3>2
  <2>3. ASSUME NEW m \in Node, RunOf[m] = r
        PROVE  /\ node'[m].status # "absent"
                     => run'[RunOf[m]].status # "absent"
                          /\ RevisionOf[m] <= run'[RunOf[m]].revision
               /\ node'[m].status \in NodeOpen => RevisionOf[m] = run'[RunOf[m]].revision
               /\ node'[m].status = "superseded" => RevisionOf[m] < run'[RunOf[m]].revision
               /\ node'[m].status = "running" => node'[m].attempts >= 1
    <3>1. CASE m \in P
      BY <2>1, <2>3, <3>1
    <3>2. CASE m \notin P
      BY <1>2, <1>3, <1>4, <2>2, <2>3, <3>2
    <3>3. QED
      BY <3>1, <3>2
  <2>4. QED
    BY <1>12, <2>3 DEF KernelInv, Planned
<1>16. Quiet(node', run')
  <2>1. ASSUME NEW q \in Run, run'[q].status = "paused"
        PROVE  q # r /\ run'[q] = run[q] /\ \A m \in Node : RunOf[m] = q => node'[m] = node[m]
    BY <1>3, <1>12, <2>1
  <2>2. QED
    BY <2>1 DEF KernelInv, Quiet
<1>17. Done(node', run')
  <2>1. ASSUME NEW m \in Node, run'[RunOf[m]].status \in {"completed", "cancelled"}
        PROVE  run'[RunOf[m]] = run[RunOf[m]] /\ node'[m] = node[m]
    BY <1>3, <1>12, <2>1
  <2>2. QED
    BY <2>1 DEF KernelInv, Done
<1>18. TypeOK'
  BY SteeringType DEF KernelInv
<1>19. QED
  BY <1>14, <1>15, <1>16, <1>17, <1>18 DEF KernelInv, Matched, Planned, Quiet, Done

LEMMA AddInstructionInv ==
    ASSUME KernelInv, NEW r \in Run, NEW i \in Instruction, AddInstruction(r, i)
    PROVE  KernelInv'
<1>1. TypeOK'
  BY SteeringType DEF KernelInv
<1>2. UNCHANGED <<run, node, attempt>>
  BY DEF AddInstruction
<1>3. QED
  BY <1>1, <1>2 DEF KernelInv, Matched, Planned, Quiet, Done

LEMMA NextInv == KernelInv /\ [Next]_vars => KernelInv'
<1> SUFFICES ASSUME KernelInv, [Next]_vars PROVE KernelInv'
  OBVIOUS
<1>1. CASE \E limit \in 1..MaxLimit, reserve \in BOOLEAN : ClaimReady(limit, reserve)
  BY <1>1, ClaimReadyInv
<1>2. CASE \E n \in Node, k \in AttemptNo :
             Settle(n, k) \/ Abandon(n, k) \/ Renew(n, k) \/ LeaseExpires(n, k)
  BY <1>2, SettleInv, AbandonInv, RenewInv, TimeInv
<1>3. ASSUME NEW r \in Run,
             \/ Create(r)
             \/ RequestPause(r)
             \/ Resume(r)
             \/ Cancel(r)
             \/ UpgradeBudget(r)
             \/ DeadlinePasses(r)
             \/ \E i \in Instruction : AddInstruction(r, i)
             \/ \E i \in Instruction \union {None} : AppendPlan(r, i)
      PROVE  KernelInv'
  BY <1>3, CreateInv, RequestPauseInv, ResumeInv, CancelInv, TimeInv, AddInstructionInv,
     AppendPlanInv
<1>4. CASE \E n \in Node : BecomesDue(n)
  BY <1>4, TimeInv
<1>5. CASE UNCHANGED vars
  BY <1>5, NextType DEF KernelInv, vars, Matched, Planned, Quiet, Done
<1>6. QED
  BY <1>1, <1>2, <1>3, <1>4, <1>5 DEF Next

(* The inductive invariant holds of every behaviour.                          *)
THEOREM KernelInvariant == Spec => []KernelInv
<1>1. QED
  BY InitInv, NextInv, PTL DEF Spec

(* The two tables that claim_ready, _reclaim_expired, fail, cancel and        *)
(* _expire_overdue rewrite stay in step: a node is running exactly while its  *)
(* newest attempt is, so no node ever has two attempts in flight.             *)
THEOREM AttemptsMatchNodes == Spec => []OneAttemptInFlight
<1>1. QED
  BY KernelInvariant, KernelInvParts, PTL

(* Open work belongs to the active plan revision, and only replaced work to   *)
(* an earlier one (append_plan and every settle operation).                   *)
THEOREM OpenWorkIsActive == Spec => []PlansAreHistory
<1>1. QED
  BY KernelInvariant, KernelInvParts, PTL

(* A paused run holds no worker (request_pause, _settle_pause, _settle_run).  *)
THEOREM PausedRunsAreQuiet == Spec => []PausedIsQuiet
<1>1. QED
  BY KernelInvariant, KernelInvParts, PTL

(* Completed and cancelled runs have no open work, and a completed run has    *)
(* succeeded in all of its active plan (_settle_run, cancel).                 *)
THEOREM FinishedRunsAreDone == Spec => []FinishedIsDone
<1>1. QED
  BY KernelInvariant, KernelInvParts, PTL

(* Only a run's own claims and the guarded requests write its status.         *)
LEMMA FinalStep ==
    ASSUME KernelInv, [Next]_vars, NEW r \in Run, run[r].status \in RunTerminal,
           \A n \in Node : RunOf[n] = r => node[n].status # "running"
    PROVE  run'[r].status = run[r].status
<1>1. \A n \in Node, k \in AttemptNo : ClaimHeld(n, k) => RunOf[n] # r
  BY Held
<1>2. run \in RunTable /\ \A n \in Node : RunOf[n] \in Run
  BY IdentityAssumption DEF KernelInv, TypeOK
<1>3. ~Live(r) /\ ~(run[r].status = "absent") /\ r \notin Overdue
  BY DEF Live, RunTerminal, Overdue
<1>4. ExpireRuns[r] = run[r]
  BY <1>3 DEF ExpireRuns
<1>5. ASSUME NEW limit, NEW reserve, ClaimReady(limit, reserve)
      PROVE  run'[r].status = run[r].status
  <2> DEFINE swept == LoseAttempts(CancelAttempts(attempt, Overdue), Reclaimable)
  <2>1. PICK o \in LostOutcomes({a[1] : a \in Reclaimable}), S \in SUBSET Node :
          /\ Selection(LoseNodes(ExpireNodes, o), LoseRuns(ExpireRuns, swept, o), S,
                       limit, reserve)
          /\ run' = Resumed(LoseRuns(ExpireRuns, swept, o), S)
    BY <1>5 DEF ClaimReady, Resumed
  <2> DEFINE runs == LoseRuns(ExpireRuns, swept, o)
  <2>2. runs[r] = run[r]
    BY <1>4 DEF LoseRuns, RunTerminal
  <2>3. \A n \in S : runs[RunOf[n]].status \in {"queued", "running"}
    BY <2>1 DEF Selection, Candidates
  <2> HIDE DEF swept, runs
  <2>4. \A n \in S : RunOf[n] # r
    BY <2>2, <2>3 DEF RunTerminal
  <2>5. run'[r] = runs[r]
    BY <2>1, <2>4 DEF Resumed, runs
  <2>6. QED
    BY <2>2, <2>5
<1>6. ASSUME NEW n \in Node, NEW k \in AttemptNo, Settle(n, k) \/ Abandon(n, k)
      PROVE  run'[r].status = run[r].status
  <2>1. RunOf[n] # r /\ RunOf[n] \in Run
    BY <1>1, <1>2, <1>6
       DEF Settle, Complete, Retry, Defer, Fail, WaitForApproval, WaitForInput, WaitFor,
           RequireClaim, Abandon
  <2>2. CASE Abandon(n, k)
    <3>1. PICK o \in LostOutcomes({n}) :
            run' = LoseRuns(run, LoseAttempts(attempt, {<<n, k>>}), o)
      BY <2>2 DEF Abandon
    <3>2. DOMAIN o = {n}
      BY DEF LostOutcomes
    <3>3. QED
      BY <2>1, <3>1, <3>2 DEF LoseRuns
  <2>3. CASE Settle(n, k)
    <3>1. CASE Complete(n, k)
      BY <1>2, <2>1, <3>1 DEF Complete, RunTable
    <3>2. CASE FailRun(n, k)
      BY <1>2, <2>1, <3>2 DEF FailRun, RunTable
    <3>3. CASE \E status : Postpone(n, k, status)
      BY <1>2, <2>1, <3>3 DEF Postpone, RunTable
    <3>4. CASE \E waiting : WaitFor(n, k, waiting)
      BY <1>2, <2>1, <3>4 DEF WaitFor, RunTable
    <3>5. QED
      BY <2>3, <3>1, <3>2, <3>3, <3>4
         DEF Settle, Retry, Defer, Fail, WaitForApproval, WaitForInput
  <2>4. QED
    BY <1>6, <2>2, <2>3
<1>7. ASSUME NEW n \in Node, NEW k \in AttemptNo, Renew(n, k)
      PROVE  run'[r].status = run[r].status
  BY <1>4, <1>7 DEF Renew
<1>8. ASSUME NEW q \in Run,
             \/ Create(q)
             \/ RequestPause(q)
             \/ Resume(q)
             \/ Cancel(q)
             \/ UpgradeBudget(q)
             \/ DeadlinePasses(q)
             \/ \E i \in Instruction : AddInstruction(q, i)
             \/ \E i \in Instruction \union {None} : AppendPlan(q, i)
      PROVE  run'[r].status = run[r].status
  <2>1. CASE \E i \in Instruction : AddInstruction(q, i)
    BY <2>1 DEF AddInstruction
  <2>2. CASE q = r
    BY <1>3, <1>8, <2>1, <2>2
       DEF Create, RequestPause, Resume, Cancel, UpgradeBudget, DeadlinePasses, AppendPlan
  <2>3. CASE q # r
    BY <1>2, <1>8, <2>1, <2>3
       DEF Create, RequestPause, Resume, Cancel, UpgradeBudget, DeadlinePasses, AppendPlan,
           RunTable
  <2>4. QED
    BY <2>2, <2>3
<1>9. ASSUME \/ \E n \in Node, k \in AttemptNo : LeaseExpires(n, k)
             \/ \E n \in Node : BecomesDue(n)
             \/ UNCHANGED vars
      PROVE  run'[r].status = run[r].status
  BY <1>9 DEF LeaseExpires, BecomesDue, vars
<1>10. QED
  BY <1>5, <1>6, <1>7, <1>8, <1>9 DEF Next

(* A run that has ended and of which nothing runs stays as it is (the guards  *)
(* of claim_ready, pause, resume, cancel and append_plan, and the claim       *)
(* predicate of settling): a failed run comes back only through an attempt    *)
(* that was under way when it failed.                                         *)
THEOREM QuietEndsStay == Spec => QuietEndsAreFinal
<1>1. KernelInv /\ [Next]_vars
         => [\A r \in Run :
               (/\ run[r].status \in RunTerminal
                /\ \A n \in Node : RunOf[n] = r => node[n].status # "running")
                  => run'[r].status = run[r].status]_vars
  BY FinalStep
<1>2. QED
  BY <1>1, KernelInvariant, PTL DEF Spec, QuietEndsAreFinal

(* Completion and cancellation are final: nothing runs in a completed or a    *)
(* cancelled run.                                                             *)
THEOREM SuccessAndCancelFinal == Spec => SuccessAndCancelAreFinal
<1>1. ASSUME KernelInv, [Next]_vars, NEW r \in Run, run[r].status \in {"completed", "cancelled"}
      PROVE  run'[r].status = run[r].status
  <2>1. \A n \in Node : RunOf[n] = r => node[n].status # "running"
    BY <1>1 DEF KernelInv, Done, NodeOpen
  <2>2. QED
    BY <1>1, <2>1, FinalStep DEF RunTerminal
<1>2. KernelInv /\ [Next]_vars
         => [\A r \in Run : run[r].status \in {"completed", "cancelled"}
                              => run'[r].status = run[r].status]_vars
  BY <1>1
<1>3. QED
  BY <1>2, KernelInvariant, PTL DEF Spec, SuccessAndCancelAreFinal

=============================================================================
