--------------------------- MODULE WorkflowKernel ---------------------------
(***************************************************************************)
(* The durable Workflow Kernel: the runs, plan revisions, nodes, attempts  *)
(* and instructions that fairy_core/workflow/repository.py (with its       *)
(* approval, deadline and budget mixins) keeps in the Core database.       *)
(* One action is one committed unit of work.  The caller is arbitrary:     *)
(* whoever holds a claim may settle it at any time, and a user may pause,  *)
(* resume, cancel, steer or replan a run at any time.                      *)
(*                                                                         *)
(* Time is abstracted to the three comparisons the code makes with "now":  *)
(* whether an attempt's lease is still live (attempt[..].live), whether a  *)
(* node's available_at has come (node[..].due), and whether a run is past  *)
(* created_at + max_duration_seconds (run[..].overdue).                    *)
(***************************************************************************)
EXTENDS Integers, FiniteSets

CONSTANTS
    Run,            \* workflow run ids
    Node,           \* node ids of every plan a caller may submit
    Instruction,    \* idempotency keys of user instructions
    RunOf,          \* the run a node is planned for
    RevisionOf,     \* the plan revision a node belongs to
    Edge,           \* dependency edges <<from, to>>
    Serial,         \* nodes whose concurrency policy is SERIAL
    Keys,           \* a node's resource keys
    MaxAttempts,    \* a node's max_attempts
    Asking,         \* nodes whose adapter may stop for an approval or an input
    Blocking,       \* nodes whose kind may wait for a child workflow
    Child,          \* runs that have a parent run
    Upgradable,     \* runs the router may move to the deep budget
    MaxParallel,    \* max_parallel_nodes of the "normal" and "deep" tiers
    MaxLimit,       \* the largest limit a scheduler passes to claim_ready
    AttemptCap,     \* bound on attempt numbers
    None            \* no instruction

AttemptNo == 1..AttemptCap

(***************************************************************************)
(* What validate_plan and WorkflowBudget.__post_init__ guarantee of the    *)
(* rows, and that the bounds are numbers.                                  *)
(***************************************************************************)
ASSUME IdentityAssumption ==
    /\ IsFiniteSet(Node)
    /\ RunOf \in [Node -> Run]
    /\ RevisionOf \in [Node -> Nat]
    /\ Edge \subseteq Node \X Node
    /\ \A e \in Edge : /\ RunOf[e[1]] = RunOf[e[2]]
                       /\ RevisionOf[e[1]] = RevisionOf[e[2]]
    /\ None \notin Instruction

ASSUME BudgetAssumption ==
    /\ MaxParallel \in [{"normal", "deep"} -> Nat \ {0}]
    /\ MaxParallel["normal"] <= MaxParallel["deep"]
    /\ MaxAttempts \in [Node -> Nat \ {0}]
    /\ AttemptCap \in Nat \ {0}
    /\ MaxLimit \in Nat \ {0}

VARIABLES
    run,            \* workflow_runs
    node,           \* workflow_nodes
    attempt,        \* workflow_attempts, by <<node, attempt number>>
    instruction     \* workflow_instructions

vars == <<run, node, attempt, instruction>>

RunTerminal == {"completed", "cancelled", "failed"}
RunWaiting == {"waiting_for_approval", "waiting_for_input"}
RunStatus == {"absent", "queued", "running", "paused"} \union RunWaiting \union RunTerminal

NodeWaiting == {"waiting_for_approval", "waiting_for_input"}
NodeOpen == {"pending", "ready", "running"} \union NodeWaiting
NodeTerminal == {"succeeded", "failed", "cancelled", "superseded"}
NodeStatus == {"absent"} \union NodeOpen \union NodeTerminal

AttemptStatus ==
    {"absent", "running", "succeeded", "failed", "abandoned", "cancelled", "waiting"}

RunTable == [Run -> [status : RunStatus, revision : Nat, cancellation : Nat,
                     pause : BOOLEAN, tier : {"normal", "deep"}, overdue : BOOLEAN]]
NodeTable == [Node -> [status : NodeStatus, attempts : 0..AttemptCap, due : BOOLEAN]]
AttemptTable ==
    [Node \X AttemptNo -> [status : AttemptStatus, cancellation : Nat, live : BOOLEAN]]
InstructionTable ==
    [Instruction -> [status : {"absent", "pending", "applied"}, run : Run \union {None},
                     expected : Nat, applied : Nat]]

(* Every row is one the tables admit. *)
TypeOK ==
    /\ run \in RunTable
    /\ node \in NodeTable
    /\ attempt \in AttemptTable
    /\ instruction \in InstructionTable

(* Definitions named Faulty... are variants with one plausible mistake; they  *)
(* are not part of the specification and only show that the properties notice *)
(* the mistake.                                                               *)
FaultyLive(r) == run[r].status \notin {"absent", "completed", "failed"}
Live(r) == run[r].status \notin RunTerminal \union {"absent"}

Plan(r, revision) == {n \in Node : RunOf[n] = r /\ RevisionOf[n] = revision}
ActivePlan(r) == Plan(r, run[r].revision)
Sources(n) == {m \in Node : <<m, n>> \in Edge}

(* A plan is accepted when it has a node and no cycle: every part of it has *)
(* a node that nothing in that part precedes.                               *)
ValidPlan(P) ==
    /\ P # {}
    /\ \A part \in SUBSET P \ {{}} : \E n \in part : Sources(n) \intersect part = {}

-----------------------------------------------------------------------------
(* Pieces of transactions.  "nodes" and "attempts" are the tables as the    *)
(* transaction has left them so far.                                        *)

FaultyHasRunningAttempt(attempts, r) ==
    \E n \in Node, k \in AttemptNo :
        RunOf[n] = r /\ attempts[<<n, k>>].status = "running" /\ attempts[<<n, k>>].live
HasRunningAttempt(attempts, r) ==
    \E n \in Node, k \in AttemptNo : RunOf[n] = r /\ attempts[<<n, k>>].status = "running"

SetNodes(N, status) ==
    [n \in Node |-> IF n \in N THEN [node[n] EXCEPT !.status = status] ELSE node[n]]

SettleAttempt(n, k, status) ==
    [attempt EXCEPT ![<<n, k>>] = [@ EXCEPT !.status = status, !.live = FALSE]]

FaultyCancelAttempts(attempts, R) == attempts
CancelAttempts(attempts, R) ==
    [a \in Node \X AttemptNo |->
        IF RunOf[a[1]] \in R /\ attempts[a].status = "running"
        THEN [attempts[a] EXCEPT !.status = "cancelled", !.live = FALSE]
        ELSE attempts[a]]

InsertPlan(nodes, P) ==
    [n \in Node |->
        IF n \in P
        THEN [status |-> IF Sources(n) = {} THEN "ready" ELSE "pending",
              attempts |-> 0, due |-> TRUE]
        ELSE nodes[n]]

FaultyPromoteAny(nodes, r, revision) ==
    [n \in Node |->
        IF /\ n \in Plan(r, revision)
           /\ nodes[n].status = "pending"
           /\ \E m \in Sources(n) : nodes[m].status = "succeeded"
        THEN [nodes[n] EXCEPT !.status = "ready"] ELSE nodes[n]]
FaultyPromoteNone(nodes, r, revision) == nodes

(* Dependents of a revision become ready once all their sources succeeded.  *)
PromoteDependents(nodes, r, revision) ==
    [n \in Node |->
        IF /\ n \in Plan(r, revision)
           /\ nodes[n].status = "pending"
           /\ Sources(n) # {}
           /\ \A m \in Sources(n) : nodes[m].status = "succeeded"
        THEN [nodes[n] EXCEPT !.status = "ready"]
        ELSE nodes[n]]

FaultySettledStatus(nodes, attempts, r) ==
    IF \A n \in ActivePlan(r) : nodes[n].status = "succeeded" THEN "succeeded" ELSE "running"
FaultySettledWhenIdle(nodes, attempts, r) ==
    IF {nodes[n].status : n \in ActivePlan(r)} \intersect {"ready", "running"} = {}
    THEN "completed" ELSE "running"

(* The status _settle_run gives a run, tested in the code's order.          *)
SettledStatus(nodes, attempts, r) ==
    LET present == {nodes[n].status : n \in ActivePlan(r)}
    IN  IF run[r].pause /\ ~HasRunningAttempt(attempts, r) THEN "paused"
        ELSE IF present # {} /\ present \subseteq NodeTerminal
             THEN IF "failed" \in present THEN "failed"
                  ELSE IF "cancelled" \in present THEN "cancelled" ELSE "completed"
        ELSE IF "running" \in present THEN "running"
        ELSE IF "waiting_for_approval" \in present THEN "waiting_for_approval"
        ELSE IF "waiting_for_input" \in present THEN "waiting_for_input"
        ELSE "queued"

(* The claim predicates.  Owner, fence, cancellation and plan revision of a  *)
(* claim are those of the attempt row it was issued with, and are never      *)
(* rewritten while that attempt runs.                                        *)
ClaimHeld(n, k) == attempt[<<n, k>>].status = "running"

RequireClaim(n, k) ==
    /\ ClaimHeld(n, k)
    /\ node[n].status = "running"
    /\ attempt[<<n, k>>].live
    /\ run[RunOf[n]].cancellation = attempt[<<n, k>>].cancellation

-----------------------------------------------------------------------------
(* Lost attempts: abandon by the claimant, or _reclaim_expired.  The rows    *)
(* are visited in any order, so a run whose budget of attempts is exhausted  *)
(* by one of them fails there: nodes visited earlier were made ready, nodes  *)
(* visited later find the run terminal and are cancelled.                    *)

LostOutcomes(N) ==
    {o \in [N -> {"ready", "failed", "cancelled"}] :
        \A r \in Run :
            LET lost == {n \in N : RunOf[n] = r}
                spent == {n \in lost : node[n].attempts >= MaxAttempts[n]}
            IN  IF run[r].status \in RunTerminal
                THEN \A n \in lost : o[n] = "cancelled"
                ELSE IF spent = {} THEN \A n \in lost : o[n] = "ready"
                ELSE \E first \in spent :
                        /\ o[first] = "failed"
                        /\ \A n \in lost \ {first} :
                              \/ o[n] = "cancelled"
                              \/ n \notin spent /\ o[n] = "ready"}

FaultyLoseAttempts(attempts, A) ==
    [a \in Node \X AttemptNo |->
        IF a[1] \in {lost[1] : lost \in A} /\ attempts[a].status # "absent"
        THEN [attempts[a] EXCEPT !.status = "abandoned", !.live = FALSE] ELSE attempts[a]]
LoseAttempts(attempts, A) ==
    [a \in Node \X AttemptNo |->
        IF a \in A THEN [attempts[a] EXCEPT !.status = "abandoned", !.live = FALSE]
        ELSE attempts[a]]

FaultyLoseNodes(nodes, o) ==
    [n \in Node |-> IF n \in DOMAIN o /\ nodes[n].status = "running"
                    THEN [nodes[n] EXCEPT !.status = o[n], !.due = FALSE] ELSE nodes[n]]
LoseNodes(nodes, o) ==
    [n \in Node |-> IF n \in DOMAIN o /\ nodes[n].status = "running"
                    THEN [nodes[n] EXCEPT !.status = o[n]] ELSE nodes[n]]

(* The run of a lost attempt fails, pauses once nothing of it runs, or goes  *)
(* back to the queue.  A terminal run stays as it is.                        *)
LoseRuns(runs, attempts, o) ==
    [r \in Run |->
        LET lost == {n \in DOMAIN o : RunOf[n] = r}
        IN  IF lost = {} \/ runs[r].status \in RunTerminal THEN runs[r]
            ELSE IF \E n \in lost : o[n] = "failed"
                 THEN [runs[r] EXCEPT !.status = "failed"]
            ELSE IF runs[r].pause
                 THEN IF HasRunningAttempt(attempts, r) THEN runs[r]
                      ELSE [runs[r] EXCEPT !.status = "paused"]
            ELSE [runs[r] EXCEPT !.status = "queued"]]

(* _expire_overdue: every live run past its deadline is failed and fenced.   *)
Overdue == {r \in Run : Live(r) /\ run[r].overdue}

ExpireNodes ==
    [n \in Node |-> IF RunOf[n] \in Overdue /\ node[n].status \in NodeOpen
                    THEN [node[n] EXCEPT !.status = "cancelled"] ELSE node[n]]

ExpireRuns ==
    [r \in Run |-> IF r \in Overdue
                   THEN [run[r] EXCEPT !.status = "failed", !.pause = FALSE,
                                       !.cancellation = @ + 1]
                   ELSE run[r]]

(* _reclaim_expired: the attempts whose lease ran out, in the other runs.     *)
Reclaimable ==
    {a \in Node \X AttemptNo : /\ attempt[a].status = "running"
                               /\ ~attempt[a].live
                               /\ RunOf[a[1]] \notin Overdue}

-----------------------------------------------------------------------------
(* Which ready nodes one call of claim_ready selects.                        *)

ChildNodes == {n \in Node : RunOf[n] \in Child}
BlockingParents == Blocking \ ChildNodes

Candidates(nodes, runs) ==
    {n \in Node : LET r == RunOf[n]
                  IN  /\ nodes[n].status = "ready"
                      /\ nodes[n].due
                      /\ nodes[n].attempts < AttemptCap
                      /\ RevisionOf[n] = runs[r].revision
                      /\ runs[r].status \in {"queued", "running"}
                      /\ ~runs[r].pause}

(* Two nodes of a run that may be active together (conflicts).               *)
Compatible(n, m) == n \notin Serial /\ m \notin Serial /\ Keys[n] \intersect Keys[m] = {}

Busy(nodes, r) == {n \in Node : RunOf[n] = r /\ nodes[n].status = "running"}

FaultyFits(nodes, runs, S, n) ==
    LET others == {m \in S : RunOf[m] = RunOf[n]} \ {n}
    IN  /\ Cardinality(others) < MaxParallel[runs[RunOf[n]].tier]
        /\ \A m \in others : Compatible(n, m)
Fits(nodes, runs, S, n) ==
    LET others == (Busy(nodes, RunOf[n]) \union {m \in S : RunOf[m] = RunOf[n]}) \ {n}
    IN  /\ Cardinality(others) < MaxParallel[runs[RunOf[n]].tier]
        /\ \A m \in others : Compatible(n, m)

(* The last slot is kept for a child run when a parent that may wait for one *)
(* is already active (reserve) or is selected.                               *)
KeepsChildSlot(S, limit, reserve) ==
    S \intersect ChildNodes = {} /\ (reserve \/ S \intersect BlockingParents # {})
        => Cardinality(S) < limit

(* The scan goes round the runs, children first, one node per run and pass.  *)
(* PassedOver: nodes that could have gone first in a pass their run missed.  *)
PassedOver(nodes, runs, S) ==
    {n \in Candidates(nodes, runs) :
        /\ Fits(nodes, runs, {}, n)
        /\ \A m \in S : RunOf[m] # RunOf[n]
        /\ n \in BlockingParents => S \intersect ChildNodes # {}}

Selection(nodes, runs, S, limit, reserve) ==
    LET passedOver == PassedOver(nodes, runs, S)
    IN  /\ S \subseteq Candidates(nodes, runs)
        /\ Cardinality(S) <= limit
        /\ \A n \in S : Fits(nodes, runs, S, n)
        /\ KeepsChildSlot(S, limit, reserve)
        /\ \A n \in Candidates(nodes, runs) \ S :
              Fits(nodes, runs, S, n) /\ Cardinality(S) < limit
                  => n \notin ChildNodes /\ ~KeepsChildSlot(S \union {n}, limit, reserve)
        /\ passedOver # {} => \A n, m \in S : RunOf[n] = RunOf[m] => n = m
        /\ passedOver \intersect ChildNodes # {} => S \subseteq ChildNodes

-----------------------------------------------------------------------------
Init ==
    /\ run = [r \in Run |-> [status |-> "absent", revision |-> 0, cancellation |-> 0,
                             pause |-> FALSE, tier |-> "normal", overdue |-> FALSE]]
    /\ node = [n \in Node |-> [status |-> "absent", attempts |-> 0, due |-> FALSE]]
    /\ attempt = [a \in Node \X AttemptNo |->
                    [status |-> "absent", cancellation |-> 0, live |-> FALSE]]
    /\ instruction = [i \in Instruction |->
                        [status |-> "absent", run |-> None, expected |-> 0, applied |-> 0]]

Create(r) ==
    /\ run[r].status = "absent"
    /\ ValidPlan(Plan(r, 1))
    /\ run' = [run EXCEPT ![r].status = "queued", ![r].revision = 1]
    /\ node' = InsertPlan(node, Plan(r, 1))
    /\ UNCHANGED <<attempt, instruction>>

(* A committed claim_ready: deadlines, expired leases and claims are one      *)
(* unit of work, and the scheduler commits it only when it claimed a node.    *)
ClaimReady(limit, reserve) ==
    LET swept == LoseAttempts(CancelAttempts(attempt, Overdue), Reclaimable)
    IN  \E o \in LostOutcomes({a[1] : a \in Reclaimable}), S \in SUBSET Node :
            LET nodes == LoseNodes(ExpireNodes, o)
                runs == LoseRuns(ExpireRuns, swept, o)
            IN  /\ S # {}
                /\ Selection(nodes, runs, S, limit, reserve)
                /\ node' = [n \in Node |->
                      IF n \in S THEN [nodes[n] EXCEPT !.status = "running", !.attempts = @ + 1]
                      ELSE nodes[n]]
                /\ attempt' = [a \in Node \X AttemptNo |->
                      IF a[1] \in S /\ a[2] = nodes[a[1]].attempts + 1
                      THEN [status |-> "running", live |-> TRUE,
                            cancellation |-> runs[RunOf[a[1]]].cancellation]
                      ELSE swept[a]]
                /\ run' = [r \in Run |->
                      IF \E n \in S : RunOf[n] = r THEN [runs[r] EXCEPT !.status = "running"]
                      ELSE runs[r]]
                /\ UNCHANGED instruction

(* A heartbeat that keeps its lease also commits the deadlines it noticed.    *)
Renew(n, k) ==
    /\ ClaimHeld(n, k)
    /\ attempt[<<n, k>>].live
    /\ RunOf[n] \notin Overdue
    /\ run' = ExpireRuns
    /\ node' = ExpireNodes
    /\ attempt' = CancelAttempts(attempt, Overdue)
    /\ UNCHANGED instruction

Complete(n, k) ==
    LET r == RunOf[n]
        settled == SettleAttempt(n, k, "succeeded")
        promoted == PromoteDependents(SetNodes({n}, "succeeded"), r, RevisionOf[n])
    IN  /\ RequireClaim(n, k)
        /\ attempt' = settled
        /\ node' = promoted
        /\ run' = [run EXCEPT ![r].status = SettledStatus(promoted, settled, r)]
        /\ UNCHANGED instruction

(* The node fails, everything else of its run is cancelled, and the run is    *)
(* failed and fenced.                                                         *)
FailRun(n, k) ==
    LET r == RunOf[n]
    IN  /\ attempt' = [CancelAttempts(attempt, {r}) EXCEPT ![<<n, k>>] =
                          [@ EXCEPT !.status = "failed", !.live = FALSE]]
        /\ node' = [m \in Node |->
              IF m = n THEN [node[m] EXCEPT !.status = "failed"]
              ELSE IF RunOf[m] = r /\ node[m].status \in NodeOpen
                   THEN [node[m] EXCEPT !.status = "cancelled"] ELSE node[m]]
        /\ run' = [run EXCEPT ![r].status = "failed", ![r].cancellation = @ + 1]
        /\ UNCHANGED instruction

Fail(n, k) == RequireClaim(n, k) /\ FailRun(n, k)

(* The node goes back to ready for a later time; its run goes to the queue.   *)
Postpone(n, k, status) ==
    /\ attempt' = SettleAttempt(n, k, status)
    /\ node' = [node EXCEPT ![n] = [@ EXCEPT !.status = "ready", !.due = FALSE]]
    /\ run' = [run EXCEPT ![RunOf[n]].status = "queued"]
    /\ UNCHANGED instruction

Retry(n, k) ==
    /\ RequireClaim(n, k)
    /\ IF node[n].attempts >= MaxAttempts[n] THEN FailRun(n, k) ELSE Postpone(n, k, "failed")

Defer(n, k) ==
    /\ RequireClaim(n, k)
    /\ IF node[n].attempts >= MaxAttempts[n] THEN FailRun(n, k) ELSE Postpone(n, k, "waiting")

(* wait_for_approval and wait_for_input.                                      *)
WaitFor(n, k, waiting) ==
    /\ n \in Asking
    /\ RequireClaim(n, k)
    /\ attempt' = SettleAttempt(n, k, "waiting")
    /\ node' = SetNodes({n}, waiting)
    /\ run' = [run EXCEPT ![RunOf[n]].status = waiting]
    /\ UNCHANGED instruction

WaitForApproval(n, k) == WaitFor(n, k, "waiting_for_approval")
WaitForInput(n, k) == WaitFor(n, k, "waiting_for_input")

(* The claimant gives its attempt up; its lease need not be live.             *)
Abandon(n, k) ==
    LET swept == LoseAttempts(attempt, {<<n, k>>})
    IN  /\ ClaimHeld(n, k)
        /\ \E o \in LostOutcomes({n}) :
              /\ node' = LoseNodes(node, o)
              /\ run' = LoseRuns(run, swept, o)
        /\ attempt' = swept
        /\ UNCHANGED instruction

RequestPause(r) ==
    /\ Live(r)
    /\ run' = [run EXCEPT ![r].pause = TRUE,
                          ![r].status = IF HasRunningAttempt(attempt, r)
                                        THEN "running" ELSE "paused"]
    /\ UNCHANGED <<node, attempt, instruction>>

FaultyResume(r) ==
    /\ Live(r)
    /\ node' = SetNodes({n \in ActivePlan(r) : node[n].status \in NodeWaiting}, "ready")
    /\ run' = [run EXCEPT ![r].pause = FALSE]
    /\ UNCHANGED <<attempt, instruction>>
Resume(r) ==
    /\ Live(r)
    /\ node' = IF run[r].status \in RunWaiting
               THEN SetNodes({n \in ActivePlan(r) : node[n].status \in NodeWaiting}, "ready")
               ELSE node
    /\ run' = [run EXCEPT ![r].pause = FALSE,
                          ![r].status = IF HasRunningAttempt(attempt, r)
                                        THEN "running" ELSE "queued"]
    /\ UNCHANGED <<attempt, instruction>>

Cancel(r) ==
    /\ Live(r)
    /\ attempt' = CancelAttempts(attempt, {r})
    /\ node' = SetNodes({n \in Node : RunOf[n] = r /\ node[n].status \in NodeOpen}, "cancelled")
    /\ run' = [run EXCEPT ![r].status = "cancelled", ![r].pause = FALSE,
                          ![r].cancellation = @ + 1]
    /\ UNCHANGED instruction

AddInstruction(r, i) ==
    /\ instruction[i].status = "absent"
    /\ Live(r)
    /\ instruction' = [instruction EXCEPT ![i] =
          [status |-> "pending", run |-> r, expected |-> run[r].revision, applied |-> 0]]
    /\ UNCHANGED <<run, node, attempt>>

FaultyAppendPlan(r, i) ==
    LET next == run[r].revision + 1
    IN  /\ Live(r)
        /\ ~HasRunningAttempt(attempt, r)
        /\ ValidPlan(Plan(r, next))
        /\ node' = InsertPlan(node, Plan(r, next))
        /\ run' = [run EXCEPT ![r].revision = next, ![r].status = "queued"]
        /\ instruction' = [j \in Instruction |->
              IF instruction[j].run = r /\ instruction[j].status = "pending"
              THEN [instruction[j] EXCEPT !.status = "applied", !.applied = next]
              ELSE instruction[j]]
        /\ UNCHANGED attempt

(* A new plan revision replaces the open nodes of the active one, at a        *)
(* boundary where nothing of the run is executing, and consumes i.            *)
AppendPlan(r, i) ==
    LET next == run[r].revision + 1
        replaced == {n \in ActivePlan(r) : node[n].status \in NodeOpen \ {"running"}}
    IN  /\ Live(r)
        /\ ~HasRunningAttempt(attempt, r)
        /\ ValidPlan(Plan(r, next))
        /\ node' = InsertPlan(SetNodes(replaced, "superseded"), Plan(r, next))
        /\ run' = [run EXCEPT ![r].revision = next, ![r].status = "queued",
                              ![r].pause = FALSE]
        /\ instruction' = [j \in Instruction |->
              IF j = i /\ instruction[j].run = r /\ instruction[j].status = "pending"
              THEN [instruction[j] EXCEPT !.status = "applied", !.applied = next]
              ELSE instruction[j]]
        /\ UNCHANGED attempt

(* From the normal to the deep tier: more parallel nodes, a later deadline.   *)
UpgradeBudget(r) ==
    /\ r \in Upgradable
    /\ Live(r)
    /\ run[r].tier = "normal"
    /\ \E late \in {FALSE, run[r].overdue} :
          run' = [run EXCEPT ![r].tier = "deep", ![r].overdue = late]
    /\ UNCHANGED <<node, attempt, instruction>>

(* The passage of time. *)
LeaseExpires(n, k) ==
    /\ attempt[<<n, k>>].status = "running"
    /\ attempt[<<n, k>>].live
    /\ attempt' = [attempt EXCEPT ![<<n, k>>].live = FALSE]
    /\ UNCHANGED <<run, node, instruction>>

BecomesDue(n) ==
    /\ node[n].status = "ready"
    /\ ~node[n].due
    /\ node' = [node EXCEPT ![n].due = TRUE]
    /\ UNCHANGED <<run, attempt, instruction>>

DeadlinePasses(r) ==
    /\ Live(r)
    /\ ~run[r].overdue
    /\ run' = [run EXCEPT ![r].overdue = TRUE]
    /\ UNCHANGED <<node, attempt, instruction>>

Settle(n, k) ==
    \/ Complete(n, k)
    \/ Retry(n, k)
    \/ Defer(n, k)
    \/ Fail(n, k)
    \/ WaitForApproval(n, k)
    \/ WaitForInput(n, k)

Next ==
    \/ \E limit \in 1..MaxLimit, reserve \in BOOLEAN : ClaimReady(limit, reserve)
    \/ \E n \in Node, k \in AttemptNo :
          Settle(n, k) \/ Abandon(n, k) \/ Renew(n, k) \/ LeaseExpires(n, k)
    \/ \E r \in Run :
          \/ Create(r)
          \/ RequestPause(r)
          \/ Resume(r)
          \/ Cancel(r)
          \/ UpgradeBudget(r)
          \/ DeadlinePasses(r)
          \/ \E i \in Instruction : AddInstruction(r, i)
          \/ \E i \in Instruction \union {None} : AppendPlan(r, i)
    \/ \E n \in Node : BecomesDue(n)

Spec == Init /\ [][Next]_vars

-----------------------------------------------------------------------------
(* Safety *)

(* A node is running exactly while its newest attempt is: no interleaving of *)
(* reclaim, late completion, cancel and replan leaves two attempts of a node *)
(* in flight, or a running node that nobody holds (claim_ready,              *)
(* _reclaim_expired, fail, cancel, _expire_overdue all rewrite both tables). *)
OneAttemptInFlight ==
    \A n \in Node, k \in AttemptNo :
        attempt[<<n, k>>].status = "running" <=> node[n].status = "running" /\ node[n].attempts = k

(* Open work, and so every attempt in flight, belongs to the run's active    *)
(* plan revision, although no settle operation compares them: append_plan    *)
(* refuses to replan over a running attempt and supersedes what is open, and *)
(* nothing is written for a revision before it exists.                       *)
PlansAreHistory ==
    \A n \in Node :
        LET r == RunOf[n]
        IN  /\ node[n].status # "absent"
                  => run[r].status # "absent" /\ RevisionOf[n] <= run[r].revision
            /\ node[n].status \in NodeOpen => RevisionOf[n] = run[r].revision
            /\ node[n].status = "superseded" => RevisionOf[n] < run[r].revision
            /\ node[n].status = "running" => node[n].attempts >= 1

(* A claimed node's dependencies have all succeeded, through promotion,      *)
(* retry, waiting, lost leases and new plans (_promote_dependents).          *)
DependenciesFirst ==
    \A n \in Node :
        node[n].status \in {"ready", "running", "succeeded"} \union NodeWaiting
            => \A m \in Sources(n) : node[m].status = "succeeded"

(* Nodes of a run that run together are within its parallel budget and       *)
(* pairwise free of conflicts, across any number of claim_ready calls.       *)
ConcurrencyRespected ==
    \A r \in Run :
        /\ Cardinality(Busy(node, r)) <= MaxParallel[run[r].tier]
        /\ \A n, m \in Busy(node, r) : n # m => Compatible(n, m)

(* A paused run holds no worker (claim_ready, request_pause, _settle_pause). *)
PausedIsQuiet ==
    \A r \in Run : run[r].status = "paused" => run[r].pause /\ Busy(node, r) = {}

(* A completed or cancelled run has no open work left in any revision, and a *)
(* completed one lost none of its active plan.                               *)
FinishedIsDone ==
    \A r \in Run :
        /\ run[r].status \in {"completed", "cancelled"}
              => \A n \in Node : RunOf[n] = r => node[n].status \notin NodeOpen
        /\ run[r].status = "completed"
              => \A n \in ActivePlan(r) : node[n].status = "succeeded"

(* A run that says it waits for somebody has a node that does; it is not     *)
(* left waiting by the node's replan, loss or cancellation.                  *)
WaitingHasReason ==
    \A r \in Run :
        run[r].status \in RunWaiting
            => \E n \in ActivePlan(r) : node[n].status = run[r].status

(* Completion and cancellation are final, whatever late claim is settled or  *)
(* user request arrives afterwards.                                          *)
SuccessAndCancelAreFinal ==
    [][\A r \in Run : run[r].status \in {"completed", "cancelled"}
                        => run'[r].status = run[r].status]_vars

(* A run that has ended stays as it ended once nothing of it runs.  Only     *)
(* work that was under way when it failed can still bring it back: see       *)
(* TerminalIsIrreversible.                                                   *)
QuietEndsAreFinal ==
    [][\A r \in Run :
          (/\ run[r].status \in RunTerminal
           /\ \A n \in Node : RunOf[n] = r => node[n].status # "running")
             => run'[r].status = run[r].status]_vars

(* A cancelled or failed-and-fenced run never has another node succeed: the  *)
(* cancellation revision of an attempt outlives every change to its run.     *)
FencedWorkNeverSucceeds ==
    [][\A r \in Run : run'[r].cancellation > 0
          => \A n \in Node : RunOf[n] = r /\ node'[n].status = "succeeded"
                                => node[n].status = "succeeded"]_vars

(* Attempts are a history: a settled attempt is never reopened or rewritten, *)
(* and numbers are handed out one by one.                                    *)
AttemptsAreHistory ==
    [][\A n \in Node, k \in AttemptNo :
          /\ attempt[<<n, k>>].status \notin {"absent", "running"} => attempt'[<<n, k>>] = attempt[<<n, k>>]
          /\ attempt[<<n, k>>].status = "absent" /\ attempt'[<<n, k>>].status # "absent"
                => \A j \in 1..(k - 1) : attempt'[<<n, j>>].status \notin {"absent", "running"}]_vars

(* An instruction is consumed at most once, by the one plan revision it      *)
(* produced, and never by two.                                               *)
InstructionsConsumedOnce ==
    \A i, j \in Instruction :
        instruction[i].status = "applied"
            => /\ instruction[i].applied > instruction[i].expected
               /\ instruction[i].applied <= run[instruction[i].run].revision
               /\ (j # i /\ instruction[j].status = "applied"
                     /\ instruction[j].run = instruction[i].run)
                        => instruction[j].applied # instruction[i].applied

(* What the design promises of every terminal run (kernel design, line 29).  *)
TerminalIsIrreversible ==
    [][\A r \in Run : run[r].status \in RunTerminal => run'[r].status = run[r].status]_vars

(* A run that is queued or running, and not pausing, has a node of its       *)
(* active plan that is running or can be claimed now or later.               *)
NotStranded ==
    \A r \in Run :
        run[r].status \in {"queued", "running"} /\ ~run[r].pause
            => \E n \in ActivePlan(r) : node[n].status \in {"ready", "running"}

-----------------------------------------------------------------------------
(* Liveness.  The coordinator polls for claimable work for as long as the    *)
(* process lives, a claimant settles its attempt or lets the lease run out,  *)
(* and time passes.                                                          *)

Fairness ==
    /\ WF_vars(\E limit \in 1..MaxLimit, reserve \in BOOLEAN : ClaimReady(limit, reserve))
    /\ \A n \in Node, k \in AttemptNo : WF_vars(Settle(n, k) \/ LeaseExpires(n, k))
    /\ \A n \in Node : WF_vars(BecomesDue(n))

FairSpec == Spec /\ Fairness

Expired(n, k) == attempt[<<n, k>>].status = "running" /\ ~attempt[<<n, k>>].live

(* Nothing of r is past its deadline, pausing, or lost on its last attempt.  *)
Calm(r) ==
    /\ ~run[r].pause
    /\ ~run[r].overdue
    /\ \A n \in Node, k \in AttemptNo :
          RunOf[n] = r /\ (Expired(n, k) \/ attempt[<<n, k>>].status = "abandoned")
              => k < MaxAttempts[n]

(* A crash is recovered after lease expiry (kernel design, line 107) as long *)
(* as the run has attempts left and is not pausing.                          *)
CalmCrashIsRecovered ==
    \A n \in Node, k \in AttemptNo :
        LET lost == Expired(n, k) /\ Live(RunOf[n]) /\ Calm(RunOf[n])
        IN  lost ~> ~lost

(* A run nobody disturbs ends or asks its user something: leases, retries,   *)
(* deferrals and dependencies never leave it idle.                           *)
CalmRunsFinish ==
    \A r \in Run :
        []Calm(r) => (run[r].status = "queued" ~> run[r].status \in RunTerminal \union RunWaiting)

(* The same promise for every lost lease.                                    *)
CrashIsRecovered ==
    \A n \in Node, k \in AttemptNo : Expired(n, k) ~> ~Expired(n, k)

=============================================================================
