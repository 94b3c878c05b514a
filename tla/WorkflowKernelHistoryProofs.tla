-------------------- MODULE WorkflowKernelHistoryProofs --------------------
(***************************************************************************)
(* More theorems about WorkflowKernel: what the tables remember.  They are *)
(* about the order of a plan, the numbering of attempts, cancellation      *)
(* fences, the concurrency of a run, the reason a run waits for and the    *)
(* instructions that new plans consume.  KernelInv of WorkflowKernelProofs *)
(* is strengthened by History, which is stated of tables so that it can be *)
(* followed through the stages of one transaction.                         *)
(***************************************************************************)
EXTENDS WorkflowKernelProofs, FiniteSetTheorems

Started == {"ready", "running", "succeeded"} \union NodeWaiting

(* What has started comes after its sources. *)
Ordered(nodes) ==
    \A n \in Node :
        nodes[n].status \in Started => \A m \in Sources(n) : nodes[m].status = "succeeded"

(* A node counts its attempts, and an absent one has none. *)
Numbered(nodes, attempts) ==
    \A n \in Node :
        /\ nodes[n].status = "absent" => nodes[n].attempts = 0
        /\ \A k \in AttemptNo : attempts[<<n, k>>].status # "absent" <=> k <= nodes[n].attempts

(* A fenced run has ended, with all of its nodes. *)
Fenced(nodes, runs) ==
    \A r \in Run :
        runs[r].cancellation > 0
            => /\ runs[r].status \in {"failed", "cancelled"}
               /\ \A n \in Node : RunOf[n] = r => nodes[n].status \notin NodeOpen

Within(nodes, runs) ==
    \A r \in Run :
        /\ Cardinality(Busy(nodes, r)) <= MaxParallel[runs[r].tier]
        /\ \A n, m \in Busy(nodes, r) : n # m => Compatible(n, m)

Reasoned(nodes, runs) ==
    \A r \in Run :
        runs[r].status \in RunWaiting
            => \E n \in Node : /\ RunOf[n] = r
                               /\ RevisionOf[n] = runs[r].revision
                               /\ nodes[n].status = runs[r].status

History(nodes, attempts, runs) ==
    /\ Ordered(nodes)
    /\ Numbered(nodes, attempts)
    /\ Fenced(nodes, runs)
    /\ Within(nodes, runs)
    /\ Reasoned(nodes, runs)

(***************************************************************************)
(* Most transactions, and the first two stages of claim_ready, begin no    *)
(* work: from (nodes, attempts, runs) they lead to (after, left, settled)  *)
(* with no node running, open or started that was not, except a node whose *)
(* sources have all succeeded; attempts only end, and so do runs.          *)
(***************************************************************************)
NodesRecede(nodes, after) ==
    \A n \in Node :
        /\ after[n].attempts = nodes[n].attempts
        /\ after[n].status = "absent" <=> nodes[n].status = "absent"
        /\ nodes[n].status = "succeeded" => after[n].status = "succeeded"
        /\ after[n].status = "succeeded" => nodes[n].status \in NodeOpen \union {"succeeded"}
        /\ after[n].status = "running" => nodes[n].status = "running"
        /\ after[n].status \in NodeOpen => nodes[n].status \in NodeOpen
        /\ after[n].status \in Started
              => \/ nodes[n].status \in Started
                 \/ \A m \in Sources(n) : after[m].status = "succeeded"

AttemptsRecede(attempts, left) ==
    \A n \in Node, k \in AttemptNo :
        \/ left[<<n, k>>] = attempts[<<n, k>>]
        \/ attempts[<<n, k>>].status = "running" /\ left[<<n, k>>].status # "absent"

(* A run keeps its cancellation revision, and its status once it has ended    *)
(* and nothing of it runs, or it is closed with all of its nodes, of which    *)
(* none succeeds.                                                             *)
FenceKept(r, nodes, runs, after, settled) ==
    \/ /\ settled[r].cancellation = runs[r].cancellation
       /\ \/ settled[r].status = runs[r].status
          \/ runs[r].status \notin RunTerminal
          \/ \E n \in Node : RunOf[n] = r /\ nodes[n].status = "running"
    \/ /\ settled[r].status \in {"failed", "cancelled"}
       /\ \A n \in Node : RunOf[n] = r =>
             /\ after[n].status \notin NodeOpen
             /\ after[n].status = "succeeded" => nodes[n].status = "succeeded"

(* A run that waits keeps its reason or has a new one. *)
ReasonKept(r, nodes, runs, after, settled) ==
    settled[r].status \in RunWaiting
        => \/ /\ settled[r].status = runs[r].status
              /\ \A n \in Node : RunOf[n] = r /\ nodes[n].status = runs[r].status
                                    => after[n].status = runs[r].status
           \/ \E n \in Node : /\ RunOf[n] = r
                              /\ RevisionOf[n] = runs[r].revision
                              /\ after[n].status = settled[r].status

RunsRecede(nodes, runs, after, settled) ==
    \A r \in Run :
        /\ settled[r].revision = runs[r].revision
        /\ settled[r].status = "absent" <=> runs[r].status = "absent"
        /\ settled[r].tier \in {runs[r].tier, "deep"}
        /\ FenceKept(r, nodes, runs, after, settled)
        /\ ReasonKept(r, nodes, runs, after, settled)

LEMMA BusyFinite ==
    ASSUME NEW nodes, NEW r
    PROVE  IsFiniteSet(Busy(nodes, r)) /\ Cardinality(Busy(nodes, r)) \in Nat
<1>1. Busy(nodes, r) \in SUBSET Node /\ IsFiniteSet(Node)
  BY IdentityAssumption DEF Busy
<1>2. IsFiniteSet(Busy(nodes, r))
  BY <1>1, FS_Subset
<1>3. QED
  BY <1>2, FS_CardinalityType

(* No budget is smaller than the normal one or larger than the deep one. *)
LEMMA TierBound ==
    ASSUME NEW tier \in {"normal", "deep"}
    PROVE  /\ MaxParallel[tier] \in Nat
           /\ 1 <= MaxParallel[tier]
           /\ MaxParallel[tier] <= MaxParallel["deep"]
BY BudgetAssumption

LEMMA FewerBusyWithin ==
    ASSUME NEW nodes, NEW runs \in RunTable, NEW after, NEW settled, Within(nodes, runs),
           \A n \in Node : after[n].status = "running" => nodes[n].status = "running",
           \A r \in Run : settled[r].tier \in {runs[r].tier, "deep"}
    PROVE  Within(after, settled)
<1> SUFFICES ASSUME NEW r \in Run
             PROVE  /\ Cardinality(Busy(after, r)) <= MaxParallel[settled[r].tier]
                    /\ \A n, m \in Busy(after, r) : n # m => Compatible(n, m)
  BY DEF Within
<1>1. Busy(after, r) \in SUBSET Busy(nodes, r)
  BY DEF Busy
<1>2. \A n, m \in Busy(after, r) : n # m => Compatible(n, m)
  BY <1>1 DEF Within
<1>3. Cardinality(Busy(after, r)) <= Cardinality(Busy(nodes, r))
  BY <1>1, BusyFinite, FS_Subset
<1>4. Cardinality(Busy(nodes, r)) <= MaxParallel[runs[r].tier]
  BY DEF Within
<1>5. runs[r].tier \in {"normal", "deep"} /\ settled[r].tier \in {runs[r].tier, "deep"}
  BY DEF RunTable
<1>6. /\ MaxParallel[runs[r].tier] <= MaxParallel[settled[r].tier]
      /\ MaxParallel[runs[r].tier] \in Nat
      /\ MaxParallel[settled[r].tier] \in Nat
  BY <1>5, TierBound
<1>7. Cardinality(Busy(after, r)) \in Nat /\ Cardinality(Busy(nodes, r)) \in Nat
  BY BusyFinite
<1>8. QED
  BY <1>2, <1>3, <1>4, <1>6, <1>7

LEMMA RecedeKeepsHistory ==
    ASSUME NEW nodes, NEW attempts, NEW runs \in RunTable, NEW after, NEW left, NEW settled,
           History(nodes, attempts, runs), NodesRecede(nodes, after),
           AttemptsRecede(attempts, left), RunsRecede(nodes, runs, after, settled)
    PROVE  History(after, left, settled)
<1>1. Ordered(after)
  BY DEF History, Ordered, NodesRecede, Sources
<1>2. Numbered(after, left)
  <2>1. ASSUME NEW n \in Node, NEW k \in AttemptNo
        PROVE  left[<<n, k>>].status # "absent" <=> attempts[<<n, k>>].status # "absent"
    BY DEF AttemptsRecede
  <2>2. QED
    BY <2>1 DEF History, Numbered, NodesRecede
<1>3. Fenced(after, settled)
  <2> SUFFICES ASSUME NEW r \in Run, settled[r].cancellation > 0
               PROVE  /\ settled[r].status \in {"failed", "cancelled"}
                      /\ \A n \in Node : RunOf[n] = r => after[n].status \notin NodeOpen
    BY DEF Fenced
  <2>1. FenceKept(r, nodes, runs, after, settled)
    BY DEF RunsRecede
  <2>2. CASE /\ settled[r].cancellation = runs[r].cancellation
             /\ \/ settled[r].status = runs[r].status
                \/ runs[r].status \notin RunTerminal
                \/ \E n \in Node : RunOf[n] = r /\ nodes[n].status = "running"
    <3>1. /\ runs[r].status \in {"failed", "cancelled"}
          /\ \A n \in Node : RunOf[n] = r => nodes[n].status \notin NodeOpen
      BY <2>2 DEF History, Fenced
    <3>2. "running" \in NodeOpen /\ {"failed", "cancelled"} \subseteq RunTerminal
      BY DEF NodeOpen, RunTerminal
    <3>3. settled[r].status = runs[r].status
      BY <2>2, <3>1, <3>2
    <3>4. QED
      BY <3>1, <3>3 DEF NodesRecede
  <2>3. QED
    BY <2>1, <2>2 DEF FenceKept
<1>4. Within(after, settled)
  BY FewerBusyWithin DEF History, NodesRecede, RunsRecede
<1>5. Reasoned(after, settled)
  <2> SUFFICES ASSUME NEW r \in Run, settled[r].status \in RunWaiting
               PROVE  \E n \in Node : /\ RunOf[n] = r
                                      /\ RevisionOf[n] = settled[r].revision
                                      /\ after[n].status = settled[r].status
    BY DEF Reasoned
  <2>1. ReasonKept(r, nodes, runs, after, settled) /\ settled[r].revision = runs[r].revision
    BY DEF RunsRecede
  <2>2. QED
    BY <2>1 DEF ReasonKept, History, Reasoned
<1>6. QED
  BY <1>1, <1>2, <1>3, <1>4, <1>5 DEF History

-----------------------------------------------------------------------------
(* The stages and the transactions that begin no work. *)

LEMMA NodeSets ==
    /\ NodeOpen = {"pending", "ready", "running", "waiting_for_approval", "waiting_for_input"}
    /\ Started = {"ready", "running", "succeeded", "waiting_for_approval", "waiting_for_input"}
    /\ RunWaiting = {"waiting_for_approval", "waiting_for_input"}
    /\ NodeWaiting = RunWaiting
    /\ RunTerminal = {"completed", "cancelled", "failed"}
BY DEF NodeOpen, NodeWaiting, Started, RunWaiting, RunTerminal

(* Attempts that are cancelled were running. *)
LEMMA CancelRecedes ==
    ASSUME NEW attempts \in AttemptTable, NEW R
    PROVE  AttemptsRecede(attempts, CancelAttempts(attempts, R))
<1> SUFFICES ASSUME NEW n \in Node, NEW k \in AttemptNo
             PROVE  LET b == CancelAttempts(attempts, R)[<<n, k>>]
                    IN  \/ b = attempts[<<n, k>>]
                        \/ attempts[<<n, k>>].status = "running" /\ b.status # "absent"
  BY DEF AttemptsRecede
<1>1. attempts[<<n, k>>] \in [status : AttemptStatus, cancellation : Nat, live : BOOLEAN]
  BY DEF AttemptTable
<1>2. CancelAttempts(attempts, R)[<<n, k>>] =
          IF RunOf[n] \in R /\ attempts[<<n, k>>].status = "running"
          THEN [attempts[<<n, k>>] EXCEPT !.status = "cancelled", !.live = FALSE]
          ELSE attempts[<<n, k>>]
  BY Zenon DEF CancelAttempts
<1>3. QED
  BY <1>1, <1>2

LEMMA ExpireRecedes ==
    ASSUME TypeOK
    PROVE  /\ NodesRecede(node, ExpireNodes)
           /\ AttemptsRecede(attempt, CancelAttempts(attempt, Overdue))
           /\ RunsRecede(node, run, ExpireNodes, ExpireRuns)
<1>1. \A n \in Node :
        /\ RunOf[n] \in Overdue /\ node[n].status \in NodeOpen
              => ExpireNodes[n].status = "cancelled"
        /\ ~(RunOf[n] \in Overdue /\ node[n].status \in NodeOpen) => ExpireNodes[n] = node[n]
        /\ ExpireNodes[n].attempts = node[n].attempts
  BY DEF ExpireNodes, TypeOK, NodeTable
<1>2. \A r \in Run :
        /\ r \in Overdue => ExpireRuns[r].status = "failed" /\ run[r].status # "absent"
        /\ r \notin Overdue => ExpireRuns[r] = run[r]
        /\ ExpireRuns[r].revision = run[r].revision
        /\ ExpireRuns[r].tier = run[r].tier
  BY DEF ExpireRuns, Overdue, Live, TypeOK, RunTable
<1>3. NodesRecede(node, ExpireNodes)
  BY <1>1, NodeSets DEF NodesRecede
<1>4. RunsRecede(node, run, ExpireNodes, ExpireRuns)
  <2> SUFFICES ASSUME NEW r \in Run
               PROVE  /\ ExpireRuns[r].revision = run[r].revision
                      /\ ExpireRuns[r].status = "absent" <=> run[r].status = "absent"
                      /\ ExpireRuns[r].tier \in {run[r].tier, "deep"}
                      /\ FenceKept(r, node, run, ExpireNodes, ExpireRuns)
                      /\ ReasonKept(r, node, run, ExpireNodes, ExpireRuns)
    BY DEF RunsRecede
  <2>1. CASE r \in Overdue
    <3>1. \A n \in Node : RunOf[n] = r =>
            /\ ExpireNodes[n].status \notin NodeOpen
            /\ ExpireNodes[n].status = "succeeded" => node[n].status = "succeeded"
      BY <1>1, <2>1, NodeSets
    <3>2. QED
      BY <1>2, <2>1, <3>1, NodeSets DEF FenceKept, ReasonKept
  <2>2. CASE r \notin Overdue
    <3>1. \A n \in Node : RunOf[n] = r => ExpireNodes[n] = node[n]
      BY <1>1, <2>2
    <3>2. QED
      BY <1>2, <2>2, <3>1 DEF FenceKept, ReasonKept
  <2>3. QED
    BY <2>1, <2>2
<1>5. QED
  BY <1>3, <1>4, CancelRecedes DEF TypeOK

LEMMA LoseRecedes ==
    ASSUME NEW nodes \in NodeTable, NEW attempts \in AttemptTable, NEW runs \in RunTable,
           Matched(nodes, attempts), Planned(nodes, runs),
           NEW A \in SUBSET (Node \X AttemptNo),
           \A a \in A : attempts[a].status = "running",
           NEW o \in [{a[1] : a \in A} -> {"ready", "failed", "cancelled"}]
    PROVE  LET left == LoseAttempts(attempts, A)
           IN  /\ NodesRecede(nodes, LoseNodes(nodes, o))
               /\ AttemptsRecede(attempts, left)
               /\ RunsRecede(nodes, runs, LoseNodes(nodes, o), LoseRuns(runs, left, o))
<1> DEFINE N == {a[1] : a \in A}
           after == LoseNodes(nodes, o)
           left == LoseAttempts(attempts, A)
           settled == LoseRuns(runs, left, o)
<1>1. \A n \in N : n \in Node /\ nodes[n].status = "running"
  BY DEF Matched
<1>2. \A n \in Node : /\ n \in N => after[n].status \in {"ready", "failed", "cancelled"}
                      /\ n \notin N => after[n] = nodes[n]
                      /\ after[n].attempts = nodes[n].attempts
  BY <1>1 DEF LoseNodes, NodeTable
<1>3. \A r \in Run : /\ settled[r].revision = runs[r].revision
                     /\ settled[r].tier = runs[r].tier
                     /\ settled[r].cancellation = runs[r].cancellation
                     /\ \/ settled[r] = runs[r]
                        \/ /\ runs[r].status \notin RunTerminal
                           /\ \E n \in N : RunOf[n] = r
                           /\ settled[r].status \in {"failed", "queued", "paused"}
  BY DEF LoseRuns, RunTable
<1>4. AttemptsRecede(attempts, left)
  BY DEF AttemptsRecede, LoseAttempts, AttemptTable
<1> HIDE DEF N, after, left, settled
<1>5. NodesRecede(nodes, after)
  <2>1. ASSUME NEW n \in Node
        PROVE  \/ after[n].status = nodes[n].status
               \/ /\ nodes[n].status = "running"
                  /\ after[n].status \in {"ready", "failed", "cancelled"}
    BY <1>1, <1>2
  <2>2. QED
    BY <1>2, <2>1, NodeSets DEF NodesRecede
<1>6. RunsRecede(nodes, runs, after, settled)
  <2> SUFFICES ASSUME NEW r \in Run
               PROVE  /\ settled[r].status = "absent" <=> runs[r].status = "absent"
                      /\ FenceKept(r, nodes, runs, after, settled)
                      /\ ReasonKept(r, nodes, runs, after, settled)
    BY <1>3 DEF RunsRecede
  <2>1. \A n \in Node : nodes[n].status \in RunWaiting => after[n] = nodes[n]
    BY <1>1, <1>2, NodeSets
  <2>2. CASE settled[r] = runs[r]
    BY <2>1, <2>2 DEF FenceKept, ReasonKept
  <2>3. CASE settled[r] # runs[r]
    <3>1. runs[r].status # "absent"
      BY <1>1, <1>3, <2>3 DEF Planned
    <3>2. QED
      BY <1>3, <2>3, <3>1, NodeSets DEF FenceKept, ReasonKept
  <2>4. QED
    BY <2>2, <2>3
<1>7. QED
  BY <1>4, <1>5, <1>6 DEF after, left, settled

(* Settling a claim. *)
LEMMA SettleAttemptRecedes ==
    ASSUME attempt \in AttemptTable, NEW n \in Node, NEW k \in AttemptNo, ClaimHeld(n, k),
           NEW status, status # "absent"
    PROVE  AttemptsRecede(attempt, SettleAttempt(n, k, status))
BY DEF AttemptsRecede, SettleAttempt, AttemptTable, ClaimHeld

(* A step of one run r, whose nodes recede, and which keeps its cancellation  *)
(* revision or closes.                                                        *)
LEMMA OneRunRecedes ==
    ASSUME NEW r \in Run, NEW nodes, NEW runs,
           \A q \in Run : q # r => runs[q] = run[q],
           runs[r].revision = run[r].revision,
           runs[r].status # "absent", run[r].status # "absent",
           runs[r].tier \in {run[r].tier, "deep"},
           \A m \in Node : RunOf[m] # r => nodes[m] = node[m],
           FenceKept(r, node, run, nodes, runs),
           ReasonKept(r, node, run, nodes, runs)
    PROVE  RunsRecede(node, run, nodes, runs)
<1>1. ASSUME NEW q \in Run, q # r
      PROVE  /\ runs[q] = run[q]
             /\ FenceKept(q, node, run, nodes, runs)
             /\ ReasonKept(q, node, run, nodes, runs)
  BY <1>1 DEF FenceKept, ReasonKept
<1>2. QED
  BY <1>1 DEF RunsRecede

Recedes ==
    /\ NodesRecede(node, node')
    /\ AttemptsRecede(attempt, attempt')
    /\ RunsRecede(node, run, node', run')

LEMMA PostponeRecedes ==
    ASSUME KernelInv, NEW n \in Node, NEW k \in AttemptNo, ClaimHeld(n, k),
           NEW status \in AttemptStatus \ {"running", "absent"}, Postpone(n, k, status)
    PROVE  Recedes
<1>1. /\ RunOf[n] \in Run
      /\ node[n].status = "running" /\ node[n].attempts = k
      /\ run[RunOf[n]].status # "absent"
  BY Held
<1>2. \A m \in Node : /\ m # n => node'[m] = node[m]
                      /\ m = n => node'[m].status = "ready"
                      /\ node'[m].attempts = node[m].attempts
  BY DEF Postpone, KernelInv, TypeOK, NodeTable
<1>3. /\ \A q \in Run : q # RunOf[n] => run'[q] = run[q]
      /\ run'[RunOf[n]].status = "queued"
      /\ run'[RunOf[n]].revision = run[RunOf[n]].revision
      /\ run'[RunOf[n]].tier = run[RunOf[n]].tier
      /\ run'[RunOf[n]].cancellation = run[RunOf[n]].cancellation
  BY <1>1 DEF Postpone, KernelInv, TypeOK, RunTable
<1>4. AttemptsRecede(attempt, attempt')
  BY SettleAttemptRecedes DEF Postpone, KernelInv, TypeOK
<1>5. NodesRecede(node, node')
  BY <1>1, <1>2, NodeSets DEF NodesRecede
<1>6. /\ FenceKept(RunOf[n], node, run, node', run')
      /\ ReasonKept(RunOf[n], node, run, node', run')
  BY <1>1, <1>3, NodeSets DEF FenceKept, ReasonKept
<1>7. \A m \in Node : RunOf[m] # RunOf[n] => node'[m] = node[m]
  BY <1>2
<1>8. RunsRecede(node, run, node', run')
  BY <1>1, <1>3, <1>6, <1>7, OneRunRecedes
<1>9. QED
  BY <1>4, <1>5, <1>8 DEF Recedes

LEMMA WaitForRecedes ==
    ASSUME KernelInv, NEW n \in Node, NEW k \in AttemptNo, NEW waiting \in RunWaiting,
           WaitFor(n, k, waiting)
    PROVE  Recedes
<1> DEFINE r == RunOf[n]
<1>1. /\ ClaimHeld(n, k)
      /\ r \in Run
      /\ node[n].status = "running"
      /\ run[r].status # "absent"
      /\ RevisionOf[n] = run[r].revision
  BY Held DEF WaitFor, RequireClaim
<1>2. \A m \in Node : /\ m # n => node'[m] = node[m]
                      /\ m = n => node'[m].status = waiting
                      /\ node'[m].attempts = node[m].attempts
  BY DEF WaitFor, SetNodes, KernelInv, TypeOK, NodeTable
<1>3. /\ \A q \in Run : q # r => run'[q] = run[q]
      /\ run'[r].status = waiting
      /\ run'[r].revision = run[r].revision
      /\ run'[r].tier = run[r].tier
      /\ run'[r].cancellation = run[r].cancellation
  BY <1>1 DEF WaitFor, KernelInv, TypeOK, RunTable
<1>4. AttemptsRecede(attempt, attempt')
  BY <1>1, SettleAttemptRecedes DEF WaitFor, KernelInv, TypeOK
<1>5. NodesRecede(node, node')
  BY <1>1, <1>2, NodeSets DEF NodesRecede
<1>6. /\ FenceKept(r, node, run, node', run')
      /\ ReasonKept(r, node, run, node', run')
  BY <1>1, <1>2, <1>3 DEF FenceKept, ReasonKept
<1>7. \A m \in Node : RunOf[m] # r => node'[m] = node[m]
  BY <1>2
<1>8. RunsRecede(node, run, node', run')
  BY <1>1, <1>3, <1>6, <1>7, OneRunRecedes, NodeSets
<1>9. QED
  BY <1>4, <1>5, <1>8 DEF Recedes

(* _settle_run calls a run waiting only for a node that waits. *)
LEMMA SettledStatusReason ==
    ASSUME NEW nodes, NEW attempts, NEW r, SettledStatus(nodes, attempts, r) \in RunWaiting
    PROVE  \E m \in ActivePlan(r) : nodes[m].status = SettledStatus(nodes, attempts, r)
BY NodeSets DEF SettledStatus

LEMMA CompleteRecedes ==
    ASSUME KernelInv, NEW n \in Node, NEW k \in AttemptNo, Complete(n, k)
    PROVE  Recedes
<1> DEFINE r == RunOf[n]
           settled == SettleAttempt(n, k, "succeeded")
           done == SetNodes({n}, "succeeded")
           promoted == PromoteDependents(done, r, RevisionOf[n])
           status == SettledStatus(promoted, settled, r)
<1>1. /\ ClaimHeld(n, k)
      /\ r \in Run
      /\ node[n].status = "running"
      /\ run[r].status # "absent"
  BY Held DEF Complete, RequireClaim
<1>2. /\ attempt' = settled
      /\ node' = promoted
      /\ run' = [run EXCEPT ![r].status = status]
  BY DEF Complete
<1>3. done \in NodeTable
  BY SetNodesType DEF KernelInv, TypeOK, NodeStatus, NodeTerminal
<1>4. \A m \in Node : /\ m # n => done[m] = node[m]
                      /\ m = n => done[m].status = "succeeded"
                      /\ done[m].attempts = node[m].attempts
  BY DEF SetNodes, KernelInv, TypeOK, NodeTable
<1>5. AttemptsRecede(attempt, attempt')
  BY <1>1, <1>2, SettleAttemptRecedes DEF KernelInv, TypeOK
<1> HIDE DEF done, settled
<1>6. \A m \in Node :
        /\ promoted[m].attempts = done[m].attempts
        /\ \/ promoted[m] = done[m]
           \/ /\ done[m].status = "pending" /\ promoted[m].status = "ready"
              /\ \A s \in Sources(m) : done[s].status = "succeeded"
        /\ RunOf[m] # r => promoted[m] = done[m]
  BY <1>3 DEF PromoteDependents, NodeTable, Plan
<1>7. /\ status # "absent"
      /\ status \in RunWaiting => \E m \in ActivePlan(r) : promoted[m].status = status
  BY SettledStatusMeaning, SettledStatusReason
<1> HIDE DEF promoted, status
<1>8. \A m \in Node : done[m].status = "succeeded" => promoted[m].status = "succeeded"
  BY <1>6
<1>9. NodesRecede(node, promoted)
  <2>1. ASSUME NEW m \in Node
        PROVE  /\ promoted[m].attempts = node[m].attempts
               /\ \/ promoted[m] = node[m]
                  \/ node[m].status = "running" /\ promoted[m].status = "succeeded"
                  \/ /\ node[m].status = "pending" /\ promoted[m].status = "ready"
                     /\ \A s \in Sources(m) : promoted[s].status = "succeeded"
    <3>1. \A s \in Sources(m) : s \in Node
      BY DEF Sources
    <3>2. CASE m = n
      BY <1>1, <1>4, <1>6, <3>2
    <3>3. CASE m # n
      BY <1>4, <1>6, <1>8, <3>1, <3>3
    <3>4. QED
      BY <3>2, <3>3
  <2>2. QED
    BY <2>1, NodeSets DEF NodesRecede
<1>10. /\ \A q \in Run : q # r => run'[q] = run[q]
       /\ run'[r].status = status
       /\ run'[r].revision = run[r].revision
       /\ run'[r].tier = run[r].tier
       /\ run'[r].cancellation = run[r].cancellation
  BY <1>1, <1>2 DEF KernelInv, TypeOK, RunTable
<1>11. FenceKept(r, node, run, node', run')
  BY <1>1, <1>10 DEF FenceKept
<1>12. ReasonKept(r, node, run, node', run')
  BY <1>2, <1>7, <1>10 DEF ReasonKept, ActivePlan, Plan
<1>13. \A m \in Node : RunOf[m] # r => node'[m] = node[m]
  BY <1>2, <1>4, <1>6
<1>14. RunsRecede(node, run, node', run')
  BY <1>1, <1>7, <1>10, <1>11, <1>12, <1>13, OneRunRecedes
<1>15. QED
  BY <1>2, <1>5, <1>9, <1>14 DEF Recedes

LEMMA FailRunRecedes ==
    ASSUME KernelInv, NEW n \in Node, NEW k \in AttemptNo, ClaimHeld(n, k), FailRun(n, k)
    PROVE  Recedes
<1> DEFINE r == RunOf[n]
           cut == CancelAttempts(attempt, {r})
<1>1. r \in Run /\ run[r].status # "absent" /\ node[n].status = "running"
  BY Held
<1>2. cut \in AttemptTable /\ attempt \in AttemptTable /\ AttemptsRecede(attempt, cut)
  BY CancelAttemptsType, CancelRecedes DEF KernelInv, TypeOK
<1>3. attempt' = [cut EXCEPT ![<<n, k>>] = [@ EXCEPT !.status = "failed", !.live = FALSE]]
  BY DEF FailRun
<1> HIDE DEF cut
<1>4. AttemptsRecede(attempt, attempt')
  <2>1. ASSUME NEW m \in Node, NEW j \in AttemptNo
        PROVE  \/ attempt'[<<m, j>>] = cut[<<m, j>>]
               \/ <<m, j>> = <<n, k>> /\ attempt'[<<m, j>>].status = "failed"
    BY <1>2, <1>3 DEF AttemptTable
  <2>2. attempt[<<n, k>>].status = "running"
    BY DEF ClaimHeld
  <2>3. QED
    BY <1>2, <2>1, <2>2 DEF AttemptsRecede
<1>5. \A m \in Node :
        /\ node'[m].attempts = node[m].attempts
        /\ m = n => node'[m].status = "failed"
        /\ m # n /\ RunOf[m] = r /\ node[m].status \in NodeOpen => node'[m].status = "cancelled"
        /\ m # n /\ ~(RunOf[m] = r /\ node[m].status \in NodeOpen) => node'[m] = node[m]
  BY DEF FailRun, KernelInv, TypeOK, NodeTable
<1>6. /\ \A q \in Run : q # r => run'[q] = run[q]
      /\ run'[r].status = "failed"
      /\ run'[r].revision = run[r].revision
      /\ run'[r].tier = run[r].tier
  BY <1>1 DEF FailRun, KernelInv, TypeOK, RunTable
<1>7. NodesRecede(node, node')
  <2>1. ASSUME NEW m \in Node
        PROVE  \/ node'[m] = node[m]
               \/ /\ node[m].status \in NodeOpen
                  /\ node'[m].status \in {"failed", "cancelled"}
    BY <1>1, <1>5, NodeSets
  <2>2. QED
    BY <1>5, <2>1, NodeSets DEF NodesRecede
<1>8. \A m \in Node :
        /\ RunOf[m] = r => node'[m].status \notin NodeOpen
        /\ RunOf[m] = r /\ node'[m].status = "succeeded" => node[m].status = "succeeded"
        /\ RunOf[m] # r => node'[m] = node[m]
  BY <1>5, NodeSets
<1>9. /\ FenceKept(r, node, run, node', run')
      /\ ReasonKept(r, node, run, node', run')
  BY <1>6, <1>8, NodeSets DEF FenceKept, ReasonKept
<1>10. RunsRecede(node, run, node', run')
  BY <1>1, <1>6, <1>8, <1>9, OneRunRecedes
<1>11. QED
  BY <1>4, <1>7, <1>10 DEF Recedes

LEMMA SettleRecedes ==
    ASSUME KernelInv, NEW n \in Node, NEW k \in AttemptNo, Settle(n, k)
    PROVE  Recedes
<1>1. CASE Complete(n, k)
  BY <1>1, CompleteRecedes
<1>2. CASE Retry(n, k)
  BY <1>2, FailRunRecedes, PostponeRecedes DEF Retry, RequireClaim, AttemptStatus
<1>3. CASE Defer(n, k)
  BY <1>3, FailRunRecedes, PostponeRecedes DEF Defer, RequireClaim, AttemptStatus
<1>4. CASE Fail(n, k)
  BY <1>4, FailRunRecedes DEF Fail, RequireClaim
<1>5. CASE WaitForApproval(n, k)
  BY <1>5, WaitForRecedes DEF WaitForApproval, RunWaiting
<1>6. CASE WaitForInput(n, k)
  BY <1>6, WaitForRecedes DEF WaitForInput, RunWaiting
<1>7. QED
  BY <1>1, <1>2, <1>3, <1>4, <1>5, <1>6 DEF Settle

LEMMA AbandonRecedes ==
    ASSUME KernelInv, NEW n \in Node, NEW k \in AttemptNo, Abandon(n, k)
    PROVE  Recedes
<1> DEFINE A == {<<n, k>>}
           swept == LoseAttempts(attempt, A)
<1>1. PICK o \in LostOutcomes({n}) : node' = LoseNodes(node, o) /\ run' = LoseRuns(run, swept, o)
  BY DEF Abandon
<1>2. attempt' = swept
  BY DEF Abandon
<1>3. /\ A \in SUBSET (Node \X AttemptNo)
      /\ \A a \in A : attempt[a].status = "running"
  BY DEF Abandon, ClaimHeld
<1>4. o \in [{a[1] : a \in A} -> {"ready", "failed", "cancelled"}]
  <2>1. {a[1] : a \in A} = {n}
    OBVIOUS
  <2>2. QED
    BY <1>1, <2>1 DEF LostOutcomes
<1>5. /\ node \in NodeTable
      /\ attempt \in AttemptTable
      /\ run \in RunTable
      /\ Matched(node, attempt)
      /\ Planned(node, run)
  BY DEF KernelInv, TypeOK
<1> HIDE DEF A
<1>6. QED
  BY <1>1, <1>2, <1>3, <1>4, <1>5, LoseRecedes DEF Recedes

LEMMA RenewRecedes ==
    ASSUME KernelInv, NEW n \in Node, NEW k \in AttemptNo, Renew(n, k)
    PROVE  Recedes
<1>1. TypeOK
  BY DEF KernelInv
<1>2. QED
  BY <1>1, ExpireRecedes DEF Renew, Recedes

(* Requests and the passage of time. *)
LEMMA CancelRecedesRun ==
    ASSUME KernelInv, NEW r \in Run, Cancel(r)
    PROVE  Recedes
<1>1. run[r].status # "absent"
  BY DEF Cancel, Live
<1>2. AttemptsRecede(attempt, attempt')
  BY CancelRecedes DEF Cancel, KernelInv, TypeOK
<1>3. \A m \in Node :
        /\ node'[m].attempts = node[m].attempts
        /\ RunOf[m] = r /\ node[m].status \in NodeOpen => node'[m].status = "cancelled"
        /\ ~(RunOf[m] = r /\ node[m].status \in NodeOpen) => node'[m] = node[m]
  BY DEF Cancel, SetNodes, KernelInv, TypeOK, NodeTable
<1>4. /\ \A q \in Run : q # r => run'[q] = run[q]
      /\ run'[r].status = "cancelled"
      /\ run'[r].revision = run[r].revision
      /\ run'[r].tier = run[r].tier
  BY DEF Cancel, KernelInv, TypeOK, RunTable
<1>5. NodesRecede(node, node')
  BY <1>3, NodeSets DEF NodesRecede
<1>6. \A m \in Node :
        /\ RunOf[m] = r => node'[m].status \notin NodeOpen
        /\ RunOf[m] = r /\ node'[m].status = "succeeded" => node[m].status = "succeeded"
        /\ RunOf[m] # r => node'[m] = node[m]
  BY <1>3, NodeSets
<1>7. /\ FenceKept(r, node, run, node', run')
      /\ ReasonKept(r, node, run, node', run')
  BY <1>4, <1>6, NodeSets DEF FenceKept, ReasonKept
<1>8. RunsRecede(node, run, node', run')
  BY <1>1, <1>4, <1>6, <1>7, OneRunRecedes
<1>9. QED
  BY <1>2, <1>5, <1>8 DEF Recedes

(* A live run that keeps its cancellation revision and does not begin to wait. *)
LEMMA LiveRunRecedes ==
    ASSUME NEW r \in Run, Live(r), NodesRecede(node, node'), UNCHANGED attempt,
           \A q \in Run : q # r => run'[q] = run[q],
           \A m \in Node : RunOf[m] # r => node'[m] = node[m],
           run'[r].revision = run[r].revision,
           run'[r].cancellation = run[r].cancellation,
           run'[r].tier \in {run[r].tier, "deep"},
           \/ run'[r].status \in {"queued", "running", "paused"}
           \/ run'[r].status = run[r].status /\ node' = node
    PROVE  Recedes
<1>1. run[r].status # "absent" /\ run'[r].status # "absent" /\ run[r].status \notin RunTerminal
  BY DEF Live
<1>2. /\ FenceKept(r, node, run, node', run')
      /\ ReasonKept(r, node, run, node', run')
  BY <1>1, NodeSets DEF FenceKept, ReasonKept
<1>3. RunsRecede(node, run, node', run')
  BY <1>1, <1>2, OneRunRecedes
<1>4. QED
  BY <1>3 DEF Recedes, AttemptsRecede

LEMMA SameNodesRecede == NodesRecede(node, node)
BY DEF NodesRecede

LEMMA RequestRecedes ==
    ASSUME KernelInv, NEW r \in Run,
           \/ RequestPause(r)
           \/ Resume(r)
           \/ UpgradeBudget(r)
           \/ DeadlinePasses(r)
    PROVE  Recedes
<1>1. CASE RequestPause(r)
  <2>1. /\ \A q \in Run : q # r => run'[q] = run[q]
        /\ run'[r].revision = run[r].revision
        /\ run'[r].cancellation = run[r].cancellation
        /\ run'[r].tier = run[r].tier
        /\ run'[r].status \in {"running", "paused"}
    BY <1>1 DEF RequestPause, KernelInv, TypeOK, RunTable
  <2>2. Live(r) /\ UNCHANGED <<node, attempt>>
    BY <1>1 DEF RequestPause
  <2>3. QED
    BY <2>1, <2>2, SameNodesRecede, LiveRunRecedes
<1>2. CASE Resume(r)
  <2>1. /\ \A q \in Run : q # r => run'[q] = run[q]
        /\ run'[r].revision = run[r].revision
        /\ run'[r].cancellation = run[r].cancellation
        /\ run'[r].tier = run[r].tier
        /\ run'[r].status \in {"running", "queued"}
    BY <1>2 DEF Resume, KernelInv, TypeOK, RunTable
  <2>2. \A m \in Node :
          /\ node'[m].attempts = node[m].attempts
          /\ \/ node'[m] = node[m]
             \/ /\ RunOf[m] = r
                /\ node[m].status \in NodeWaiting
                /\ node'[m].status = "ready"
    BY <1>2 DEF Resume, SetNodes, ActivePlan, Plan, KernelInv, TypeOK, NodeTable
  <2>3. NodesRecede(node, node')
    BY <2>2, NodeSets DEF NodesRecede
  <2>4. Live(r) /\ UNCHANGED attempt
    BY <1>2 DEF Resume
  <2>5. \A m \in Node : RunOf[m] # r => node'[m] = node[m]
    BY <2>2
  <2>6. QED
    BY <2>1, <2>3, <2>4, <2>5, LiveRunRecedes
<1>3. CASE UpgradeBudget(r) \/ DeadlinePasses(r)
  <2>1. /\ \A q \in Run : q # r => run'[q] = run[q]
        /\ run'[r].revision = run[r].revision
        /\ run'[r].cancellation = run[r].cancellation
        /\ run'[r].tier \in {run[r].tier, "deep"}
        /\ run'[r].status = run[r].status
    BY <1>3 DEF UpgradeBudget, DeadlinePasses, KernelInv, TypeOK, RunTable
  <2>2. Live(r) /\ UNCHANGED <<node, attempt>>
    BY <1>3 DEF UpgradeBudget, DeadlinePasses
  <2>3. QED
    BY <2>1, <2>2, SameNodesRecede, LiveRunRecedes
<1>4. QED
  BY <1>1, <1>2, <1>3

(* A step that moves no run, and no status. *)
LEMMA StillRecedes ==
    ASSUME UNCHANGED run, NodesRecede(node, node'), AttemptsRecede(attempt, attempt'),
           \A m \in Node : node'[m].status = node[m].status
    PROVE  Recedes
BY DEF Recedes, RunsRecede, FenceKept, ReasonKept

LEMMA TimeRecedes ==
    ASSUME KernelInv,
           \/ \E n \in Node, k \in AttemptNo : LeaseExpires(n, k)
           \/ \E n \in Node : BecomesDue(n)
           \/ \E r \in Run, i \in Instruction : AddInstruction(r, i)
           \/ UNCHANGED vars
    PROVE  Recedes
<1>1. ASSUME NEW n \in Node, NEW k \in AttemptNo, LeaseExpires(n, k)
      PROVE  Recedes
  <2>1. AttemptsRecede(attempt, attempt')
    BY <1>1 DEF LeaseExpires, AttemptsRecede, KernelInv, TypeOK, AttemptTable
  <2>2. UNCHANGED <<run, node>>
    BY <1>1 DEF LeaseExpires
  <2>3. QED
    BY <2>1, <2>2, SameNodesRecede, StillRecedes
<1>2. ASSUME NEW n \in Node, BecomesDue(n)
      PROVE  Recedes
  <2>1. \A m \in Node : /\ node'[m].status = node[m].status
                        /\ node'[m].attempts = node[m].attempts
    BY <1>2 DEF BecomesDue, KernelInv, TypeOK, NodeTable
  <2>2. NodesRecede(node, node')
    BY <2>1 DEF NodesRecede
  <2>3. UNCHANGED <<run, attempt>> /\ AttemptsRecede(attempt, attempt)
    BY <1>2 DEF BecomesDue, AttemptsRecede
  <2>4. QED
    BY <2>1, <2>2, <2>3, StillRecedes
<1>3. ASSUME \/ \E r \in Run, i \in Instruction : AddInstruction(r, i)
             \/ UNCHANGED vars
      PROVE  Recedes
  <2>1. UNCHANGED <<run, node, attempt>> /\ AttemptsRecede(attempt, attempt)
    BY <1>3 DEF AddInstruction, vars, AttemptsRecede
  <2>2. QED
    BY <2>1, SameNodesRecede, StillRecedes
<1>4. QED
  BY <1>1, <1>2, <1>3

-----------------------------------------------------------------------------
(* Work begins: claim_ready, create and append_plan. *)

LEMMA CompatibleSymmetric ==
    ASSUME NEW n, NEW m, Compatible(n, m)
    PROVE  Compatible(m, n)
BY DEF Compatible

(* What fits beside the busy nodes of its run, and beside everything else     *)
(* that is selected, stays within the budget of the run.                      *)
LEMMA ClaimWithin ==
    ASSUME NEW nodes \in NodeTable, NEW runs \in RunTable, Within(nodes, runs),
           NEW S \in SUBSET Candidates(nodes, runs), \A n \in S : Fits(nodes, runs, S, n)
    PROVE  Within(Claimed(nodes, S), Resumed(runs, S))
<1> SUFFICES ASSUME NEW r \in Run
             PROVE  LET busy == Busy(Claimed(nodes, S), r)
                    IN  /\ Cardinality(busy) <= MaxParallel[Resumed(runs, S)[r].tier]
                        /\ \A n, m \in busy : n # m => Compatible(n, m)
  BY DEF Within
<1> DEFINE busy == Busy(Claimed(nodes, S), r)
           chosen == {m \in S : RunOf[m] = r}
<1>1. busy = Busy(nodes, r) \union chosen
  <2>1. \A n \in Node : /\ n \in S => Claimed(nodes, S)[n].status = "running"
                        /\ n \notin S => Claimed(nodes, S)[n] = nodes[n]
    BY DEF Claimed, NodeTable
  <2>2. S \subseteq Node
    BY DEF Candidates
  <2>3. QED
    BY <2>1, <2>2 DEF Busy
<1>2. Resumed(runs, S)[r].tier = runs[r].tier
  BY DEF Resumed, RunTable
<1>3. IsFiniteSet(busy) /\ Cardinality(busy) \in Nat
  BY BusyFinite
<1>4. ASSUME NEW n \in chosen
      PROVE  /\ Cardinality(busy \ {n}) < MaxParallel[runs[r].tier]
             /\ \A m \in busy \ {n} : Compatible(n, m)
  BY <1>1 DEF Fits
<1>5. runs[r].tier \in {"normal", "deep"}
  BY DEF RunTable
<1>6. MaxParallel[runs[r].tier] \in Nat
  BY <1>5, TierBound
<1> HIDE DEF busy, chosen
<1>7. Cardinality(busy) <= MaxParallel[runs[r].tier]
  <2>1. CASE chosen = {}
    <3>1. busy = Busy(nodes, r)
      BY <1>1, <2>1
    <3>2. QED
      BY <3>1 DEF Within
  <2>2. CASE chosen # {}
    <3>1. PICK n \in chosen : TRUE
      BY <2>2
    <3>2. n \in busy
      BY <1>1
    <3>3. Cardinality(busy \ {n}) = Cardinality(busy) - 1
      BY <1>3, <3>2, FS_RemoveElement
    <3>4. QED
      BY <1>3, <1>4, <1>6, <3>3
  <2>3. QED
    BY <2>1, <2>2
<1>8. ASSUME NEW n \in busy, NEW m \in busy, n # m
      PROVE  Compatible(n, m)
  <2>1. CASE n \in chosen
    BY <1>4, <1>8, <2>1
  <2>2. CASE m \in chosen
    <3>1. Compatible(m, n)
      BY <1>4, <1>8, <2>2
    <3>2. QED
      BY <3>1, CompatibleSymmetric
  <2>3. CASE n \notin chosen /\ m \notin chosen
    BY <1>1, <1>8, <2>3 DEF Within
  <2>4. QED
    BY <2>1, <2>2, <2>3
<1>9. QED
  BY <1>2, <1>7, <1>8 DEF busy

LEMMA ClaimHistory ==
    ASSUME NEW nodes \in NodeTable, NEW attempts \in AttemptTable, NEW runs \in RunTable,
           History(nodes, attempts, runs),
           NEW S \in SUBSET Candidates(nodes, runs), \A n \in S : Fits(nodes, runs, S, n)
    PROVE  History(Claimed(nodes, S), Begun(nodes, attempts, runs, S), Resumed(runs, S))
<1> DEFINE claimed == Claimed(nodes, S)
           begun == Begun(nodes, attempts, runs, S)
           resumed == Resumed(runs, S)
<1>1. \A n \in S : /\ n \in Node
                   /\ nodes[n].status = "ready"
                   /\ runs[RunOf[n]].status \in {"queued", "running"}
  BY DEF Candidates
<1>2. \A n \in Node : /\ n \in S => /\ claimed[n].status = "running"
                                    /\ claimed[n].attempts = nodes[n].attempts + 1
                      /\ n \notin S => claimed[n] = nodes[n]
                      /\ nodes[n].attempts \in Nat
  BY BudgetAssumption DEF NodeTable, Claimed
<1>3. ASSUME NEW n \in Node, NEW k \in AttemptNo
      PROVE  /\ n \in S /\ k = nodes[n].attempts + 1 => begun[<<n, k>>].status = "running"
             /\ ~(n \in S /\ k = nodes[n].attempts + 1) => begun[<<n, k>>] = attempts[<<n, k>>]
  BY DEF Begun
<1>4. \A r \in Run : /\ resumed[r].revision = runs[r].revision
                     /\ resumed[r].cancellation = runs[r].cancellation
                     /\ \/ resumed[r] = runs[r] /\ \A n \in S : RunOf[n] # r
                        \/ resumed[r].status = "running" /\ \E n \in S : RunOf[n] = r
  BY DEF RunTable, Resumed
<1>5. Within(claimed, resumed)
  BY ClaimWithin DEF History
<1> HIDE DEF claimed, begun, resumed
<1>6. Ordered(claimed)
  <2>1. \A n \in Node : /\ claimed[n].status \in Started => nodes[n].status \in Started
                        /\ nodes[n].status = "succeeded" => claimed[n].status = "succeeded"
    BY <1>1, <1>2, NodeSets
  <2>2. QED
    BY <2>1 DEF History, Ordered, Sources
<1>7. Numbered(claimed, begun)
  <2>1. ASSUME NEW n \in Node, n \in S
        PROVE  /\ claimed[n].status # "absent"
               /\ \A k \in AttemptNo : begun[<<n, k>>].status # "absent" <=> k <= claimed[n].attempts
    <3>1. ASSUME NEW k \in AttemptNo
          PROVE  begun[<<n, k>>].status # "absent" <=> k <= claimed[n].attempts
      <4>1. k \in Nat
        BY BudgetAssumption DEF AttemptNo
      <4>2. attempts[<<n, k>>].status # "absent" <=> k <= nodes[n].attempts
        BY DEF History, Numbered
      <4>3. QED
        BY <1>2, <1>3, <2>1, <4>1, <4>2
    <3>2. QED
      BY <1>2, <2>1, <3>1
  <2>2. ASSUME NEW n \in Node, n \notin S
        PROVE  /\ claimed[n].status = "absent" => claimed[n].attempts = 0
               /\ \A k \in AttemptNo : begun[<<n, k>>].status # "absent" <=> k <= claimed[n].attempts
    BY <1>2, <1>3, <2>2 DEF History, Numbered
  <2>3. QED
    BY <2>1, <2>2 DEF Numbered
<1>8. Fenced(claimed, resumed)
  <2> SUFFICES ASSUME NEW r \in Run, resumed[r].cancellation > 0
               PROVE  /\ resumed[r].status \in {"failed", "cancelled"}
                      /\ \A n \in Node : RunOf[n] = r => claimed[n].status \notin NodeOpen
    BY DEF Fenced
  <2>1. /\ runs[r].status \in {"failed", "cancelled"}
        /\ \A n \in Node : RunOf[n] = r => nodes[n].status \notin NodeOpen
    BY <1>4 DEF History, Fenced
  <2>2. \A n \in S : RunOf[n] # r
    BY <1>1, <2>1
  <2>3. QED
    BY <1>2, <1>4, <2>1, <2>2
<1>9. Reasoned(claimed, resumed)
  <2> SUFFICES ASSUME NEW r \in Run, resumed[r].status \in RunWaiting
               PROVE  \E n \in Node : /\ RunOf[n] = r
                                      /\ RevisionOf[n] = resumed[r].revision
                                      /\ claimed[n].status = resumed[r].status
    BY DEF Reasoned
  <2>1. resumed[r] = runs[r] /\ \A n \in S : RunOf[n] # r
    BY <1>4, NodeSets
  <2>2. QED
    BY <1>2, <2>1 DEF History, Reasoned
<1>10. QED
  BY <1>5, <1>6, <1>7, <1>8, <1>9 DEF History, claimed, begun, resumed

(* The tables between the stages of claim_ready. *)
LEMMA SweptTables ==
    ASSUME KernelInv, NEW o \in LostOutcomes({a[1] : a \in Reclaimable})
    PROVE  LET cut == CancelAttempts(attempt, Overdue)
               swept == LoseAttempts(cut, Reclaimable)
               nodes == LoseNodes(ExpireNodes, o)
               runs == LoseRuns(ExpireRuns, swept, o)
           IN  /\ cut \in AttemptTable /\ swept \in AttemptTable
               /\ nodes \in NodeTable
               /\ ExpireRuns \in RunTable /\ runs \in RunTable
               /\ Matched(nodes, swept)
               /\ NodesRecede(ExpireNodes, nodes)
               /\ AttemptsRecede(cut, swept)
               /\ RunsRecede(ExpireNodes, ExpireRuns, nodes, runs)
<1> DEFINE cut == CancelAttempts(attempt, Overdue)
<1>1. /\ ExpireNodes \in NodeTable
      /\ cut \in AttemptTable
      /\ ExpireRuns \in RunTable
  BY ExpireNodesType, ExpireRunsType, CancelAttemptsType DEF KernelInv, TypeOK
<1>2. /\ LoseNodes(ExpireNodes, o) \in NodeTable
      /\ LoseAttempts(cut, Reclaimable) \in AttemptTable
      /\ LoseRuns(ExpireRuns, LoseAttempts(cut, Reclaimable), o) \in RunTable
  BY <1>1, LoseNodesType, LoseAttemptsType, LoseRunsType
<1>3. /\ Reclaimable \in SUBSET (Node \X AttemptNo)
      /\ \A a \in Reclaimable : cut[a].status = "running"
  <2>1. ASSUME NEW n \in Node, NEW k \in AttemptNo, <<n, k>> \in Reclaimable
        PROVE  cut[<<n, k>>].status = "running"
    BY <2>1, CancelAttemptsEffect DEF Reclaimable, KernelInv, TypeOK
  <2> HIDE DEF cut
  <2>2. QED
    BY <2>1 DEF Reclaimable
<1>4. o \in [{a[1] : a \in Reclaimable} -> {"ready", "failed", "cancelled"}]
  BY DEF LostOutcomes
<1>5. /\ Matched(ExpireNodes, cut)
      /\ Planned(ExpireNodes, ExpireRuns)
      /\ Quiet(ExpireNodes, ExpireRuns)
      /\ Done(ExpireNodes, ExpireRuns)
  BY ExpireStage
<1> HIDE DEF cut
<1>6. Matched(LoseNodes(ExpireNodes, o), LoseAttempts(cut, Reclaimable))
  BY <1>1, <1>3, <1>4, <1>5, LoseStage
<1>7. /\ NodesRecede(ExpireNodes, LoseNodes(ExpireNodes, o))
      /\ AttemptsRecede(cut, LoseAttempts(cut, Reclaimable))
      /\ RunsRecede(ExpireNodes, ExpireRuns, LoseNodes(ExpireNodes, o),
                    LoseRuns(ExpireRuns, LoseAttempts(cut, Reclaimable), o))
  BY <1>1, <1>3, <1>4, <1>5, LoseRecedes
<1>8. QED
  BY <1>1, <1>2, <1>6, <1>7 DEF cut

(* A committed claim_ready, as its three stages. *)
LEMMA ClaimReadyStages ==
    ASSUME NEW limit, NEW reserve, ClaimReady(limit, reserve)
    PROVE  LET swept == LoseAttempts(CancelAttempts(attempt, Overdue), Reclaimable)
           IN  \E o \in LostOutcomes({a[1] : a \in Reclaimable}), S \in SUBSET Node :
                  LET nodes == LoseNodes(ExpireNodes, o)
                      runs == LoseRuns(ExpireRuns, swept, o)
                  IN  /\ S \in SUBSET Candidates(nodes, runs)
                      /\ \A n \in S : Fits(nodes, runs, S, n)
                      /\ node' = Claimed(nodes, S)
                      /\ attempt' = Begun(nodes, swept, runs, S)
                      /\ run' = Resumed(runs, S)
<1> DEFINE swept == LoseAttempts(CancelAttempts(attempt, Overdue), Reclaimable)
<1>1. PICK o \in LostOutcomes({a[1] : a \in Reclaimable}), S \in SUBSET Node :
        LET nodes == LoseNodes(ExpireNodes, o)
            runs == LoseRuns(ExpireRuns, swept, o)
        IN  /\ Selection(nodes, runs, S, limit, reserve)
            /\ node' = Claimed(nodes, S)
            /\ attempt' = Begun(nodes, swept, runs, S)
            /\ run' = Resumed(runs, S)
  BY DEF ClaimReady, Claimed, Begun, Resumed
<1> DEFINE nodes == LoseNodes(ExpireNodes, o)
           runs == LoseRuns(ExpireRuns, swept, o)
<1>2. S \in SUBSET Candidates(nodes, runs) /\ \A n \in S : Fits(nodes, runs, S, n)
  BY <1>1 DEF Selection
<1> HIDE DEF swept
<1>3. QED
  BY <1>1, <1>2 DEF swept

LEMMA ClaimReadyHistory ==
    ASSUME KernelInv, History(node, attempt, run), NEW limit, NEW reserve,
           ClaimReady(limit, reserve)
    PROVE  History(node', attempt', run')
<1> DEFINE cut == CancelAttempts(attempt, Overdue)
           swept == LoseAttempts(cut, Reclaimable)
<1>1. PICK o \in LostOutcomes({a[1] : a \in Reclaimable}), S \in SUBSET Node :
        LET nodes == LoseNodes(ExpireNodes, o)
            runs == LoseRuns(ExpireRuns, swept, o)
        IN  /\ S \in SUBSET Candidates(nodes, runs)
            /\ \A n \in S : Fits(nodes, runs, S, n)
            /\ node' = Claimed(nodes, S)
            /\ attempt' = Begun(nodes, swept, runs, S)
            /\ run' = Resumed(runs, S)
  BY ClaimReadyStages
<1> DEFINE nodes == LoseNodes(ExpireNodes, o)
           runs == LoseRuns(ExpireRuns, swept, o)
<1>2. /\ swept \in AttemptTable
      /\ nodes \in NodeTable
      /\ ExpireRuns \in RunTable /\ runs \in RunTable
      /\ NodesRecede(ExpireNodes, nodes)
      /\ AttemptsRecede(cut, swept)
      /\ RunsRecede(ExpireNodes, ExpireRuns, nodes, runs)
  BY SweptTables
<1>3. History(ExpireNodes, cut, ExpireRuns)
  BY ExpireRecedes, RecedeKeepsHistory DEF KernelInv, TypeOK
<1> HIDE DEF nodes, runs, swept, cut
<1>4. History(nodes, swept, runs)
  BY <1>2, <1>3, RecedeKeepsHistory
<1>5. QED
  BY <1>1, <1>2, <1>4, ClaimHistory DEF nodes, runs, swept

(* A plan P is written for a run r that has not ended, and what was open of   *)
(* an earlier one is superseded.                                              *)
LEMMA PlanHistory ==
    ASSUME TypeOK, History(node, attempt, run), NEW r \in Run, run[r].status \notin RunTerminal,
           NEW P \in SUBSET Node, \A m \in P : RunOf[m] = r /\ node[m].status = "absent",
           NEW nodes,
           \A m \in P : /\ nodes[m].attempts = 0
                        /\ nodes[m].status = IF Sources(m) = {} THEN "ready" ELSE "pending",
           \A m \in Node \ P : \/ nodes[m] = node[m]
                               \/ /\ RunOf[m] = r
                                  /\ node[m].status \in NodeOpen
                                  /\ nodes[m].status = "superseded"
                                  /\ nodes[m].attempts = node[m].attempts,
           NEW runs, \A q \in Run : q # r => runs[q] = run[q],
           runs[r].status = "queued",
           runs[r].cancellation = run[r].cancellation,
           runs[r].tier = run[r].tier
    PROVE  History(nodes, attempt, runs)
<1>1. Ordered(nodes)
  <2> SUFFICES ASSUME NEW n \in Node, nodes[n].status \in Started, NEW m \in Sources(n)
               PROVE  nodes[m].status = "succeeded"
    BY DEF Ordered
  <2>1. m \in Node
    BY DEF Sources
  <2>2. n \notin P
    BY NodeSets
  <2>3. nodes[n] = node[n]
    BY <2>2, NodeSets
  <2>4. node[m].status = "succeeded"
    BY <2>3 DEF History, Ordered
  <2>5. QED
    BY <2>1, <2>4, NodeSets
<1>2. Numbered(nodes, attempt)
  <2> SUFFICES ASSUME NEW n \in Node
               PROVE  /\ nodes[n].status = "absent" => nodes[n].attempts = 0
                      /\ \A k \in AttemptNo :
                            attempt[<<n, k>>].status # "absent" <=> k <= nodes[n].attempts
    BY DEF Numbered
  <2>1. nodes[n].attempts = node[n].attempts
    BY DEF History, Numbered
  <2>2. nodes[n].status = "absent" => node[n].status = "absent"
    OBVIOUS
  <2>3. QED
    BY <2>1, <2>2 DEF History, Numbered
<1>3. Fenced(nodes, runs)
  <2> SUFFICES ASSUME NEW q \in Run, runs[q].cancellation > 0
               PROVE  /\ runs[q].status \in {"failed", "cancelled"}
                      /\ \A n \in Node : RunOf[n] = q => nodes[n].status \notin NodeOpen
    BY DEF Fenced
  <2>1. /\ run[q].status \in {"failed", "cancelled"}
        /\ \A n \in Node : RunOf[n] = q => node[n].status \notin NodeOpen
    BY DEF History, Fenced
  <2>2. q # r
    BY <2>1, NodeSets
  <2>3. \A n \in Node : RunOf[n] = q => nodes[n] = node[n]
    BY <2>2
  <2>4. QED
    BY <2>1, <2>2, <2>3
<1>4. Within(nodes, runs)
  <2>1. \A n \in Node : nodes[n].status = "running" => node[n].status = "running"
    OBVIOUS
  <2>2. \A q \in Run : runs[q].tier \in {run[q].tier, "deep"}
    OBVIOUS
  <2>3. QED
    BY <2>1, <2>2, FewerBusyWithin DEF History, TypeOK
<1>5. Reasoned(nodes, runs)
  <2> SUFFICES ASSUME NEW q \in Run, runs[q].status \in RunWaiting
               PROVE  \E n \in Node : /\ RunOf[n] = q
                                      /\ RevisionOf[n] = runs[q].revision
                                      /\ nodes[n].status = runs[q].status
    BY DEF Reasoned
  <2>1. q # r
    BY NodeSets
  <2>2. \A n \in Node : RunOf[n] = q => nodes[n] = node[n]
    BY <2>1
  <2>3. QED
    BY <2>1, <2>2 DEF History, Reasoned
<1>6. QED
  BY <1>1, <1>2, <1>3, <1>4, <1>5 DEF History

LEMMA CreateHistory ==
    ASSUME KernelInv, History(node, attempt, run), NEW r \in Run, Create(r)
    PROVE  History(node', attempt', run')
<1> DEFINE P == Plan(r, 1)
<1>1. /\ run[r].status = "absent"
      /\ attempt' = attempt
      /\ node' = InsertPlan(node, P)
  BY DEF Create
<1>2. /\ \A q \in Run : q # r => run'[q] = run[q]
      /\ run'[r].status = "queued"
      /\ run'[r].cancellation = run[r].cancellation
      /\ run'[r].tier = run[r].tier
  BY DEF Create, KernelInv, TypeOK, RunTable
<1>3. P \in SUBSET Node /\ \A m \in P : RunOf[m] = r
  BY DEF Plan
<1>4. \A m \in P : node[m].status = "absent"
  BY <1>1, <1>3 DEF KernelInv, Planned
<1>5. run[r].status \notin RunTerminal
  BY <1>1, NodeSets
<1> HIDE DEF P
<1>6. /\ \A m \in P : /\ node'[m].attempts = 0
                      /\ node'[m].status = IF Sources(m) = {} THEN "ready" ELSE "pending"
      /\ \A m \in Node \ P : node'[m] = node[m]
  BY <1>1, <1>3 DEF InsertPlan
<1>7. QED
  BY <1>1, <1>2, <1>3, <1>4, <1>5, <1>6, PlanHistory DEF KernelInv

LEMMA AppendPlanHistory ==
    ASSUME KernelInv, History(node, attempt, run), NEW r \in Run, NEW i, AppendPlan(r, i)
    PROVE  History(node', attempt', run')
<1> DEFINE next == run[r].revision + 1
           P == Plan(r, next)
           replaced == {n \in ActivePlan(r) : node[n].status \in NodeOpen \ {"running"}}
           base == SetNodes(replaced, "superseded")
<1>1. /\ run[r].status \notin RunTerminal
      /\ attempt' = attempt
      /\ node' = InsertPlan(base, P)
  BY DEF AppendPlan, Live
<1>2. /\ \A q \in Run : q # r => run'[q] = run[q]
      /\ run'[r].status = "queued"
      /\ run'[r].cancellation = run[r].cancellation
      /\ run'[r].tier = run[r].tier
  BY DEF AppendPlan, KernelInv, TypeOK, RunTable
<1>3. P \in SUBSET Node /\ \A m \in P : RunOf[m] = r /\ RevisionOf[m] = next
  BY DEF Plan
<1>4. \A m \in P : node[m].status = "absent"
  <2>1. run[r].revision \in Nat
    BY DEF KernelInv, TypeOK, RunTable
  <2>2. QED
    BY <1>3, <2>1 DEF KernelInv, Planned
<1>5. \A m \in Node : \/ base[m] = node[m]
                      \/ /\ RunOf[m] = r
                         /\ node[m].status \in NodeOpen
                         /\ base[m].status = "superseded"
                         /\ base[m].attempts = node[m].attempts
  BY DEF SetNodes, KernelInv, TypeOK, NodeTable, ActivePlan, Plan
<1> HIDE DEF P, base
<1>6. /\ \A m \in P : /\ node'[m].attempts = 0
                      /\ node'[m].status = IF Sources(m) = {} THEN "ready" ELSE "pending"
      /\ \A m \in Node \ P : node'[m] = base[m]
  BY <1>1, <1>3 DEF InsertPlan
<1>7. \A m \in Node \ P : \/ node'[m] = node[m]
                          \/ /\ RunOf[m] = r
                             /\ node[m].status \in NodeOpen
                             /\ node'[m].status = "superseded"
                             /\ node'[m].attempts = node[m].attempts
  BY <1>5, <1>6
<1>8. QED
  BY <1>1, <1>2, <1>3, <1>4, <1>6, <1>7, PlanHistory DEF KernelInv

-----------------------------------------------------------------------------
(* Every step begins no work or is one of the three that do. *)
LEMMA NextRecedes ==
    ASSUME KernelInv, [Next]_vars
    PROVE  \/ Recedes
           \/ \E limit \in 1..MaxLimit, reserve \in BOOLEAN : ClaimReady(limit, reserve)
           \/ \E r \in Run : Create(r)
           \/ \E r \in Run, i \in Instruction \union {None} : AppendPlan(r, i)
<1>1. CASE \E n \in Node, k \in AttemptNo :
             Settle(n, k) \/ Abandon(n, k) \/ Renew(n, k) \/ LeaseExpires(n, k)
  BY <1>1, SettleRecedes, AbandonRecedes, RenewRecedes, TimeRecedes
<1>2. CASE \E r \in Run : \/ RequestPause(r)
                          \/ Resume(r)
                          \/ Cancel(r)
                          \/ UpgradeBudget(r)
                          \/ DeadlinePasses(r)
                          \/ \E i \in Instruction : AddInstruction(r, i)
  BY <1>2, RequestRecedes, CancelRecedesRun, TimeRecedes
<1>3. CASE (\E n \in Node : BecomesDue(n)) \/ UNCHANGED vars
  BY <1>3, TimeRecedes
<1>4. QED
  BY <1>1, <1>2, <1>3 DEF Next

LEMMA NextHistory ==
    ASSUME KernelInv, History(node, attempt, run), [Next]_vars
    PROVE  History(node', attempt', run')
<1>1. CASE Recedes
  BY <1>1, RecedeKeepsHistory DEF Recedes, KernelInv, TypeOK
<1>2. QED
  BY <1>1, NextRecedes, ClaimReadyHistory, CreateHistory, AppendPlanHistory

LEMMA InitHistory ==
    ASSUME Init
    PROVE  History(node, attempt, run)
<1>1. Ordered(node)
  BY NodeSets DEF Init, Ordered
<1>2. Numbered(node, attempt)
  <2>1. \A k \in AttemptNo : ~(k <= 0)
    BY BudgetAssumption DEF AttemptNo
  <2>2. \A n \in Node : node[n].status = "absent" /\ node[n].attempts = 0
    BY DEF Init
  <2>3. \A n \in Node, k \in AttemptNo : attempt[<<n, k>>].status = "absent"
    BY DEF Init
  <2>4. QED
    BY <2>1, <2>2, <2>3 DEF Numbered
<1>3. Fenced(node, run)
  BY DEF Init, Fenced
<1>4. Within(node, run)
  <2>1. ASSUME NEW r \in Run
        PROVE  Busy(node, r) = {} /\ run[r].tier = "normal"
    BY DEF Init, Busy
  <2>2. Cardinality({}) = 0 /\ 0 <= MaxParallel["normal"]
    BY FS_EmptySet, TierBound
  <2>3. QED
    BY <2>1, <2>2 DEF Within
<1>5. Reasoned(node, run)
  BY NodeSets DEF Init, Reasoned
<1>6. QED
  BY <1>1, <1>2, <1>3, <1>4, <1>5 DEF History

(* No run disappears or goes back to an earlier plan. *)
LEMMA RevisionsGrow ==
    ASSUME KernelInv, [Next]_vars, NEW r \in Run, run[r].status # "absent"
    PROVE  run'[r].status # "absent" /\ run'[r].revision >= run[r].revision
<1>1. run[r].revision \in Nat
  BY DEF KernelInv, TypeOK, RunTable
<1>2. CASE Recedes
  BY <1>1, <1>2 DEF Recedes, RunsRecede
<1>3. ASSUME NEW limit, NEW reserve, ClaimReady(limit, reserve)
      PROVE  run'[r].status # "absent" /\ run'[r].revision = run[r].revision
  <2> DEFINE swept == LoseAttempts(CancelAttempts(attempt, Overdue), Reclaimable)
  <2>1. PICK o \in LostOutcomes({a[1] : a \in Reclaimable}), S \in SUBSET Node :
          run' = Resumed(LoseRuns(ExpireRuns, swept, o), S)
    BY <1>3, ClaimReadyStages
  <2> DEFINE runs == LoseRuns(ExpireRuns, swept, o)
  <2>2. /\ runs \in RunTable
        /\ RunsRecede(ExpireNodes, ExpireRuns, LoseNodes(ExpireNodes, o), runs)
    BY SweptTables
  <2>3. RunsRecede(node, run, ExpireNodes, ExpireRuns)
    BY ExpireRecedes DEF KernelInv
  <2> HIDE DEF runs, swept
  <2>4. runs[r].status # "absent" /\ runs[r].revision = run[r].revision
    BY <2>2, <2>3 DEF RunsRecede
  <2>5. QED
    BY <2>1, <2>2, <2>4 DEF Resumed, RunTable, runs
<1>4. ASSUME NEW q \in Run, Create(q)
      PROVE  run'[r] = run[r]
  BY <1>4 DEF Create, KernelInv, TypeOK, RunTable
<1>5. ASSUME NEW q \in Run, NEW i, AppendPlan(q, i)
      PROVE  run'[r].status # "absent" /\ run'[r].revision >= run[r].revision
  <2>1. /\ q = r => run'[r].status = "queued" /\ run'[r].revision = run[r].revision + 1
        /\ q # r => run'[r] = run[r]
    BY <1>5 DEF AppendPlan, KernelInv, TypeOK, RunTable
  <2>2. QED
    BY <1>1, <2>1
<1>6. QED
  BY <1>1, <1>2, <1>3, <1>4, <1>5, NextRecedes

(* What is known of one instruction: it belongs to a run that exists, was     *)
(* given against a plan of it that exists, and was applied by a later one.    *)
Known(instructions, runs) ==
    \A i \in Instruction :
        LET x == instructions[i]
        IN  x.status # "absent"
                => /\ x.run \in Run
                   /\ runs[x.run].status # "absent"
                   /\ x.expected <= runs[x.run].revision
                   /\ x.status = "applied" => x.applied > x.expected /\ x.applied <= runs[x.run].revision

(* No two instructions of a run were applied by the same plan. *)
Distinct(instructions) ==
    \A i, j \in Instruction :
        (/\ i # j
         /\ instructions[i].status = "applied"
         /\ instructions[j].status = "applied"
         /\ instructions[i].run = instructions[j].run)
            => instructions[i].applied # instructions[j].applied

HistoryInv ==
    /\ KernelInv
    /\ History(node, attempt, run)
    /\ Known(instruction, run)
    /\ Distinct(instruction)

(* Runs that keep or advance their revision keep what is known. *)
LEMMA KnownKept ==
    ASSUME TypeOK, TypeOK', Known(instruction, run),
           \A r \in Run : run[r].status # "absent"
               => run'[r].status # "absent" /\ run'[r].revision >= run[r].revision
    PROVE  Known(instruction, run')
<1> SUFFICES ASSUME NEW i \in Instruction, instruction[i].status # "absent"
             PROVE  LET x == instruction[i]
                    IN  /\ x.run \in Run
                        /\ run'[x.run].status # "absent"
                        /\ x.expected <= run'[x.run].revision
                        /\ x.status = "applied"
                              => x.applied > x.expected /\ x.applied <= run'[x.run].revision
  BY DEF Known
<1> DEFINE q == instruction[i].run
<1>1. /\ q \in Run
      /\ run[q].status # "absent"
      /\ instruction[i].expected <= run[q].revision
      /\ instruction[i].status = "applied"
            => /\ instruction[i].applied > instruction[i].expected
               /\ instruction[i].applied <= run[q].revision
  BY DEF Known
<1>2. /\ run[q].revision \in Nat /\ run'[q].revision \in Nat
      /\ instruction[i].expected \in Nat /\ instruction[i].applied \in Nat
  BY <1>1 DEF TypeOK, RunTable, InstructionTable
<1>3. run'[q].status # "absent" /\ run'[q].revision >= run[q].revision
  BY <1>1
<1>4. QED
  BY <1>1, <1>2, <1>3

LEMMA AddInstructionKnown ==
    ASSUME TypeOK, Known(instruction, run), Distinct(instruction),
           NEW r \in Run, NEW i \in Instruction, AddInstruction(r, i)
    PROVE  Known(instruction', run') /\ Distinct(instruction')
<1>1. /\ run' = run
      /\ run[r].status # "absent"
      /\ \A j \in Instruction : j # i => instruction'[j] = instruction[j]
      /\ instruction'[i] = [status |-> "pending", run |-> r, expected |-> run[r].revision,
                            applied |-> 0]
  BY DEF AddInstruction, Live, TypeOK, InstructionTable
<1>2. run[r].revision <= run[r].revision
  BY DEF TypeOK, RunTable
<1>3. Known(instruction', run')
  BY <1>1, <1>2 DEF Known
<1>4. Distinct(instruction')
  BY <1>1 DEF Distinct
<1>5. QED
  BY <1>3, <1>4

LEMMA AppendPlanKnown ==
    ASSUME TypeOK, Known(instruction, run), Distinct(instruction),
           NEW r \in Run, NEW i, AppendPlan(r, i), Known(instruction, run')
    PROVE  Known(instruction', run') /\ Distinct(instruction')
<1> DEFINE next == run[r].revision + 1
<1>1. run'[r].revision = next /\ run'[r].status = "queued"
  BY DEF AppendPlan, TypeOK, RunTable
<1>2. run[r].revision \in Nat
  BY DEF TypeOK, RunTable
<1>3. \A j \in Instruction :
        \/ instruction'[j] = instruction[j]
        \/ /\ j = i
           /\ instruction[j].run = r
           /\ instruction[j].status = "pending"
           /\ instruction'[j].status = "applied"
           /\ instruction'[j].run = r
           /\ instruction'[j].expected = instruction[j].expected
           /\ instruction'[j].applied = next
  BY DEF AppendPlan, TypeOK, InstructionTable
<1> HIDE DEF next
<1>4. ASSUME NEW j \in Instruction, instruction[j].run = r, instruction[j].status # "absent"
      PROVE  /\ instruction[j].expected < next
             /\ instruction[j].status = "applied" => instruction[j].applied < next
  <2>1. /\ instruction[j].expected <= run[r].revision
        /\ instruction[j].status = "applied" => instruction[j].applied <= run[r].revision
    BY <1>4 DEF Known
  <2>2. instruction[j].expected \in Nat /\ instruction[j].applied \in Nat
    BY DEF TypeOK, InstructionTable
  <2>3. QED
    BY <1>2, <2>1, <2>2 DEF next
<1>5. Known(instruction', run')
  <2> SUFFICES ASSUME NEW j \in Instruction, instruction'[j].status # "absent"
               PROVE  LET x == instruction'[j]
                      IN  /\ x.run \in Run
                          /\ run'[x.run].status # "absent"
                          /\ x.expected <= run'[x.run].revision
                          /\ x.status = "applied"
                                => x.applied > x.expected /\ x.applied <= run'[x.run].revision
    BY DEF Known
  <2>1. CASE instruction'[j] = instruction[j]
    BY <2>1 DEF Known
  <2>2. CASE instruction'[j] # instruction[j]
    <3>1. /\ instruction[j].run = r /\ instruction[j].status = "pending"
          /\ instruction'[j].run = r
          /\ instruction'[j].expected = instruction[j].expected
          /\ instruction'[j].applied = next
      BY <1>3, <2>2
    <3>2. instruction[j].expected < next
      BY <1>4, <3>1
    <3>3. instruction[j].expected \in Nat /\ next \in Nat
      BY <1>2 DEF TypeOK, InstructionTable, next
    <3>4. QED
      BY <1>1, <3>1, <3>2, <3>3
  <2>3. QED
    BY <2>1, <2>2
<1>6. Distinct(instruction')
  <2> SUFFICES ASSUME NEW j \in Instruction, NEW l \in Instruction, j # l,
                      instruction'[j].status = "applied", instruction'[l].status = "applied",
                      instruction'[j].run = instruction'[l].run
               PROVE  instruction'[j].applied # instruction'[l].applied
    BY DEF Distinct
  <2>1. \A x \in Instruction : instruction[x].applied \in Nat /\ next \in Nat
    BY <1>2 DEF TypeOK, InstructionTable, next
  <2>2. CASE instruction'[j] = instruction[j] /\ instruction'[l] = instruction[l]
    BY <2>2 DEF Distinct
  <2>3. CASE instruction'[j] # instruction[j]
    <3>1. instruction'[j].run = r /\ instruction'[j].applied = next /\ j = i
      BY <1>3, <2>3
    <3>2. instruction'[l] = instruction[l]
      BY <1>3, <3>1
    <3>3. instruction[l].applied < next
      BY <1>4, <3>1, <3>2
    <3>4. QED
      BY <2>1, <3>1, <3>2, <3>3
  <2>4. CASE instruction'[l] # instruction[l]
    <3>1. instruction'[l].run = r /\ instruction'[l].applied = next /\ l = i
      BY <1>3, <2>4
    <3>2. instruction'[j] = instruction[j]
      BY <1>3, <3>1
    <3>3. instruction[j].applied < next
      BY <1>4, <3>1, <3>2
    <3>4. QED
      BY <2>1, <3>1, <3>2, <3>3
  <2>5. QED
    BY <2>2, <2>3, <2>4
<1>7. QED
  BY <1>5, <1>6

(* Only AddInstruction and AppendPlan write instructions. *)
LEMMA InstructionsKept ==
    ASSUME [Next]_vars,
           ~ \E r \in Run, i \in Instruction : AddInstruction(r, i),
           ~ \E r \in Run, i \in Instruction \union {None} : AppendPlan(r, i)
    PROVE  UNCHANGED instruction
<1>1. ASSUME NEW n \in Node, NEW k \in AttemptNo,
             Settle(n, k) \/ Abandon(n, k) \/ Renew(n, k) \/ LeaseExpires(n, k)
      PROVE  UNCHANGED instruction
  BY <1>1 DEF Settle, Complete, Retry, Defer, Fail, FailRun, Postpone, WaitForApproval,
              WaitForInput, WaitFor, Abandon, Renew, LeaseExpires
<1>2. ASSUME NEW r \in Run,
             \/ Create(r) \/ RequestPause(r) \/ Resume(r) \/ Cancel(r)
             \/ UpgradeBudget(r) \/ DeadlinePasses(r)
      PROVE  UNCHANGED instruction
  BY <1>2 DEF Create, RequestPause, Resume, Cancel, UpgradeBudget, DeadlinePasses
<1>3. QED
  BY <1>1, <1>2 DEF Next, ClaimReady, BecomesDue, vars

LEMMA NextHistoryInv == HistoryInv /\ [Next]_vars => HistoryInv'
<1> SUFFICES ASSUME HistoryInv, [Next]_vars PROVE HistoryInv'
  OBVIOUS
<1>1. KernelInv /\ KernelInv' /\ TypeOK /\ TypeOK'
  BY NextInv DEF HistoryInv, KernelInv
<1>2. History(node', attempt', run')
  BY <1>1, NextHistory DEF HistoryInv
<1>3. Known(instruction, run')
  BY <1>1, RevisionsGrow, KnownKept DEF HistoryInv
<1>4. Known(instruction', run') /\ Distinct(instruction')
  <2>1. CASE \E r \in Run, i \in Instruction : AddInstruction(r, i)
    BY <1>1, <2>1, AddInstructionKnown DEF HistoryInv
  <2>2. CASE \E r \in Run, i \in Instruction \union {None} : AppendPlan(r, i)
    BY <1>1, <1>3, <2>2, AppendPlanKnown DEF HistoryInv
  <2>3. CASE UNCHANGED instruction
    BY <1>3, <2>3 DEF HistoryInv
  <2>4. QED
    BY <2>1, <2>2, <2>3, InstructionsKept
<1>5. QED
  BY <1>1, <1>2, <1>4
     DEF HistoryInv, History, Known, Distinct, Ordered, Numbered, Fenced, Within, Reasoned, Busy

LEMMA InitHistoryInv == Init => HistoryInv
<1> SUFFICES ASSUME Init PROVE HistoryInv
  OBVIOUS
<1>1. \A i \in Instruction : instruction[i].status = "absent"
  BY DEF Init
<1>2. QED
  BY <1>1, InitInv, InitHistory DEF HistoryInv, Known, Distinct

(* The strengthened inductive invariant holds of every behaviour.             *)
THEOREM KernelHistory == Spec => []HistoryInv
<1>1. QED
  BY InitHistoryInv, NextHistoryInv, PTL DEF Spec

LEMMA HistoryInvParts ==
    ASSUME HistoryInv
    PROVE  /\ DependenciesFirst
           /\ ConcurrencyRespected
           /\ WaitingHasReason
           /\ InstructionsConsumedOnce
<1>1. DependenciesFirst
  BY DEF HistoryInv, History, Ordered, Started, DependenciesFirst
<1>2. ConcurrencyRespected
  BY DEF HistoryInv, History, Within, ConcurrencyRespected
<1>3. WaitingHasReason
  BY DEF HistoryInv, History, Reasoned, WaitingHasReason, ActivePlan, Plan
<1>4. InstructionsConsumedOnce
  BY DEF HistoryInv, Known, Distinct, InstructionsConsumedOnce
<1>5. QED
  BY <1>1, <1>2, <1>3, <1>4

(* No node is ready, runs, waits or has succeeded before all of its sources   *)
(* have succeeded (_promote_dependents, _insert_plan), whatever is lost,      *)
(* retried, resumed or replanned meanwhile.                                   *)
THEOREM SourcesComeFirst == Spec => []DependenciesFirst
<1>1. QED
  BY KernelHistory, HistoryInvParts, PTL

(* The running nodes of a run are within the parallel budget of its tier and  *)
(* pairwise free of conflicts, although one claim_ready after another adds to *)
(* them (conflicts, the count of active nodes).                               *)
THEOREM BudgetsAreRespected == Spec => []ConcurrencyRespected
<1>1. QED
  BY KernelHistory, HistoryInvParts, PTL

(* A run that waits for an approval or an input has a node of its active plan *)
(* that does (wait_for_approval, wait_for_input, _settle_run, append_plan).   *)
THEOREM WaitsHaveReasons == Spec => []WaitingHasReason
<1>1. QED
  BY KernelHistory, HistoryInvParts, PTL

(* An instruction is consumed by one plan, later than the one it was given    *)
(* against, and a plan consumes at most one (add_instruction, append_plan).   *)
THEOREM PlansConsumeOneInstruction == Spec => []InstructionsConsumedOnce
<1>1. QED
  BY KernelHistory, HistoryInvParts, PTL

-----------------------------------------------------------------------------
(* Two action properties. *)

LEMMA FencedStep ==
    ASSUME HistoryInv, [Next]_vars, NEW r \in Run, run'[r].cancellation > 0,
           NEW n \in Node, RunOf[n] = r, node'[n].status = "succeeded"
    PROVE  node[n].status = "succeeded"
<1>1. KernelInv /\ Fenced(node, run)
  BY DEF HistoryInv, History
<1>2. CASE Recedes
  <2>1. /\ node[n].status \in NodeOpen \union {"succeeded"}
        /\ FenceKept(r, node, run, node', run')
    BY <1>2 DEF Recedes, NodesRecede, RunsRecede
  <2>2. QED
    BY <1>1, <2>1 DEF FenceKept, Fenced
<1>3. ASSUME NEW limit, NEW reserve, ClaimReady(limit, reserve)
      PROVE  node[n].status = "succeeded"
  <2> DEFINE swept == LoseAttempts(CancelAttempts(attempt, Overdue), Reclaimable)
  <2>1. PICK o \in LostOutcomes({a[1] : a \in Reclaimable}), S \in SUBSET Node :
          node' = Claimed(LoseNodes(ExpireNodes, o), S)
    BY <1>3, ClaimReadyStages
  <2> DEFINE nodes == LoseNodes(ExpireNodes, o)
  <2>2. nodes \in NodeTable /\ ExpireNodes \in NodeTable
    BY <1>1, SweptTables, ExpireNodesType DEF KernelInv, TypeOK
  <2>3. nodes[n].status = "succeeded"
    <3> HIDE DEF nodes
    <3>1. QED
      BY <2>1, <2>2 DEF Claimed, NodeTable, nodes
  <2>4. ExpireNodes[n].status = "succeeded"
    BY <2>2, <2>3 DEF LoseNodes, LostOutcomes, NodeTable
  <2>5. QED
    BY <1>1, <2>4 DEF ExpireNodes, KernelInv, TypeOK, NodeTable
<1>4. ASSUME NEW q \in Run, NEW i, Create(q) \/ AppendPlan(q, i)
      PROVE  node[n].status = "succeeded"
  <2>1. CASE Create(q)
    BY <1>1, <2>1 DEF Create, InsertPlan
  <2>2. CASE AppendPlan(q, i)
    <3>1. PICK P, replaced : node' = InsertPlan(SetNodes(replaced, "superseded"), P)
      BY <2>2 DEF AppendPlan
    <3>2. SetNodes(replaced, "superseded")[n].status = "succeeded"
      BY <3>1 DEF InsertPlan
    <3>3. QED
      BY <1>1, <3>2 DEF SetNodes, KernelInv, TypeOK, NodeTable
  <2>3. QED
    BY <1>4, <2>1, <2>2
<1>5. QED
  BY <1>1, <1>2, <1>3, <1>4, NextRecedes

(* In a run that was cancelled, failed or expired no node succeeds any more:  *)
(* every attempt of it is fenced by the cancellation revision (_require_claim, *)
(* cancel, fail, _expire_overdue).                                            *)
THEOREM FencedWorkStaysUnfinished == Spec => FencedWorkNeverSucceeds
<1>1. HistoryInv /\ [Next]_vars
         => [\A r \in Run : run'[r].cancellation > 0
               => \A n \in Node : RunOf[n] = r /\ node'[n].status = "succeeded"
                                     => node[n].status = "succeeded"]_vars
  BY FencedStep
<1>2. QED
  BY <1>1, KernelHistory, PTL DEF Spec, FencedWorkNeverSucceeds

LEMMA AttemptStep ==
    ASSUME HistoryInv, [Next]_vars, NEW n \in Node, NEW k \in AttemptNo
    PROVE  /\ attempt[<<n, k>>].status \notin {"absent", "running"}
                 => attempt'[<<n, k>>] = attempt[<<n, k>>]
           /\ attempt[<<n, k>>].status = "absent" /\ attempt'[<<n, k>>].status # "absent"
                 => \A j \in 1..(k - 1) : attempt'[<<n, j>>].status \notin {"absent", "running"}
           /\ attempt[<<n, k>>].status # "absent" => attempt'[<<n, k>>].status # "absent"
<1>1. KernelInv /\ History(node, attempt, run)
  BY DEF HistoryInv
<1>2. CASE Recedes
  BY <1>2 DEF Recedes, AttemptsRecede
<1>3. ASSUME NEW limit, NEW reserve, ClaimReady(limit, reserve)
      PROVE  /\ attempt[<<n, k>>].status \notin {"absent", "running"}
                   => attempt'[<<n, k>>] = attempt[<<n, k>>]
             /\ attempt[<<n, k>>].status = "absent" /\ attempt'[<<n, k>>].status # "absent"
                   => \A j \in 1..(k - 1) : attempt'[<<n, j>>].status \notin {"absent", "running"}
             /\ attempt[<<n, k>>].status # "absent" => attempt'[<<n, k>>].status # "absent"
  <2> DEFINE cut == CancelAttempts(attempt, Overdue)
             swept == LoseAttempts(cut, Reclaimable)
  <2>1. PICK o \in LostOutcomes({a[1] : a \in Reclaimable}), S \in SUBSET Node :
          LET nodes == LoseNodes(ExpireNodes, o)
              runs == LoseRuns(ExpireRuns, swept, o)
          IN  /\ S \in SUBSET Candidates(nodes, runs)
              /\ attempt' = Begun(nodes, swept, runs, S)
    BY <1>3, ClaimReadyStages
  <2> DEFINE nodes == LoseNodes(ExpireNodes, o)
             runs == LoseRuns(ExpireRuns, swept, o)
  <2>2. /\ nodes \in NodeTable
        /\ ExpireRuns \in RunTable
        /\ Matched(nodes, swept)
        /\ NodesRecede(ExpireNodes, nodes)
        /\ AttemptsRecede(cut, swept)
        /\ RunsRecede(ExpireNodes, ExpireRuns, nodes, runs)
    BY <1>1, SweptTables
  <2>3. History(ExpireNodes, cut, ExpireRuns) /\ AttemptsRecede(attempt, cut)
    BY <1>1, ExpireRecedes, RecedeKeepsHistory DEF KernelInv, TypeOK
  <2>4. \A m \in S : nodes[m].status = "ready"
    BY <2>1 DEF Candidates
  <2> HIDE DEF nodes, runs, swept, cut
  <2>5. Numbered(nodes, swept)
    BY <2>2, <2>3, RecedeKeepsHistory DEF History
  <2>6. ASSUME NEW j \in AttemptNo
        PROVE  /\ n \in S /\ j = nodes[n].attempts + 1 => attempt'[<<n, j>>].status = "running"
               /\ ~(n \in S /\ j = nodes[n].attempts + 1) => attempt'[<<n, j>>] = swept[<<n, j>>]
    BY <2>1 DEF Begun, nodes, runs, swept
  <2>7. nodes[n].attempts \in Nat /\ \A j \in AttemptNo : j \in Nat
    BY <2>2, BudgetAssumption DEF NodeTable, AttemptNo
  <2>8. /\ attempt[<<n, k>>].status \notin {"absent", "running"} => swept[<<n, k>>] = attempt[<<n, k>>]
        /\ attempt[<<n, k>>].status = "absent" => swept[<<n, k>>] = attempt[<<n, k>>]
    BY <2>2, <2>3 DEF AttemptsRecede
  <2>9. \A j \in AttemptNo : swept[<<n, j>>].status # "absent" <=> j <= nodes[n].attempts
    BY <2>5 DEF Numbered
  <2>10. ASSUME attempt[<<n, k>>].status \notin {"absent", "running"}
         PROVE  attempt'[<<n, k>>] = attempt[<<n, k>>]
    BY <2>6, <2>7, <2>8, <2>9, <2>10
  <2>11. ASSUME attempt[<<n, k>>].status = "absent", attempt'[<<n, k>>].status # "absent",
                NEW j \in 1..(k - 1)
         PROVE  attempt'[<<n, j>>].status \notin {"absent", "running"}
    <3>1. n \in S /\ k = nodes[n].attempts + 1
      BY <2>6, <2>8, <2>11
    <3>2. j \in AttemptNo /\ j <= nodes[n].attempts
      BY <2>7, <3>1, BudgetAssumption DEF AttemptNo
    <3>3. attempt'[<<n, j>>] = swept[<<n, j>>] /\ swept[<<n, j>>].status # "absent"
      BY <2>6, <2>7, <2>9, <3>2
    <3>4. swept[<<n, j>>].status # "running"
      BY <2>2, <2>4, <3>1, <3>2 DEF Matched
    <3>5. QED
      BY <3>3, <3>4
  <2>12. attempt[<<n, k>>].status # "absent" => swept[<<n, k>>].status # "absent"
    BY <2>2, <2>3 DEF AttemptsRecede
  <2>13. attempt[<<n, k>>].status # "absent" => attempt'[<<n, k>>].status # "absent"
    BY <2>6, <2>12
  <2>14. QED
    BY <2>10, <2>11, <2>13
<1>4. ASSUME NEW q \in Run, NEW i, Create(q) \/ AppendPlan(q, i)
      PROVE  attempt' = attempt
  BY <1>4 DEF Create, AppendPlan
<1>5. QED
  BY <1>1, <1>2, <1>3, <1>4, NextRecedes

(* Attempts are a history: a settled one is never rewritten, and the numbers  *)
(* of a node are handed out one by one, each after the one before has ended   *)
(* (claim_ready, the settle operations, abandon, _reclaim_expired).           *)
THEOREM AttemptsAreKept == Spec => AttemptsAreHistory
<1>1. HistoryInv /\ [Next]_vars
         => [\A n \in Node, k \in AttemptNo :
               /\ attempt[<<n, k>>].status \notin {"absent", "running"}
                     => attempt'[<<n, k>>] = attempt[<<n, k>>]
               /\ attempt[<<n, k>>].status = "absent" /\ attempt'[<<n, k>>].status # "absent"
                     => \A j \in 1..(k - 1) :
                           attempt'[<<n, j>>].status \notin {"absent", "running"}]_vars
  BY AttemptStep
<1>2. QED
  BY <1>1, KernelHistory, PTL DEF Spec, AttemptsAreHistory

=============================================================================
