------------------------- MODULE WorkflowScheduler -------------------------
(***************************************************************************)
(* The scheduler process over the durable Workflow Kernel                  *)
(* (fairy_core/workflow/scheduler.py): one coordinator thread that sends   *)
(* heartbeats and claims nodes, a pool of MaxWorkers threads that execute  *)
(* them, callers that pause, resume, cancel or answer a question, a close  *)
(* that drains the pool, and crashes that lose all of its memory.          *)
(*                                                                         *)
(* The kernel's four tables are the ones of WorkflowKernel, whose actions  *)
(* are the units of work that the threads commit.  Threads meet there and  *)
(* under the scheduler's lock; an action is one such commit or one locked  *)
(* section.  A parent node may wait in its thread for a child run, as      *)
(* MediaScheduler.run does.                                                *)
(***************************************************************************)
EXTENDS WorkflowKernel

CONSTANTS
    MaxWorkers,     \* size of the pool
    ParentOf,       \* the parent run of a child run
    Controlled,     \* runs that a user pauses, resumes or cancels
    Fragile,        \* nodes whose heartbeats may fail or come too late
    LifeCap         \* bound on the lives of the process

ASSUME SchedulerAssumption ==
    /\ MaxWorkers \in Nat \ {0, 1}
    /\ MaxWorkers <= MaxLimit
    /\ Child \subseteq Run
    /\ ParentOf \in [Child -> Run \ Child]
    /\ Run \intersect (Node \X AttemptNo) = {}
    /\ LifeCap \in Nat \ {0}

(* Whatever leads up to m, along the edges of its plan, includes n. *)
Before(n, m) ==
    \A steps \in SUBSET Node :
        m \in steps /\ (\A s \in steps : Sources(s) \subseteq steps) => n \in steps

(* The plans that ask their user something are chains: the nodes of an        *)
(* assistant turn come one after the other (assistant_workflow_plan).         *)
ASSUME AskingAssumption ==
    \A n, m \in Node :
        n \in Asking /\ n # m /\ RunOf[n] = RunOf[m] /\ RevisionOf[n] = RevisionOf[m]
            => Before(n, m) \/ Before(m, n)

VARIABLES
    process,        \* is the process up, and which life is it
    pass,           \* the coordinator: its reading of the slots, its claims
    worker,         \* _active: the thread that holds a node
    closing,        \* close, under the lock: nodes whose runs it has yet to pause
    intent,         \* _resume_after_boundary
    check,          \* threads inside _resume_after_boundary_if_ready
    question,       \* the approval or input a run asks for (domain tables)
    cancelling,     \* runs whose tokens a caller has cancelled, but not the run
    recovering      \* runs that recovery after a restart has yet to look at

memory == <<pass, worker, closing, intent, check, cancelling, recovering>>
schedulerVars == <<vars, process, memory, question>>

(* Who may be checking a resume intent: the caller that recorded it, or the  *)
(* thread that has just finished an attempt.                                 *)
Checker == Run \union (Node \X AttemptNo)
RunChecked(c) == IF c \in Run THEN c ELSE RunOf[c[1]]

Idle == [stage |-> "idle", limit |-> 0, reserve |-> FALSE, claims |-> {}]
NoWorker == [stage |-> "none", attempt |-> 0, token |-> "clear"]

WorkerStage == {"none", "submitted", "executing", "child", "approval", "input", "returned", "settled"}
CheckStage == {"none", "deciding", "called", "active", "inactive", "resolved"}

(* Every part of the process's memory has its type. *)
SchedulerTypeOK ==
    /\ TypeOK
    /\ process \in [state : {"running", "closing", "draining", "stopped"}, life : 1..LifeCap]
    /\ pass \in [stage : {"idle", "claiming", "registering"}, limit : 0..MaxWorkers,
                 reserve : BOOLEAN, claims : SUBSET (Node \X AttemptNo)]
    /\ worker \in [Node -> [stage : WorkerStage, attempt : 0..AttemptCap,
                            token : {"clear", "interrupted", "cancelled"}]]
    /\ closing \subseteq Node
    /\ intent \subseteq Run
    /\ check \in [Checker -> CheckStage]
    /\ question \in [Run -> {"none", "approval", "input", "decided"}]
    /\ cancelling \subseteq Run
    /\ recovering \subseteq Run

Active == {n \in Node : worker[n].stage # "none"}
ActiveIn(r) == {n \in Active : RunOf[n] = r}

AsksSomething(r) == \E n \in Asking : RunOf[n] = r

(* The lock is free: close holds it while it pauses the active runs.         *)
Unlocked == closing = {}
Up == process.state # "stopped"

(* A token keeps the first reason it was given. *)
SetToken(n, reason) ==
    IF worker[n].token = "clear" THEN [worker[n] EXCEPT !.token = reason] ELSE worker[n]

SetStage(n, stage) == worker' = [worker EXCEPT ![n].stage = stage]

(* _abandon: nothing happens to a claim that is no longer held.              *)
GiveUp(n, k) == IF ClaimHeld(n, k) THEN Abandon(n, k) ELSE UNCHANGED vars

-----------------------------------------------------------------------------
SchedulerInit ==
    /\ Init
    /\ process = [state |-> "running", life |-> 1]
    /\ pass = Idle
    /\ worker = [n \in Node |-> NoWorker]
    /\ closing = {}
    /\ intent = {}
    /\ check = [c \in Checker |-> "none"]
    /\ question = [r \in Run |-> "none"]
    /\ cancelling = {}
    /\ recovering = {}

-----------------------------------------------------------------------------
(* The coordinator. *)

FaultyReserve == FALSE
Reserve == Active \intersect BlockingParents # {}

(* _claim_available reads the free slots under the lock ...                  *)
FaultyReadSlots ==
    /\ process.state = "running"
    /\ Unlocked
    /\ pass.stage = "idle"
    /\ Cardinality(Active) <= MaxWorkers
    /\ pass' = [Idle EXCEPT !.stage = "claiming",
                            !.limit = MaxWorkers + 1 - Cardinality(Active),
                            !.reserve = Reserve]
    /\ UNCHANGED <<vars, process, worker, closing, intent, check, cancelling, recovering, question>>
ReadSlots ==
    /\ process.state = "running"
    /\ Unlocked
    /\ pass.stage = "idle"
    /\ Cardinality(Active) < MaxWorkers
    /\ pass' = [Idle EXCEPT !.stage = "claiming",
                            !.limit = MaxWorkers - Cardinality(Active),
                            !.reserve = Reserve]
    /\ UNCHANGED <<vars, process, worker, closing, intent, check, cancelling, recovering, question>>

(* ... claims at most that many nodes in one unit of work ...                *)
ClaimPass ==
    /\ pass.stage = "claiming"
    /\ ClaimReady(pass.limit, pass.reserve)
    /\ pass' = [pass EXCEPT !.stage = "registering",
                            !.claims = {a \in Node \X AttemptNo :
                                          attempt'[a].status = "running" /\ attempt[a].status # "running"}]
    /\ UNCHANGED <<process, worker, closing, intent, check, cancelling, recovering, question>>

(* ... or finds nothing to claim, or fails and is logged.                    *)
EmptyPass ==
    /\ pass.stage = "claiming"
    /\ pass' = Idle
    /\ UNCHANGED <<vars, process, worker, closing, intent, check, cancelling, recovering, question>>

(* Each claim is then registered under the lock and submitted to the pool.   *)
(* A claim of a node that an older thread still holds is given up, and so is *)
(* the first claim that finds the scheduler closed; the rest of that pass is *)
(* left to its leases.                                                       *)
NextPass(claims) == IF claims = {} THEN Idle ELSE [pass EXCEPT !.claims = claims]

Register(n, k) ==
    /\ <<n, k>> \in pass.claims
    /\ Unlocked
    /\ IF process.state # "running"
       THEN GiveUp(n, k) /\ pass' = Idle /\ UNCHANGED worker
       ELSE /\ pass' = NextPass(pass.claims \ {<<n, k>>})
            /\ IF worker[n].stage # "none"
               THEN GiveUp(n, k) /\ UNCHANGED worker
               ELSE /\ worker' = [worker EXCEPT ![n] =
                          [stage |-> "submitted", attempt |-> k, token |-> "clear"]]
                    /\ UNCHANGED vars
    /\ UNCHANGED <<process, closing, intent, check, cancelling, recovering, question>>

(* A heartbeat that cannot renew the lease, or whose adapter cannot renew    *)
(* the leases of its commands, interrupts the thread.                        *)
FaultyHeartbeat(n) ==
    /\ process.state = "running"
    /\ pass.stage = "idle"
    /\ n \in Active
    /\ Renew(n, worker[n].attempt)
    /\ UNCHANGED <<process, pass, worker, closing, intent, check, cancelling, recovering, question>>
Heartbeat(n) ==
    /\ process.state = "running"
    /\ pass.stage = "idle"
    /\ n \in Active
    /\ \/ Renew(n, worker[n].attempt) /\ UNCHANGED worker
       \/ /\ n \in Fragile \/ ~ClaimHeld(n, worker[n].attempt)
          /\ worker' = [worker EXCEPT ![n] = SetToken(n, "interrupted")]
          /\ UNCHANGED vars
    /\ UNCHANGED <<process, pass, closing, intent, check, cancelling, recovering, question>>

-----------------------------------------------------------------------------
(* A thread of the pool: _execute. *)

Start(n) ==
    /\ worker[n].stage = "submitted"
    /\ process.state \in {"running", "closing"}
    /\ SetStage(n, "executing")
    /\ UNCHANGED <<vars, process, pass, closing, intent, check, cancelling, recovering, question>>

(* The adapter creates the child run, or finds the one of an earlier attempt, *)
(* and waits for it in this thread.                                           *)
Spawn(n, c) ==
    /\ worker[n].stage = "executing"
    /\ worker[n].token = "clear"
    /\ n \in BlockingParents
    /\ ParentOf[c] = RunOf[n]
    /\ IF run[c].status = "absent" THEN Create(c) ELSE UNCHANGED vars
    /\ SetStage(n, "child")
    /\ UNCHANGED <<process, pass, closing, intent, check, cancelling, recovering, question>>

(* A child that pauses interrupts its parent, a cancelled one cancels it.     *)
ChildEnds(n, c) ==
    /\ worker[n].stage = "child"
    /\ ParentOf[c] = RunOf[n]
    /\ \/ run[c].status \in {"completed", "failed"} /\ SetStage(n, "executing")
       \/ /\ run[c].status = "paused"
          /\ worker' = [worker EXCEPT ![n] = [SetToken(n, "interrupted") EXCEPT !.stage = "executing"]]
       \/ /\ run[c].status = "cancelled"
          /\ worker' = [worker EXCEPT ![n] = [SetToken(n, "cancelled") EXCEPT !.stage = "executing"]]
    /\ UNCHANGED <<vars, process, pass, closing, intent, check, cancelling, recovering, question>>

(* A parent that is told to stop leaves its wait, and cancels the child if it *)
(* was cancelled itself.                                                      *)
LeaveChild(n, c) ==
    /\ worker[n].stage = "child"
    /\ worker[n].token # "clear"
    /\ ParentOf[c] = RunOf[n]
    /\ IF worker[n].token = "cancelled"
       THEN /\ Unlocked
            /\ cancelling' = cancelling \union {c}
            /\ worker' = [m \in Node |->
                  IF m = n THEN [worker[m] EXCEPT !.stage = "executing"]
                  ELSE IF m \in ActiveIn(c) THEN SetToken(m, "cancelled") ELSE worker[m]]
       ELSE SetStage(n, "executing") /\ UNCHANGED cancelling
    /\ UNCHANGED <<vars, process, pass, closing, intent, check, recovering, question>>

(* The wait has a deadline of its own. *)
WaitTimesOut(n) ==
    /\ worker[n].stage = "child"
    /\ SetStage(n, "executing")
    /\ UNCHANGED <<vars, process, pass, closing, intent, check, cancelling, recovering, question>>

(* The adapter asks the user something, in the domain's tables.  A later      *)
(* attempt finds the question again, or its answer.                           *)
Ask(n) ==
    /\ worker[n].stage = "executing"
    /\ worker[n].token = "clear"
    /\ n \in Asking
    /\ \E kind \in {"approval", "input"} :
          /\ question[RunOf[n]] \in {"none", kind}
          /\ question' = [question EXCEPT ![RunOf[n]] = kind]
          /\ SetStage(n, kind)
    /\ UNCHANGED <<vars, process, pass, closing, intent, check, cancelling, recovering>>

(* The adapter returns a result or raises an error while its token is clear;  *)
(* the outcome is yet to be committed.                                        *)
Returns(n) ==
    /\ worker[n].stage = "executing"
    /\ worker[n].token = "clear"
    /\ SetStage(n, "returned")
    /\ UNCHANGED <<vars, process, pass, closing, intent, check, cancelling, recovering, question>>

CommitOutcome(n) ==
    LET k == worker[n].attempt
    IN  /\ \/ /\ worker[n].stage = "returned"
              /\ Complete(n, k) \/ Defer(n, k) \/ Retry(n, k) \/ Fail(n, k)
           \/ worker[n].stage = "approval" /\ WaitForApproval(n, k)
           \/ worker[n].stage = "input" /\ WaitForInput(n, k)
        /\ SetStage(n, "settled")
        /\ UNCHANGED <<process, pass, closing, intent, check, cancelling, recovering, question>>

(* A claim that is no longer good refuses every outcome and is given up.      *)
LateOutcome(n) ==
    LET k == worker[n].attempt
    IN  /\ worker[n].stage \in {"returned", "approval", "input"}
        /\ ~RequireClaim(n, k)
        /\ GiveUp(n, k)
        /\ SetStage(n, "settled")
        /\ UNCHANGED <<process, pass, closing, intent, check, cancelling, recovering, question>>

(* The adapter stopped for the token, or for a pause of its run.              *)
Stops(n) ==
    /\ worker[n].stage = "executing"
    /\ \/ worker[n].token = "interrupted" \/ run[RunOf[n]].pause
    /\ GiveUp(n, worker[n].attempt)
    /\ SetStage(n, "settled")
    /\ UNCHANGED <<process, pass, closing, intent, check, cancelling, recovering, question>>

(* A cancelled thread leaves its claim to the caller that cancelled the run,  *)
(* cancels the run itself, or raises another error.                           *)
StopsCancelled(n) ==
    /\ worker[n].stage = "executing"
    /\ worker[n].token = "cancelled"
    /\ \/ UNCHANGED vars
       \/ Cancel(RunOf[n])
       \/ Retry(n, worker[n].attempt)
       \/ Fail(n, worker[n].attempt)
    /\ SetStage(n, "settled")
    /\ UNCHANGED <<process, pass, closing, intent, check, cancelling, recovering, question>>

(* _finish_active: the slot is free, and the thread goes on to the intents,   *)
(* of which a run that never asks has none.                                   *)
Finish(n) ==
    /\ worker[n].stage = "settled"
    /\ Unlocked
    /\ worker' = [worker EXCEPT ![n] = NoWorker]
    /\ check' = [check EXCEPT ![<<n, worker[n].attempt>>] = IF AsksSomething(RunOf[n]) THEN "called" ELSE @]
    /\ UNCHANGED <<vars, process, pass, closing, intent, cancelling, recovering, question>>

-----------------------------------------------------------------------------
(* _resume_after_boundary_if_ready, in its three critical sections.           *)

ReadIntent(c) ==
    LET r == RunChecked(c)
    IN  /\ check[c] = "called"
        /\ Unlocked
        /\ check' = [check EXCEPT ![c] = IF r \notin intent THEN "none"
                                         ELSE IF ActiveIn(r) # {} THEN "active" ELSE "inactive"]
        /\ UNCHANGED <<vars, process, pass, worker, closing, intent, cancelling, recovering, question>>

FaultyReadRun(c) ==
    LET r == RunChecked(c)
    IN  /\ check[c] \in {"active", "inactive"}
        /\ IF run[r].status \in RunWaiting \union {"paused"} THEN Resume(r) ELSE UNCHANGED vars
        /\ check' = [check EXCEPT ![c] = "resolved"]
        /\ UNCHANGED <<process, pass, worker, closing, intent, cancelling, recovering, question>>
ReadRun(c) ==
    LET r == RunChecked(c)
    IN  /\ check[c] \in {"active", "inactive"}
        /\ IF run[r].status \in RunWaiting \union {"paused"}
           THEN Resume(r) /\ check' = [check EXCEPT ![c] = "resolved"]
           ELSE /\ UNCHANGED vars
                /\ check' = [check EXCEPT ![c] =
                      IF run[r].status \in RunTerminal \/ check[c] = "inactive"
                      THEN "resolved" ELSE "none"]
        /\ UNCHANGED <<process, pass, worker, closing, intent, cancelling, recovering, question>>

DropIntent(c) ==
    /\ check[c] = "resolved"
    /\ Unlocked
    /\ intent' = intent \ {RunChecked(c)}
    /\ check' = [check EXCEPT ![c] = "none"]
    /\ UNCHANGED <<vars, process, pass, worker, closing, cancelling, recovering, question>>

-----------------------------------------------------------------------------
(* Callers. *)

CreateRun(r) ==
    /\ Up
    /\ r \notin Child
    /\ Create(r)
    /\ UNCHANGED <<process, memory, question>>

(* The user's decision is durable first; then the caller records the intent,  *)
(* or is told that the scheduler is closing.                                  *)
Decide(r) ==
    /\ process.state = "running"
    /\ question[r] \in {"approval", "input"}
    /\ question' = [question EXCEPT ![r] = "decided"]
    /\ check' = [check EXCEPT ![r] = "deciding"]
    /\ UNCHANGED <<vars, process, pass, worker, closing, intent, cancelling, recovering>>

ResumeAfterBoundary(r) ==
    /\ check[r] = "deciding"
    /\ Unlocked
    /\ IF process.state = "running"
       THEN intent' = intent \union {r} /\ check' = [check EXCEPT ![r] = "called"]
       ELSE UNCHANGED intent /\ check' = [check EXCEPT ![r] = "none"]
    /\ UNCHANGED <<vars, process, pass, worker, closing, cancelling, recovering, question>>

UserPauses(r) ==
    /\ Up /\ r \in Controlled
    /\ RequestPause(r)
    /\ UNCHANGED <<process, memory, question>>

UserResumes(r) ==
    /\ Up /\ r \in Controlled
    /\ Resume(r)
    /\ UNCHANGED <<process, memory, question>>

(* cancel: the tokens first, the run in a unit of work of its own.            *)
CancelTokens(r) ==
    /\ Up /\ r \in Controlled
    /\ Unlocked
    /\ Live(r)
    /\ worker' = [n \in Node |-> IF n \in ActiveIn(r) THEN SetToken(n, "cancelled") ELSE worker[n]]
    /\ cancelling' = cancelling \union {r}
    /\ UNCHANGED <<vars, process, pass, closing, intent, check, recovering, question>>

CancelRun(r) ==
    /\ r \in cancelling
    /\ IF Live(r) THEN Cancel(r) ELSE UNCHANGED vars
    /\ cancelling' = cancelling \ {r}
    /\ UNCHANGED <<process, pass, worker, closing, intent, check, recovering, question>>

-----------------------------------------------------------------------------
(* close: refuse new work and, under the lock, pause the run of every active  *)
(* node and interrupt its thread; join the coordinator; let the pool finish   *)
(* without what it has not begun; give up what is left.                       *)

BeginClose ==
    /\ process.state = "running"
    /\ process.life < LifeCap
    /\ process' = [process EXCEPT !.state = "closing"]
    /\ closing' = Active
    /\ UNCHANGED <<vars, pass, worker, intent, check, cancelling, recovering, question>>

PauseActive(n) ==
    /\ n \in closing
    /\ IF Live(RunOf[n]) THEN RequestPause(RunOf[n]) ELSE UNCHANGED vars
    /\ worker' = [worker EXCEPT ![n] = SetToken(n, "interrupted")]
    /\ closing' = closing \ {n}
    /\ UNCHANGED <<process, pass, intent, check, cancelling, recovering, question>>

ShutDown ==
    /\ process.state = "closing"
    /\ Unlocked
    /\ pass.stage = "idle"
    /\ process' = [process EXCEPT !.state = "draining"]
    /\ UNCHANGED <<vars, memory, question>>

Drained ==
    /\ process.state = "draining"
    /\ \A n \in Node : worker[n].stage \in {"none", "submitted"}
    /\ \A a \in Node \X AttemptNo : check[a] = "none"

Forget ==
    /\ pass' = Idle
    /\ worker' = [n \in Node |-> NoWorker]
    /\ closing' = {}
    /\ intent' = {}
    /\ check' = [c \in Checker |-> "none"]
    /\ cancelling' = {}
    /\ recovering' = {}

GiveUpRest(n) ==
    /\ Drained
    /\ worker[n].stage = "submitted"
    /\ GiveUp(n, worker[n].attempt)
    /\ worker' = [worker EXCEPT ![n] = NoWorker]
    /\ UNCHANGED <<process, pass, closing, intent, check, cancelling, recovering, question>>

Stop ==
    /\ Drained
    /\ Active = {}
    /\ process' = [process EXCEPT !.state = "stopped"]
    /\ Forget
    /\ UNCHANGED <<vars, question>>

Crash ==
    /\ Up
    /\ process.life < LifeCap
    /\ process' = [process EXCEPT !.state = "stopped"]
    /\ Forget
    /\ UNCHANGED <<vars, question>>

Restart ==
    /\ process.state = "stopped"
    /\ process.life < LifeCap
    /\ process' = [state |-> "running", life |-> process.life + 1]
    /\ recovering' = Run
    /\ UNCHANGED <<vars, pass, worker, closing, intent, check, cancelling, question>>

FaultyRecover(r) ==
    /\ r \in recovering
    /\ process.state = "running"
    /\ IF run[r].status = "paused" THEN Resume(r) ELSE UNCHANGED vars
    /\ recovering' = recovering \ {r}
    /\ UNCHANGED <<process, pass, worker, closing, intent, check, cancelling, question>>

(* recover_interrupted_work looks at every run once.  It resumes the paused   *)
(* runs that have no open question, and those that wait for an approval which *)
(* has been decided; it does not look for answered requests for input.        *)
Recover(r) ==
    /\ r \in recovering
    /\ process.state = "running"
    /\ IF \/ run[r].status = "paused" /\ question[r] \in {"none", "decided"}
          \/ run[r].status = "waiting_for_approval" /\ question[r] = "decided"
       THEN Resume(r) ELSE UNCHANGED vars
    /\ recovering' = recovering \ {r}
    /\ UNCHANGED <<process, pass, worker, closing, intent, check, cancelling, question>>

(* A lease lives on while its thread gets its heartbeats in time: the         *)
(* coordinator runs, the thread is known to it, and nothing delays it.        *)
Unattended(n, k) ==
    \/ process.state # "running"
    \/ n \in Fragile
    \/ worker[n].attempt # k /\ <<n, k>> \notin pass.claims

TimePasses ==
    /\ \/ \E n \in Node, k \in AttemptNo : Unattended(n, k) /\ LeaseExpires(n, k)
       \/ \E n \in Node : BecomesDue(n)
    /\ UNCHANGED <<process, memory, question>>

ThreadStep(n) ==
    \/ Start(n)
    \/ \E c \in Child : Spawn(n, c) \/ ChildEnds(n, c) \/ LeaveChild(n, c)
    \/ WaitTimesOut(n)
    \/ Ask(n)
    \/ Returns(n)
    \/ CommitOutcome(n)
    \/ LateOutcome(n)
    \/ Stops(n)
    \/ StopsCancelled(n)
    \/ Finish(n)

CheckStep(c) == ReadIntent(c) \/ ReadRun(c) \/ DropIntent(c)

CloseStep ==
    \/ \E n \in Node : PauseActive(n) \/ GiveUpRest(n)
    \/ ShutDown
    \/ Stop

CallerStep(r) ==
    \/ CreateRun(r)
    \/ Decide(r)
    \/ ResumeAfterBoundary(r)
    \/ UserPauses(r)
    \/ UserResumes(r)
    \/ CancelTokens(r)
    \/ CancelRun(r)
    \/ Recover(r)

SchedulerNext ==
    \/ ReadSlots
    \/ ClaimPass
    \/ EmptyPass
    \/ \E n \in Node, k \in AttemptNo : Register(n, k)
    \/ \E n \in Node : Heartbeat(n) \/ ThreadStep(n)
    \/ \E c \in Checker : CheckStep(c)
    \/ \E r \in Run : CallerStep(r)
    \/ BeginClose
    \/ CloseStep
    \/ Crash
    \/ Restart
    \/ TimePasses

SchedulerSpec == SchedulerInit /\ [][SchedulerNext]_schedulerVars

-----------------------------------------------------------------------------
(* Safety *)

(* While a root node that may wait for a child run holds a slot, the nodes    *)
(* of root runs never hold all of them, counting the claims that are still to *)
(* be registered: a child always finds a thread.  The reservation of          *)
(* claim_ready has to hold across passes that read the slots at other times   *)
(* than they fill them.                                                       *)
ChildSlotKept ==
    LET held == (Active \union {a[1] : a \in pass.claims}) \ ChildNodes
    IN  held \intersect BlockingParents # {} => Cardinality(held) < MaxWorkers

(* A run waits although its question has been answered, and neither a caller  *)
(* on its way to resume it, nor an intent with a thread that will check it,   *)
(* nor the recovery of this life is left to do something about it.            *)
Unheard(r) ==
    /\ process.state = "running"
    /\ r \notin recovering
    /\ run[r].status \in RunWaiting
    /\ question[r] = "decided"
    /\ check[r] = "none"
    /\ \/ r \notin intent
       \/ /\ ActiveIn(r) = {}
          /\ \A a \in Node \X AttemptNo :
                RunOf[a[1]] = r => check[a] \notin {"called", "active", "inactive"}

(* "Keeping this short-lived coordinator intent prevents the approved Run     *)
(* from being stranded at that boundary" (scheduler.py:242): an answer is not *)
(* lost in the race with the node that is just going to wait for it, nor in a *)
(* close or a crash.  The exception is an answered request for input when the *)
(* process goes down before it has resumed the run.                           *)
AnswersAreHeard ==
    \A r \in Run : Unheard(r) => run[r].status = "waiting_for_input" /\ process.life > 1

-----------------------------------------------------------------------------
(* Liveness.  The coordinator iterates for as long as the process runs, each  *)
(* iteration sends the heartbeats that are due and then claims, and the       *)
(* threads of child runs come to an end.  The threads of root runs may take   *)
(* any time, and so may users.                                                *)

Lost(n) ==
    /\ worker[n].stage \in {"executing", "child"}
    /\ worker[n].token = "clear"
    /\ ~ClaimHeld(n, worker[n].attempt)

SchedulerFairness ==
    /\ WF_schedulerVars(ReadSlots)
    /\ WF_schedulerVars(ClaimPass \/ EmptyPass)
    /\ SF_schedulerVars(ClaimPass)
    /\ WF_schedulerVars(\E n \in Node, k \in AttemptNo : Register(n, k))
    /\ \A n \in Node : SF_schedulerVars(Lost(n) /\ Heartbeat(n))
    /\ \A n \in ChildNodes : WF_schedulerVars(ThreadStep(n))

FairSchedulerSpec == SchedulerSpec /\ SchedulerFairness

(* A parent waits in its thread for a child that could run right now.         *)
ChildWanted(c) ==
    /\ process.state = "running"
    /\ \E n \in Active : worker[n].stage = "child" /\ RunOf[n] = ParentOf[c]
    /\ \E n \in Candidates(node, run) : RunOf[n] = c

(* A child that a parent waits for gets a thread, however many parents wait   *)
(* and however long they do.                                                  *)
ChildNotStarved == \A c \in Child : ChildWanted(c) ~> ~ChildWanted(c)

(* "a lost lease interrupts local execution" (kernel design, line 53): a      *)
(* thread whose claim is gone is told so or ends.                             *)
LostWorkIsInterrupted ==
    \A n \in Node :
        (process.state = "running" /\ Lost(n)) ~> (process.state # "running" \/ ~Lost(n))

=============================================================================
