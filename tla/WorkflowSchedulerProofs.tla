---------------------- MODULE WorkflowSchedulerProofs ----------------------
(***************************************************************************)
(* Theorems about the scheduler process.  Its threads only ever commit     *)
(* units of work of the kernel, so SchedulerSpec implements Spec and every *)
(* theorem of the kernel holds of it; the slots it hands out keep one for  *)
(* a child run; and no answer of a user is lost between the thread that is *)
(* about to wait for it, the caller that brings it and the recovery after  *)
(* a restart.                                                              *)
(***************************************************************************)
EXTENDS WorkflowScheduler, WorkflowKernelHistoryProofs

(***************************************************************************)
(* The memory of the process, without the tables.  A registered thread     *)
(* carries the number of an attempt, claims are only held between a claim  *)
(* and its registration, and a pass that is about to claim has a slot.     *)
(***************************************************************************)
MemoryOK ==
    /\ process \in [state : {"running", "closing", "draining", "stopped"}, life : 1..LifeCap]
    /\ pass \in [stage : {"idle", "claiming", "registering"}, limit : 0..MaxWorkers,
                 reserve : BOOLEAN, claims : SUBSET (Node \X AttemptNo)]
    /\ worker \in [Node -> [stage : WorkerStage, attempt : 0..AttemptCap,
                            token : {"clear", "interrupted", "cancelled"}]]
    /\ closing \subseteq Node
    /\ intent \subseteq Run
    /\ check \in [Checker -> CheckStage]
    /\ question \in [Run -> {"none", "approval", "input", "decided"}]
    /\ cancelling \subseteq Run
    /\ recovering \subseteq Run

ThreadsNumbered == \A n \in Node : worker[n].stage # "none" => worker[n].attempt \in AttemptNo

PassOrder ==
    /\ pass.claims # {} => pass.stage = "registering"
    /\ pass.stage = "claiming" => pass.limit \in 1..MaxWorkers

MemoryInv == MemoryOK /\ ThreadsNumbered /\ PassOrder

(***************************************************************************)
(* A pass that is about to claim: the slots it read are still free, and it *)
(* knows of every parent that may wait for a child.                        *)
(***************************************************************************)
SlotsRead ==
    pass.stage = "claiming" =>
        /\ Cardinality(Active) + pass.limit <= MaxWorkers
        /\ Active \intersect BlockingParents # {} => pass.reserve

SlotsInv == MemoryInv /\ SlotsRead /\ ChildSlotKept

-----------------------------------------------------------------------------
(***************************************************************************)
(* Answers.  A run poses its question while a thread of it that still      *)
(* holds its claim is going to wait for the answer; it is calm when it     *)
(* neither waits nor poses one.  Once the answer has been decided a calm   *)
(* run stays calm.                                                         *)
(***************************************************************************)
Posing(r) ==
    \E n \in Node : /\ RunOf[n] = r
                    /\ worker[n].stage \in {"approval", "input"}
                    /\ ClaimHeld(n, worker[n].attempt)

CalmRun(r) == run[r].status \notin RunWaiting /\ ~Posing(r)

Looking == {"called", "active", "inactive"}

(* Somebody will still look at r: the caller, on its way, or a checker of the *)
(* intent, or a thread that becomes one when it ends.                         *)
Attended(r) ==
    \/ check[r] = "deciding"
    \/ /\ r \in intent
       /\ \/ \E n \in Node : RunOf[n] = r /\ worker[n].stage # "none"
          \/ \E c \in Checker : RunChecked(c) = r /\ check[c] \in Looking

(* What is only true of a run whose question has been decided. *)
OnceDecided ==
    /\ \A r \in Run : r \in intent \/ check[r] # "none" => question[r] = "decided"
    /\ \A c \in Checker : check[c] \in {"active", "inactive", "resolved"}
                              => question[RunChecked(c)] = "decided"

(* What a checker that read the intent, or has dealt with it, may rely on.    *)
ChecksTrue ==
    \A c \in Checker :
        /\ check[c] = "inactive" => ~Posing(RunChecked(c))
        /\ check[c] = "resolved" => CalmRun(RunChecked(c))

Asked ==
    /\ \A r \in Run : question[r] # "none" => AsksSomething(r)
    /\ \A n \in Node : worker[n].stage \in {"approval", "input"} => n \in Asking
    /\ recovering # {} => process.life > 1

(* The attempts that threads and claims name have been made. *)
AttemptsMade ==
    /\ \A n \in Node : worker[n].stage # "none" => attempt[<<n, worker[n].attempt>>].status # "absent"
    /\ \A n \in Node, k \in AttemptNo : <<n, k>> \in pass.claims => attempt[<<n, k>>].status # "absent"

(* A process that is down has no threads. *)
NoneWhenDown == process.state = "stopped" => \A n \in Node : worker[n].stage = "none"

Heard ==
    \A r \in Run :
        process.state = "running" /\ question[r] = "decided" /\ ~CalmRun(r)
            => \/ run[r].status = "waiting_for_input" /\ process.life > 1
               \/ r \in recovering /\ ~Posing(r)
               \/ Attended(r)

(* Of the tables: only an asking node waits, and it does not outlive its run. *)
AskersHalt(nodes, runs) ==
    \A n \in Node :
        /\ nodes[n].status \in NodeWaiting => n \in Asking
        /\ n \in Asking /\ runs[RunOf[n]].status = "failed" => nodes[n].status # "running"

AnswersInv ==
    /\ MemoryInv
    /\ HistoryInv
    /\ AskersHalt(node, run)
    /\ OnceDecided
    /\ ChecksTrue
    /\ Asked
    /\ AttemptsMade
    /\ NoneWhenDown
    /\ Heard

-----------------------------------------------------------------------------
(* What the threads commit.  A unit of work of the kernel that does not make  *)
(* a run wait, or none; only CommitOutcome makes a run wait.                  *)
Quietly ==
    \/ UNCHANGED vars
    \/ \E limit \in 1..MaxLimit, reserve \in BOOLEAN : ClaimReady(limit, reserve)
    \/ \E n \in Node, k \in AttemptNo :
          \/ Complete(n, k) \/ Retry(n, k) \/ Defer(n, k) \/ Fail(n, k)
          \/ Abandon(n, k) \/ Renew(n, k) \/ LeaseExpires(n, k)
    \/ \E r \in Run : Create(r) \/ RequestPause(r) \/ Resume(r) \/ Cancel(r)
    \/ \E n \in Node : BecomesDue(n)

Waits(n) ==
    /\ \/ worker[n].stage = "approval" /\ WaitForApproval(n, worker[n].attempt)
       \/ worker[n].stage = "input" /\ WaitForInput(n, worker[n].attempt)
    /\ CommitOutcome(n)

LEMMA Runs ==
    /\ \A n \in Node : RunOf[n] \in Run
    /\ \A c \in Checker : RunChecked(c) \in Run
    /\ Child \subseteq Run
    /\ \A r \in Run : r \in Checker /\ RunChecked(r) = r
    /\ \A n \in Node, k \in AttemptNo : <<n, k>> \in Checker /\ RunChecked(<<n, k>>) = RunOf[n]
BY IdentityAssumption, SchedulerAssumption DEF Checker, RunChecked

LEMMA ActiveFinite ==
    ASSUME NEW S \in SUBSET Node
    PROVE  IsFiniteSet(S) /\ Cardinality(S) \in Nat
BY IdentityAssumption, FS_Subset, FS_CardinalityType

LEMMA GiveUpQuietly ==
    ASSUME NEW n \in Node, NEW k \in AttemptNo, GiveUp(n, k)
    PROVE  Quietly
BY DEF GiveUp, Quietly

LEMMA CoordinatorQuietly ==
    ASSUME MemoryInv,
           \/ ReadSlots \/ ClaimPass \/ EmptyPass
           \/ \E n \in Node, k \in AttemptNo : Register(n, k)
           \/ \E n \in Node : Heartbeat(n)
    PROVE  Quietly
<1>1. CASE ReadSlots \/ EmptyPass
  BY <1>1 DEF ReadSlots, EmptyPass, Quietly
<1>2. CASE ClaimPass
  <2>1. pass.limit \in 1..MaxLimit /\ pass.reserve \in BOOLEAN
    BY <1>2, SchedulerAssumption, BudgetAssumption
       DEF ClaimPass, MemoryInv, PassOrder, MemoryOK
  <2> QED BY <1>2, <2>1 DEF ClaimPass, Quietly
<1>3. ASSUME NEW n \in Node, NEW k \in AttemptNo, Register(n, k)
      PROVE  Quietly
  <2>1. GiveUp(n, k) \/ UNCHANGED vars
    BY <1>3 DEF Register
  <2> QED BY <2>1, GiveUpQuietly DEF Quietly
<1>4. ASSUME NEW n \in Node, Heartbeat(n)
      PROVE  Quietly
  <2>1. worker[n].attempt \in AttemptNo
    BY <1>4 DEF Heartbeat, Active, MemoryInv, ThreadsNumbered
  <2>2. Renew(n, worker[n].attempt) \/ UNCHANGED vars
    BY <1>4 DEF Heartbeat
  <2> QED BY <2>1, <2>2 DEF Quietly
<1> QED BY <1>1, <1>2, <1>3, <1>4

LEMMA ThreadQuietly ==
    ASSUME MemoryInv, NEW n \in Node, ThreadStep(n)
    PROVE  Quietly \/ Waits(n)
<1>1. CASE Start(n) \/ WaitTimesOut(n) \/ Ask(n) \/ Returns(n) \/ Finish(n)
  BY <1>1 DEF Start, WaitTimesOut, Ask, Returns, Finish, Quietly
<1>2. ASSUME NEW c \in Child, Spawn(n, c) \/ ChildEnds(n, c) \/ LeaveChild(n, c)
      PROVE  Quietly
  <2>1. Create(c) \/ UNCHANGED vars
    BY <1>2 DEF Spawn, ChildEnds, LeaveChild
  <2> QED BY <2>1, Runs DEF Quietly
<1>3. ASSUME worker[n].stage # "none"
      PROVE  worker[n].attempt \in AttemptNo
  BY <1>3 DEF MemoryInv, ThreadsNumbered
<1>4. CASE CommitOutcome(n)
  <2>1. worker[n].attempt \in AttemptNo
    BY <1>3, <1>4 DEF CommitOutcome
  <2> QED BY <1>4, <2>1 DEF CommitOutcome, Quietly, Waits
<1>5. CASE LateOutcome(n) \/ Stops(n)
  <2>1. worker[n].attempt \in AttemptNo /\ GiveUp(n, worker[n].attempt)
    BY <1>3, <1>5 DEF LateOutcome, Stops
  <2> QED BY <2>1, GiveUpQuietly
<1>6. CASE StopsCancelled(n)
  <2>1. worker[n].attempt \in AttemptNo
    BY <1>3, <1>6 DEF StopsCancelled
  <2> QED BY <1>6, <2>1, Runs DEF StopsCancelled, Quietly
<1> QED BY <1>1, <1>2, <1>4, <1>5, <1>6 DEF ThreadStep

LEMMA OtherQuietly ==
    ASSUME MemoryInv,
           \/ \E c \in Checker : CheckStep(c)
           \/ \E r \in Run : CallerStep(r)
           \/ BeginClose \/ CloseStep \/ Crash \/ Restart \/ TimePasses
           \/ UNCHANGED schedulerVars
    PROVE  Quietly
<1>1. ASSUME NEW c \in Checker, CheckStep(c)
      PROVE  Quietly
  <2>1. Resume(RunChecked(c)) \/ UNCHANGED vars
    BY <1>1 DEF CheckStep, ReadIntent, ReadRun, DropIntent
  <2> QED BY <2>1, Runs DEF Quietly
<1>2. ASSUME NEW r \in Run, CallerStep(r)
      PROVE  Quietly
  <2>1. Create(r) \/ RequestPause(r) \/ Resume(r) \/ Cancel(r) \/ UNCHANGED vars
    BY <1>2 DEF CallerStep, CreateRun, Decide, ResumeAfterBoundary, UserPauses, UserResumes,
                CancelTokens, CancelRun, Recover
  <2> QED BY <2>1 DEF Quietly
<1>3. CASE CloseStep
  <2>1. ASSUME NEW n \in Node, PauseActive(n)
        PROVE  Quietly
    <3>1. RequestPause(RunOf[n]) \/ UNCHANGED vars
      BY <2>1 DEF PauseActive
    <3> QED BY <3>1, Runs DEF Quietly
  <2>2. ASSUME NEW n \in Node, GiveUpRest(n)
        PROVE  Quietly
    <3>1. worker[n].attempt \in AttemptNo /\ GiveUp(n, worker[n].attempt)
      BY <2>2 DEF GiveUpRest, MemoryInv, ThreadsNumbered
    <3> QED BY <3>1, GiveUpQuietly
  <2> QED BY <1>3, <2>1, <2>2 DEF CloseStep, ShutDown, Stop, Quietly
<1>4. CASE BeginClose \/ Crash \/ Restart \/ UNCHANGED schedulerVars
  BY <1>4 DEF BeginClose, Crash, Restart, schedulerVars, Quietly
<1>5. CASE TimePasses
  BY <1>5 DEF TimePasses, Quietly
<1> QED BY <1>1, <1>2, <1>3, <1>4, <1>5

LEMMA KernelPart ==
    ASSUME MemoryInv, [SchedulerNext]_schedulerVars
    PROVE  Quietly \/ \E n \in Node : Waits(n)
BY CoordinatorQuietly, ThreadQuietly, OtherQuietly DEF SchedulerNext

LEMMA KernelStep ==
    ASSUME MemoryInv, [SchedulerNext]_schedulerVars
    PROVE  [Next]_vars
<1>1. CASE Quietly
  BY <1>1 DEF Quietly, Next, Settle
<1>2. ASSUME NEW n \in Node, Waits(n)
      PROVE  [Next]_vars
  <2>1. worker[n].attempt \in AttemptNo
    BY <1>2 DEF Waits, MemoryInv, ThreadsNumbered
  <2> QED BY <1>2, <2>1 DEF Waits, Next, Settle
<1> QED BY <1>1, <1>2, KernelPart

-----------------------------------------------------------------------------
(* Types. *)
LEMMA SetTokenType ==
    ASSUME MemoryInv, NEW n \in Node, NEW reason \in {"interrupted", "cancelled"}
    PROVE  /\ SetToken(n, reason) \in [stage : WorkerStage, attempt : 0..AttemptCap,
                                       token : {"clear", "interrupted", "cancelled"}]
           /\ SetToken(n, reason).stage = worker[n].stage
           /\ SetToken(n, reason).attempt = worker[n].attempt
BY DEF MemoryInv, MemoryOK, SetToken

(* Threads keep their attempts, change their tokens, and end. *)
ThreadsGoOn ==
    /\ worker' \in [Node -> [stage : WorkerStage, attempt : 0..AttemptCap,
                             token : {"clear", "interrupted", "cancelled"}]]
    /\ \A n \in Node :
          \/ worker'[n].stage = "none"
          \/ worker[n].stage # "none" /\ worker'[n].attempt = worker[n].attempt

LEMMA SetStageGoesOn ==
    ASSUME MemoryInv, NEW n \in Node, worker[n].stage # "none",
           NEW stage \in WorkerStage, SetStage(n, stage)
    PROVE  ThreadsGoOn
BY DEF MemoryInv, MemoryOK, SetStage, ThreadsGoOn

LEMMA SameThreadsGoOn ==
    ASSUME MemoryInv, worker' = worker
    PROVE  ThreadsGoOn
BY DEF MemoryInv, MemoryOK, ThreadsGoOn

LEMMA TokensGoOn ==
    ASSUME MemoryInv, NEW S, NEW reason \in {"interrupted", "cancelled"},
           worker' = [n \in Node |-> IF n \in S THEN SetToken(n, reason) ELSE worker[n]]
    PROVE  ThreadsGoOn
<1>1. \A n \in Node : worker[n] \in [stage : WorkerStage, attempt : 0..AttemptCap,
                                    token : {"clear", "interrupted", "cancelled"}]
  BY DEF MemoryInv, MemoryOK
<1>2. \A n \in Node : worker[n].stage = "none" \/ worker[n].stage # "none"
  OBVIOUS
<1> QED BY <1>1, <1>2, SetTokenType DEF ThreadsGoOn

LEMMA EndGoesOn ==
    ASSUME MemoryInv, NEW n \in Node, worker' = [worker EXCEPT ![n] = NoWorker]
    PROVE  ThreadsGoOn
<1>1. NoWorker \in [stage : WorkerStage, attempt : 0..AttemptCap,
                    token : {"clear", "interrupted", "cancelled"}]
  BY BudgetAssumption DEF NoWorker, WorkerStage
<1>2. NoWorker.stage = "none"
  BY DEF NoWorker
<1> HIDE DEF NoWorker
<1> QED BY <1>1, <1>2 DEF MemoryInv, MemoryOK, ThreadsGoOn

(* What a thread does to the memory: its pass and the process are not its    *)
(* business, and the other parts keep their types.                           *)
ThreadEffect ==
    /\ ThreadsGoOn
    /\ UNCHANGED <<process, pass, closing, intent, recovering>>
    /\ check' \in [Checker -> CheckStage]
    /\ question' \in [Run -> {"none", "approval", "input", "decided"}]
    /\ cancelling' \subseteq Run

LEMMA ThreadMemory ==
    ASSUME MemoryInv, NEW n \in Node, ThreadStep(n)
    PROVE  ThreadEffect
<1> USE DEF MemoryInv, MemoryOK, ThreadEffect
<1>1. {"executing", "child", "approval", "input", "returned", "settled"} \subseteq WorkerStage
      /\ "called" \in CheckStage
  BY DEF WorkerStage, CheckStage
<1>2. CASE Start(n)
  BY <1>1, <1>2, SetStageGoesOn DEF Start
<1>3. ASSUME NEW c \in Child, Spawn(n, c)
      PROVE  ThreadEffect
  BY <1>1, <1>3, SetStageGoesOn DEF Spawn
<1>4. ASSUME NEW c \in Child, ChildEnds(n, c)
      PROVE  ThreadEffect
  <2>1. CASE SetStage(n, "executing")
    BY <1>1, <1>4, <2>1, SetStageGoesOn DEF ChildEnds
  <2>2. ASSUME NEW reason \in {"interrupted", "cancelled"},
               worker' = [worker EXCEPT ![n] = [SetToken(n, reason) EXCEPT !.stage = "executing"]]
        PROVE  ThreadsGoOn
    <3> DEFINE w == [SetToken(n, reason) EXCEPT !.stage = "executing"]
    <3>1. /\ w \in [stage : WorkerStage, attempt : 0..AttemptCap,
                    token : {"clear", "interrupted", "cancelled"}]
          /\ w.attempt = worker[n].attempt
      BY <1>1, SetTokenType
    <3>2. worker' = [worker EXCEPT ![n] = w] /\ worker[n].stage # "none"
      BY <1>4, <2>2 DEF ChildEnds
    <3> HIDE DEF w
    <3> QED BY <3>1, <3>2 DEF ThreadsGoOn
  <2> QED BY <1>4, <2>1, <2>2 DEF ChildEnds
<1>5. ASSUME NEW c \in Child, LeaveChild(n, c)
      PROVE  ThreadEffect
  <2>1. CASE worker[n].token # "cancelled"
    BY <1>1, <1>5, <2>1, SetStageGoesOn DEF LeaveChild
  <2>2. CASE worker[n].token = "cancelled"
    <3>1. /\ cancelling' = cancelling \union {c}
          /\ worker' = [m \in Node |->
                IF m = n THEN [worker[m] EXCEPT !.stage = "executing"]
                ELSE IF m \in ActiveIn(c) THEN SetToken(m, "cancelled") ELSE worker[m]]
          /\ worker[n].stage # "none"
      BY <1>5, <2>2 DEF LeaveChild
    <3>2. \A m \in Node : worker'[m] = IF m = n THEN [worker[m] EXCEPT !.stage = "executing"]
                                       ELSE IF m \in ActiveIn(c) THEN SetToken(m, "cancelled")
                                       ELSE worker[m]
      BY <3>1
    <3>3. ASSUME NEW m \in Node
          PROVE  worker'[m] \in [stage : WorkerStage, attempt : 0..AttemptCap,
                                 token : {"clear", "interrupted", "cancelled"}]
      <4>1. worker[m] \in [stage : WorkerStage, attempt : 0..AttemptCap,
                           token : {"clear", "interrupted", "cancelled"}]
        OBVIOUS
      <4>2. [worker[m] EXCEPT !.stage = "executing"] \in
                [stage : WorkerStage, attempt : 0..AttemptCap,
                 token : {"clear", "interrupted", "cancelled"}]
        BY <1>1, <4>1
      <4>3. SetToken(m, "cancelled") \in
                [stage : WorkerStage, attempt : 0..AttemptCap,
                 token : {"clear", "interrupted", "cancelled"}]
        BY SetTokenType
      <4> QED BY <3>2, <4>1, <4>2, <4>3
    <3>4. \A m \in Node : \/ worker'[m].stage = "none"
                          \/ worker[m].stage # "none" /\ worker'[m].attempt = worker[m].attempt
      BY <3>1, <3>2, SetTokenType
    <3>5. ThreadsGoOn
      BY <3>1, <3>3, <3>4 DEF ThreadsGoOn
    <3> QED BY <1>5, <3>1, <3>5, Runs DEF LeaveChild
  <2> QED BY <2>1, <2>2
<1>6. CASE WaitTimesOut(n) \/ Returns(n)
  BY <1>1, <1>6, SetStageGoesOn DEF WaitTimesOut, Returns
<1>7. CASE Ask(n)
  <2>1. PICK kind \in {"approval", "input"} :
           question' = [question EXCEPT ![RunOf[n]] = kind] /\ SetStage(n, kind)
    BY <1>7 DEF Ask
  <2>2. ThreadsGoOn
    BY <1>1, <1>7, <2>1, SetStageGoesOn DEF Ask
  <2> QED BY <1>7, <2>1, <2>2 DEF Ask
<1>8. CASE CommitOutcome(n) \/ LateOutcome(n) \/ Stops(n) \/ StopsCancelled(n)
  <2>1. worker[n].stage # "none" /\ SetStage(n, "settled")
    BY <1>8 DEF CommitOutcome, LateOutcome, Stops, StopsCancelled
  <2>2. ThreadsGoOn
    BY <1>1, <2>1, SetStageGoesOn
  <2> QED BY <1>8, <2>2 DEF CommitOutcome, LateOutcome, Stops, StopsCancelled
<1>9. CASE Finish(n)
  <2>1. ThreadsGoOn
    BY <1>9, EndGoesOn DEF Finish
  <2>2. check' \in [Checker -> CheckStage]
    BY <1>1, <1>9 DEF Finish
  <2> QED BY <1>9, <2>1, <2>2 DEF Finish
<1> QED BY <1>2, <1>3, <1>4, <1>5, <1>6, <1>7, <1>8, <1>9 DEF ThreadStep

LEMMA MemoryKept ==
    ASSUME MemoryInv, ThreadsGoOn,
           process' \in [state : {"running", "closing", "draining", "stopped"}, life : 1..LifeCap],
           pass' \in [stage : {"idle", "claiming", "registering"}, limit : 0..MaxWorkers,
                      reserve : BOOLEAN, claims : SUBSET (Node \X AttemptNo)],
           PassOrder',
           closing' \subseteq Node, intent' \subseteq Run, check' \in [Checker -> CheckStage],
           question' \in [Run -> {"none", "approval", "input", "decided"}],
           cancelling' \subseteq Run, recovering' \subseteq Run
    PROVE  MemoryInv'
BY DEF MemoryInv, MemoryOK, ThreadsGoOn, ThreadsNumbered

LEMMA IdlePass ==
    /\ Idle \in [stage : {"idle", "claiming", "registering"}, limit : 0..MaxWorkers,
                 reserve : BOOLEAN, claims : SUBSET (Node \X AttemptNo)]
    /\ Idle.stage = "idle" /\ Idle.claims = {}
BY SchedulerAssumption DEF Idle

LEMMA CoordinatorMemory ==
    ASSUME MemoryInv,
           \/ ReadSlots \/ ClaimPass \/ EmptyPass
           \/ \E n \in Node, k \in AttemptNo : Register(n, k)
           \/ \E n \in Node : Heartbeat(n)
    PROVE  MemoryInv'
<1> USE DEF MemoryInv, MemoryOK
<1>1. CASE ReadSlots
  <2> DEFINE limit == MaxWorkers - Cardinality(Active)
  <2>1. Active \in SUBSET Node
    BY DEF Active
  <2>2. limit \in 1..MaxWorkers
    BY <1>1, <2>1, ActiveFinite, SchedulerAssumption DEF ReadSlots
  <2> HIDE DEF limit
  <2>3. pass' = [stage |-> "claiming", limit |-> limit, reserve |-> Reserve, claims |-> {}]
    BY <1>1 DEF ReadSlots, Idle, limit
  <2>4. Reserve \in BOOLEAN
    BY DEF Reserve
  <2>5. /\ pass' \in [stage : {"idle", "claiming", "registering"}, limit : 0..MaxWorkers,
                      reserve : BOOLEAN, claims : SUBSET (Node \X AttemptNo)]
        /\ PassOrder'
    BY <2>2, <2>3, <2>4 DEF PassOrder
  <2> QED BY <1>1, <2>5, MemoryKept, SameThreadsGoOn DEF ReadSlots
<1>2. CASE ClaimPass
  <2>1. /\ pass' \in [stage : {"idle", "claiming", "registering"}, limit : 0..MaxWorkers,
                      reserve : BOOLEAN, claims : SUBSET (Node \X AttemptNo)]
        /\ PassOrder'
    BY <1>2 DEF ClaimPass, PassOrder
  <2> QED BY <1>2, <2>1, MemoryKept, SameThreadsGoOn DEF ClaimPass
<1>3. CASE EmptyPass
  <2>1. PassOrder'
    BY <1>3, IdlePass DEF EmptyPass, PassOrder
  <2> QED BY <1>3, <2>1, IdlePass, MemoryKept, SameThreadsGoOn DEF EmptyPass
<1>4. ASSUME NEW n \in Node, NEW k \in AttemptNo, Register(n, k)
      PROVE  MemoryInv'
  <2>1. pass.stage = "registering"
    BY <1>4 DEF Register, PassOrder
  <2>2. pass' = Idle \/ pass' = [pass EXCEPT !.claims = pass.claims \ {<<n, k>>}]
    BY <1>4 DEF Register, NextPass
  <2>3. /\ pass' \in [stage : {"idle", "claiming", "registering"}, limit : 0..MaxWorkers,
                      reserve : BOOLEAN, claims : SUBSET (Node \X AttemptNo)]
        /\ PassOrder'
    BY <2>1, <2>2, IdlePass DEF PassOrder
  <2>4. CASE worker' = worker
    BY <1>4, <2>3, <2>4, MemoryKept, SameThreadsGoOn DEF Register
  <2>5. CASE worker' = [worker EXCEPT ![n] =
                [stage |-> "submitted", attempt |-> k, token |-> "clear"]]
    <3>1. "submitted" \in WorkerStage /\ k \in 0..AttemptCap
      BY BudgetAssumption DEF WorkerStage, AttemptNo
    <3>2. worker' \in [Node -> [stage : WorkerStage, attempt : 0..AttemptCap,
                                token : {"clear", "interrupted", "cancelled"}]]
      BY <2>5, <3>1
    <3>3. ThreadsNumbered'
      BY <2>5 DEF ThreadsNumbered
    <3> QED BY <1>4, <2>3, <3>2, <3>3 DEF Register
  <2> QED BY <1>4, <2>4, <2>5 DEF Register
<1>5. ASSUME NEW n \in Node, Heartbeat(n)
      PROVE  MemoryInv'
  <2>1. CASE worker' = worker
    BY <1>5, <2>1, MemoryKept, SameThreadsGoOn DEF Heartbeat, PassOrder
  <2>2. CASE worker' = [worker EXCEPT ![n] = SetToken(n, "interrupted")]
    <3>1. worker' = [m \in Node |-> IF m \in {n} THEN SetToken(m, "interrupted") ELSE worker[m]]
      BY <2>2
    <3>2. ThreadsGoOn
      BY <3>1, TokensGoOn
    <3> QED BY <1>5, <3>2, MemoryKept DEF Heartbeat, PassOrder
  <2> QED BY <1>5, <2>1, <2>2 DEF Heartbeat
<1> QED BY <1>1, <1>2, <1>3, <1>4, <1>5

LEMMA OtherMemory ==
    ASSUME MemoryInv,
           \/ \E c \in Checker : CheckStep(c)
           \/ \E r \in Run : CallerStep(r)
           \/ BeginClose \/ CloseStep \/ Crash \/ Restart \/ TimePasses
           \/ UNCHANGED schedulerVars
    PROVE  MemoryInv'
<1> USE DEF MemoryInv, MemoryOK
<1>0. pass' = pass => PassOrder'
  BY DEF PassOrder
<1>1. ASSUME NEW c \in Checker, CheckStep(c)
      PROVE  MemoryInv'
  <2>1. check' \in [Checker -> CheckStage] /\ intent' \subseteq Run
    BY <1>1 DEF CheckStep, ReadIntent, ReadRun, DropIntent, CheckStage
  <2>2. UNCHANGED <<process, pass, worker, closing, cancelling, recovering, question>>
    BY <1>1 DEF CheckStep, ReadIntent, ReadRun, DropIntent
  <2> QED BY <1>0, <2>1, <2>2, MemoryKept, SameThreadsGoOn
<1>2. ASSUME NEW r \in Run, CallerStep(r)
      PROVE  MemoryInv'
  <2>1. UNCHANGED <<process, pass, closing>>
    BY <1>2 DEF CallerStep, CreateRun, Decide, ResumeAfterBoundary, UserPauses, UserResumes,
                CancelTokens, CancelRun, Recover, memory
  <2>2. check' \in [Checker -> CheckStage] /\ intent' \subseteq Run
    BY <1>2 DEF CallerStep, CreateRun, Decide, ResumeAfterBoundary, UserPauses, UserResumes,
                CancelTokens, CancelRun, Recover, memory, CheckStage
  <2>3. /\ question' \in [Run -> {"none", "approval", "input", "decided"}]
        /\ cancelling' \subseteq Run /\ recovering' \subseteq Run
    BY <1>2 DEF CallerStep, CreateRun, Decide, ResumeAfterBoundary, UserPauses, UserResumes,
                CancelTokens, CancelRun, Recover, memory
  <2>4. ThreadsGoOn
    <3>1. CASE CancelTokens(r)
      BY <3>1, TokensGoOn DEF CancelTokens
    <3>2. CASE ~CancelTokens(r)
      <4>1. worker' = worker
        BY <1>2, <3>2 DEF CallerStep, CreateRun, Decide, ResumeAfterBoundary, UserPauses,
                          UserResumes, CancelRun, Recover, memory
      <4> QED BY <4>1, SameThreadsGoOn
    <3> QED BY <3>1, <3>2
  <2> QED BY <1>0, <2>1, <2>2, <2>3, <2>4, MemoryKept
<1>3. ASSUME NEW n \in Node, PauseActive(n)
      PROVE  MemoryInv'
  <2>1. worker' = [m \in Node |-> IF m \in {n} THEN SetToken(m, "interrupted") ELSE worker[m]]
    BY <1>3 DEF PauseActive
  <2>2. ThreadsGoOn
    BY <2>1, TokensGoOn
  <2> QED BY <1>0, <1>3, <2>2, MemoryKept DEF PauseActive
<1>4. ASSUME NEW n \in Node, GiveUpRest(n)
      PROVE  MemoryInv'
  BY <1>0, <1>4, MemoryKept, EndGoesOn DEF GiveUpRest
<1>5. CASE ShutDown
  <2>1. process' \in [state : {"running", "closing", "draining", "stopped"}, life : 1..LifeCap]
    BY <1>5 DEF ShutDown
  <2> QED BY <1>0, <1>5, <2>1, MemoryKept, SameThreadsGoOn DEF ShutDown, memory
<1>6. CASE Stop \/ Crash
  <2>1. process' \in [state : {"running", "closing", "draining", "stopped"}, life : 1..LifeCap]
    BY <1>6 DEF Stop, Crash
  <2>2. Forget /\ question' = question
    BY <1>6 DEF Stop, Crash
  <2>3. pass' = Idle /\ PassOrder'
    BY <2>2, IdlePass DEF Forget, PassOrder
  <2>4. ThreadsGoOn
    <3>1. NoWorker \in [stage : WorkerStage, attempt : 0..AttemptCap,
                        token : {"clear", "interrupted", "cancelled"}]
          /\ NoWorker.stage = "none"
      BY BudgetAssumption DEF NoWorker, WorkerStage
    <3> HIDE DEF NoWorker
    <3>2. worker' = [n \in Node |-> NoWorker]
      BY <2>2 DEF Forget
    <3> QED BY <3>1, <3>2 DEF ThreadsGoOn
  <2>5. check' \in [Checker -> CheckStage]
    BY <2>2 DEF Forget, CheckStage
  <2> QED BY <2>1, <2>2, <2>3, <2>4, <2>5, IdlePass, MemoryKept DEF Forget
<1>7. CASE BeginClose
  <2>1. process' \in [state : {"running", "closing", "draining", "stopped"}, life : 1..LifeCap]
    BY <1>7 DEF BeginClose
  <2> QED BY <1>0, <1>7, <2>1, MemoryKept, SameThreadsGoOn DEF BeginClose, Active
<1>8. CASE Restart
  <2>1. process' \in [state : {"running", "closing", "draining", "stopped"}, life : 1..LifeCap]
    BY <1>8, SchedulerAssumption DEF Restart
  <2> QED BY <1>0, <1>8, <2>1, MemoryKept, SameThreadsGoOn DEF Restart
<1>9. CASE TimePasses \/ UNCHANGED schedulerVars
  BY <1>0, <1>9, MemoryKept, SameThreadsGoOn DEF TimePasses, schedulerVars, memory
<1> QED BY <1>1, <1>2, <1>3, <1>4, <1>5, <1>6, <1>7, <1>8, <1>9 DEF CloseStep

LEMMA MemoryStep ==
    ASSUME MemoryInv, [SchedulerNext]_schedulerVars
    PROVE  MemoryInv'
<1>1. ASSUME NEW n \in Node, ThreadStep(n)
      PROVE  MemoryInv'
  <2>1. ThreadEffect
    BY <1>1, ThreadMemory
  <2>2. PassOrder'
    BY <2>1 DEF ThreadEffect, PassOrder, MemoryInv
  <2> QED BY <2>1, <2>2, MemoryKept DEF ThreadEffect, MemoryInv, MemoryOK
<1> QED BY <1>1, CoordinatorMemory, OtherMemory DEF SchedulerNext

LEMMA InitMemory == SchedulerInit => MemoryInv
<1> SUFFICES ASSUME SchedulerInit
             PROVE  MemoryInv
  OBVIOUS
<1>1. NoWorker \in [stage : WorkerStage, attempt : 0..AttemptCap,
                    token : {"clear", "interrupted", "cancelled"}]
      /\ NoWorker.stage = "none"
  BY BudgetAssumption DEF NoWorker, WorkerStage
<1>2. process \in [state : {"running", "closing", "draining", "stopped"}, life : 1..LifeCap]
  BY SchedulerAssumption DEF SchedulerInit
<1>3. check \in [Checker -> CheckStage]
  BY DEF SchedulerInit, CheckStage
<1>4. MemoryOK
  BY <1>1, <1>2, <1>3, IdlePass DEF SchedulerInit, MemoryOK
<1> QED BY <1>1, <1>4, IdlePass DEF SchedulerInit, MemoryInv, ThreadsNumbered, PassOrder

THEOREM SchedulerMemory == SchedulerSpec => []MemoryInv
<1>1. MemoryInv /\ [SchedulerNext]_schedulerVars => MemoryInv'
  BY MemoryStep
<1> QED BY <1>1, InitMemory, PTL DEF SchedulerSpec

(* The threads of a scheduler, its callers and its recoveries only commit the *)
(* kernel's units of work: SchedulerSpec implements Spec, so that whatever    *)
(* the kernel guarantees holds while the scheduler runs, closes and crashes   *)
(* (each of them opens a unit of work and calls one of its operations).       *)
THEOREM SchedulerKeepsKernel == SchedulerSpec => Spec
<1>1. SchedulerInit => Init
  BY DEF SchedulerInit
<1>2. MemoryInv /\ [SchedulerNext]_schedulerVars => [Next]_vars
  BY KernelStep
<1> QED BY <1>1, <1>2, SchedulerMemory, PTL DEF SchedulerSpec, Spec

(* The scheduler's memory and the kernel's tables are well formed.            *)
THEOREM SchedulerTypes == SchedulerSpec => []SchedulerTypeOK
<1>1. TypeOK /\ MemoryInv => SchedulerTypeOK
  BY DEF MemoryInv, MemoryOK, SchedulerTypeOK
<1> QED BY <1>1, SchedulerMemory, SchedulerKeepsKernel, TypeCorrect, PTL

-----------------------------------------------------------------------------
(* Slots.  Between two passes the held nodes only become fewer; a pass claims *)
(* within the slots and the reservation it read.                              *)

Claiming == {a[1] : a \in pass.claims}
HeldRoots == (Active \union Claiming) \ ChildNodes

LEMMA HeldFinite ==
    ASSUME MemoryInv
    PROVE  /\ HeldRoots \in SUBSET Node /\ Active \in SUBSET Node /\ Claiming \in SUBSET Node
           /\ IsFiniteSet(HeldRoots) /\ Cardinality(HeldRoots) \in Nat
           /\ IsFiniteSet(Active) /\ Cardinality(Active) \in Nat
<1>1. HeldRoots \in SUBSET Node /\ Active \in SUBSET Node /\ Claiming \in SUBSET Node
  BY DEF HeldRoots, Active, Claiming, MemoryInv, MemoryOK
<1> QED BY <1>1, ActiveFinite

LEMMA FewerHeld ==
    ASSUME MemoryInv, ChildSlotKept, HeldRoots' \subseteq HeldRoots
    PROVE  ChildSlotKept'
<1>1. HeldRoots' \in SUBSET HeldRoots
  OBVIOUS
<1>2. /\ Cardinality(HeldRoots') \in Nat
      /\ Cardinality(HeldRoots') <= Cardinality(HeldRoots)
  BY <1>1, HeldFinite, FS_Subset, FS_CardinalityType
<1>3. HeldRoots \intersect BlockingParents # {} => Cardinality(HeldRoots) < MaxWorkers
  BY DEF ChildSlotKept, HeldRoots, Claiming
<1>4. HeldRoots' \intersect BlockingParents # {} => Cardinality(HeldRoots') < MaxWorkers
  BY <1>1, <1>2, <1>3, HeldFinite, SchedulerAssumption
<1> QED BY <1>4 DEF ChildSlotKept, HeldRoots, Claiming

(* While nothing is registered the active nodes only become fewer.           *)
LEMMA FewerActive ==
    ASSUME MemoryInv, SlotsRead, Active' \subseteq Active, pass' = pass
    PROVE  SlotsRead'
<1>1. Active' \in SUBSET Active
  OBVIOUS
<1>2. /\ Cardinality(Active') \in Nat
      /\ Cardinality(Active') <= Cardinality(Active)
  BY <1>1, HeldFinite, FS_Subset, FS_CardinalityType
<1>3. pass.stage = "claiming" => pass.limit \in 1..MaxWorkers
  BY DEF MemoryInv, PassOrder
<1> QED BY <1>1, <1>2, <1>3, HeldFinite, SchedulerAssumption DEF SlotsRead

(* A committed claim_ready, as the choice it made and the attempts it began.  *)
LEMMA ClaimReadyChoice ==
    ASSUME NEW limit, NEW reserve, ClaimReady(limit, reserve)
    PROVE  LET swept == LoseAttempts(CancelAttempts(attempt, Overdue), Reclaimable)
           IN  \E o \in LostOutcomes({a[1] : a \in Reclaimable}), S \in SUBSET Node :
                  LET nodes == LoseNodes(ExpireNodes, o)
                      runs == LoseRuns(ExpireRuns, swept, o)
                  IN  /\ Selection(nodes, runs, S, limit, reserve)
                      /\ attempt' = Begun(nodes, swept, runs, S)
<1> DEFINE swept == LoseAttempts(CancelAttempts(attempt, Overdue), Reclaimable)
<1>1. PICK o \in LostOutcomes({a[1] : a \in Reclaimable}), S \in SUBSET Node :
        LET nodes == LoseNodes(ExpireNodes, o)
            runs == LoseRuns(ExpireRuns, swept, o)
        IN  /\ Selection(nodes, runs, S, limit, reserve)
            /\ node' = Claimed(nodes, S)
            /\ attempt' = Begun(nodes, swept, runs, S)
            /\ run' = Resumed(runs, S)
  BY DEF ClaimReady, Claimed, Begun, Resumed
<1> HIDE DEF swept
<1> QED BY <1>1 DEF swept

(* What claim_ready has claimed is within its limit and keeps the slot.       *)
LEMMA ClaimsSelected ==
    ASSUME TypeOK, NEW limit, NEW reserve, ClaimReady(limit, reserve)
    PROVE  \E S \in SUBSET Node :
              /\ Cardinality(S) <= limit
              /\ KeepsChildSlot(S, limit, reserve)
              /\ \A n \in Node, k \in AttemptNo :
                    attempt'[<<n, k>>].status = "running" /\ attempt[<<n, k>>].status # "running"
                        => n \in S
<1> DEFINE cut == CancelAttempts(attempt, Overdue)
           swept == LoseAttempts(cut, Reclaimable)
<1>1. PICK o \in LostOutcomes({a[1] : a \in Reclaimable}), S \in SUBSET Node :
        LET nodes == LoseNodes(ExpireNodes, o)
            runs == LoseRuns(ExpireRuns, swept, o)
        IN  /\ Selection(nodes, runs, S, limit, reserve)
            /\ attempt' = Begun(nodes, swept, runs, S)
  BY ClaimReadyChoice
<1>2. Cardinality(S) <= limit /\ KeepsChildSlot(S, limit, reserve)
  BY <1>1 DEF Selection
<1>3. ASSUME NEW n \in Node, NEW k \in AttemptNo, attempt[<<n, k>>].status # "running"
      PROVE  swept[<<n, k>>].status # "running"
  <2>1. cut[<<n, k>>].status # "running" /\ cut \in AttemptTable
    <3>1. attempt \in AttemptTable
      BY DEF TypeOK
    <3>2. CancelAttempts(attempt, Overdue) \in AttemptTable
      BY <3>1, CancelAttemptsType
    <3>3. CancelAttempts(attempt, Overdue)[<<n, k>>].status = "running"
              <=> attempt[<<n, k>>].status = "running" /\ RunOf[n] \notin Overdue
      BY <3>1, CancelAttemptsEffect
    <3> QED BY <1>3, <3>2, <3>3
  <2> HIDE DEF cut
  <2>2. swept[<<n, k>>].status \in {cut[<<n, k>>].status, "abandoned"}
    BY <2>1 DEF LoseAttempts, AttemptTable
  <2> QED BY <2>1, <2>2
<1> HIDE DEF swept
<1>4. ASSUME NEW n \in Node, NEW k \in AttemptNo, n \notin S
      PROVE  attempt'[<<n, k>>] = swept[<<n, k>>]
  BY <1>1, <1>4 DEF Begun
<1>5. ASSUME NEW n \in Node, NEW k \in AttemptNo,
             attempt'[<<n, k>>].status = "running", attempt[<<n, k>>].status # "running"
      PROVE  n \in S
  BY <1>3, <1>4, <1>5
<1> QED BY <1>2, <1>5

LEMMA ClaimPassSlots ==
    ASSUME TypeOK, SlotsInv, ClaimPass
    PROVE  ChildSlotKept'
<1> USE DEF SlotsInv
<1>1. PICK S \in SUBSET Node :
        /\ Cardinality(S) <= pass.limit
        /\ KeepsChildSlot(S, pass.limit, pass.reserve)
        /\ \A n \in Node, k \in AttemptNo :
              attempt'[<<n, k>>].status = "running" /\ attempt[<<n, k>>].status # "running"
                  => n \in S
  BY ClaimsSelected DEF ClaimPass
<1>2. /\ Cardinality(Active) + pass.limit <= MaxWorkers
      /\ Active \intersect BlockingParents # {} => pass.reserve
      /\ pass.limit \in Nat /\ MaxWorkers \in Nat
  BY SchedulerAssumption DEF ClaimPass, SlotsRead, MemoryInv, PassOrder
<1>3. Active' = Active
  BY DEF ClaimPass, Active
<1>4. Claiming' \subseteq S
  <2>1. pass'.claims = {a \in Node \X AttemptNo :
                           attempt'[a].status = "running" /\ attempt[a].status # "running"}
    BY DEF ClaimPass, MemoryInv, MemoryOK
  <2> QED BY <1>1, <2>1 DEF Claiming
<1> DEFINE R == S \ ChildNodes
           H == Active \union R
<1>5. HeldRoots' \in SUBSET H
  BY <1>3, <1>4 DEF HeldRoots
<1>6. /\ IsFiniteSet(S) /\ Cardinality(S) \in Nat
      /\ R \in SUBSET S /\ IsFiniteSet(R) /\ Cardinality(R) \in Nat
      /\ IsFiniteSet(Active) /\ Cardinality(Active) \in Nat
  BY ActiveFinite, HeldFinite
<1>7. /\ IsFiniteSet(H) /\ Cardinality(H) \in Nat
      /\ Cardinality(H) <= Cardinality(Active) + Cardinality(R)
  <2>1. /\ IsFiniteSet(Active \union R)
        /\ Cardinality(Active \union R)
              = Cardinality(Active) + Cardinality(R) - Cardinality(Active \intersect R)
    BY <1>6, FS_Union
  <2>2. Active \intersect R \in SUBSET R
    OBVIOUS
  <2>3. Cardinality(Active \intersect R) \in Nat
    BY <1>6, <2>2, FS_Subset, FS_CardinalityType
  <2>4. Cardinality(Active \union R) \in Nat
    BY <2>1, FS_CardinalityType
  <2> QED BY <1>6, <2>1, <2>3, <2>4
<1>8. /\ Cardinality(HeldRoots') \in Nat
      /\ Cardinality(HeldRoots') <= Cardinality(H)
  BY <1>5, <1>7, FS_Subset, FS_CardinalityType
<1>9. ASSUME HeldRoots' \intersect BlockingParents # {}
      PROVE  Cardinality(R) < pass.limit
  <2>1. CASE S \intersect ChildNodes # {}
    <3>1. R # S
      BY <2>1
    <3>2. Cardinality(R) < Cardinality(S)
      BY <1>6, <3>1, FS_Subset
    <3> QED BY <1>1, <1>2, <1>6, <3>2
  <2>2. CASE S \intersect ChildNodes = {}
    <3>1. pass.reserve \/ S \intersect BlockingParents # {}
      BY <1>2, <1>5, <1>9
    <3>2. Cardinality(S) < pass.limit
      BY <1>1, <2>2, <3>1 DEF KeepsChildSlot
    <3>3. R = S
      BY <2>2
    <3> QED BY <3>2, <3>3
  <2> QED BY <2>1, <2>2
<1> HIDE DEF H, R
<1>10. HeldRoots' \intersect BlockingParents # {} => Cardinality(HeldRoots') < MaxWorkers
  BY <1>2, <1>6, <1>7, <1>8, <1>9
<1> QED BY <1>10 DEF ChildSlotKept, HeldRoots, Claiming

(* A thread, a caller, a checker, a heartbeat or a close never takes a slot.  *)
LEMMA NoSlotTaken ==
    ASSUME MemoryInv, ThreadsGoOn
    PROVE  Active' \subseteq Active
BY DEF ThreadsGoOn, Active

LEMMA OthersTakeNoSlot ==
    ASSUME MemoryInv,
           \/ \E c \in Checker : CheckStep(c)
           \/ \E r \in Run : CallerStep(r)
           \/ BeginClose \/ CloseStep \/ Crash \/ Restart \/ TimePasses
           \/ UNCHANGED schedulerVars
           \/ \E n \in Node : Heartbeat(n)
    PROVE  Active' \subseteq Active /\ (pass' = pass \/ pass' = Idle)
<1>1. ASSUME NEW n \in Node, NEW reason \in {"interrupted", "cancelled"}
      PROVE  SetToken(n, reason).stage = worker[n].stage
  BY SetTokenType
<1>2. NoWorker.stage = "none"
  BY DEF NoWorker
<1>3. CASE /\ \/ \E c \in Checker : CheckStep(c)
              \/ \E r \in Run : CallerStep(r) /\ ~CancelTokens(r)
              \/ BeginClose \/ ShutDown \/ Restart \/ TimePasses \/ UNCHANGED schedulerVars
  <2>1. worker' = worker /\ pass' = pass
    BY <1>3 DEF CheckStep, ReadIntent, ReadRun, DropIntent, CallerStep, CreateRun, Decide,
                ResumeAfterBoundary, UserPauses, UserResumes, CancelRun, Recover, BeginClose,
                ShutDown, Restart, TimePasses, schedulerVars, memory
  <2> QED BY <2>1 DEF Active
<1>4. ASSUME NEW r \in Run, CancelTokens(r)
      PROVE  Active' \subseteq Active /\ pass' = pass
  BY <1>1, <1>4 DEF CancelTokens, Active
<1>5. ASSUME NEW n \in Node, PauseActive(n) \/ Heartbeat(n)
      PROVE  Active' \subseteq Active /\ pass' = pass
  <2>1. /\ worker' = worker \/ worker' = [worker EXCEPT ![n] = SetToken(n, "interrupted")]
        /\ pass' = pass
    BY <1>5 DEF PauseActive, Heartbeat
  <2> QED BY <1>1, <2>1 DEF Active, MemoryInv, MemoryOK
<1>6. ASSUME NEW n \in Node, GiveUpRest(n)
      PROVE  Active' \subseteq Active /\ pass' = pass
  BY <1>2, <1>6 DEF GiveUpRest, Active, MemoryInv, MemoryOK
<1>7. CASE Stop \/ Crash
  BY <1>2, <1>7 DEF Stop, Crash, Forget, Active
<1> QED BY <1>3, <1>4, <1>5, <1>6, <1>7 DEF CloseStep

LEMMA SlotsStep ==
    ASSUME TypeOK, SlotsInv, [SchedulerNext]_schedulerVars
    PROVE  SlotsInv'
<1> USE DEF SlotsInv
<1> SUFFICES SlotsRead' /\ ChildSlotKept'
  BY MemoryStep
<1>1. ASSUME Active' \subseteq Active, pass' = pass \/ pass' = Idle
      PROVE  SlotsRead' /\ ChildSlotKept'
  <2>1. HeldRoots' \subseteq HeldRoots
    BY <1>1, IdlePass DEF HeldRoots, Claiming
  <2>2. CASE pass' = pass
    BY <1>1, <2>1, <2>2, FewerHeld, FewerActive
  <2>3. CASE pass' = Idle
    BY <2>1, <2>3, FewerHeld, IdlePass DEF SlotsRead
  <2> QED BY <1>1, <2>2, <2>3
<1>2. CASE ReadSlots
  <2>1. /\ pass'.stage = "claiming" /\ pass'.claims = {}
        /\ pass'.limit = MaxWorkers - Cardinality(Active)
        /\ pass'.reserve = (Active \intersect BlockingParents # {})
        /\ Active' = Active
    BY <1>2 DEF ReadSlots, Idle, Reserve, Active
  <2>2. HeldRoots' \subseteq HeldRoots
    BY <2>1 DEF HeldRoots, Claiming
  <2>3. SlotsRead'
    <3>1. Cardinality(Active') + pass'.limit <= MaxWorkers
      BY <2>1, HeldFinite, SchedulerAssumption
    <3>2. Active' \intersect BlockingParents # {} => pass'.reserve
      BY <2>1
    <3> QED BY <3>1, <3>2 DEF SlotsRead
  <2> QED BY <2>2, <2>3, FewerHeld
<1>3. CASE ClaimPass
  <2>1. pass'.stage = "registering"
    BY <1>3 DEF ClaimPass, MemoryInv, MemoryOK
  <2> QED BY <1>3, <2>1, ClaimPassSlots DEF SlotsRead
<1>4. ASSUME NEW n \in Node, NEW k \in AttemptNo, Register(n, k)
      PROVE  SlotsRead' /\ ChildSlotKept'
  <2>1. <<n, k>> \in pass.claims /\ pass.stage = "registering"
    BY <1>4 DEF Register, MemoryInv, PassOrder
  <2>2. pass' = Idle \/ pass' = [pass EXCEPT !.claims = pass.claims \ {<<n, k>>}]
    BY <1>4 DEF Register, NextPass
  <2>3. pass'.stage # "claiming" /\ Claiming' \subseteq Claiming
    BY <2>1, <2>2, IdlePass DEF Claiming, MemoryInv, MemoryOK
  <2>4. Active' \subseteq Active \union {n}
    <3>1. \A m \in Node : m # n => worker'[m] = worker[m]
      BY <1>4 DEF Register, MemoryInv, MemoryOK
    <3> QED BY <3>1 DEF Active
  <2>5. n \in Claiming
    BY <2>1 DEF Claiming
  <2>6. HeldRoots' \subseteq HeldRoots
    BY <2>3, <2>4, <2>5 DEF HeldRoots
  <2> QED BY <2>3, <2>6, FewerHeld DEF SlotsRead
<1>5. CASE EmptyPass
  <2>1. Active' \subseteq Active /\ pass' = Idle
    BY <1>5 DEF EmptyPass, Active
  <2> QED BY <1>1, <2>1
<1>6. ASSUME NEW n \in Node, ThreadStep(n)
      PROVE  SlotsRead' /\ ChildSlotKept'
  BY <1>1, <1>6, ThreadMemory, NoSlotTaken DEF ThreadEffect
<1>7. CASE \/ \E c \in Checker : CheckStep(c)
           \/ \E r \in Run : CallerStep(r)
           \/ BeginClose \/ CloseStep \/ Crash \/ Restart \/ TimePasses
           \/ UNCHANGED schedulerVars
           \/ \E n \in Node : Heartbeat(n)
  BY <1>1, <1>7, OthersTakeNoSlot
<1> QED BY <1>2, <1>3, <1>4, <1>5, <1>6, <1>7 DEF SchedulerNext

LEMMA InitSlots == SchedulerInit => SlotsInv
<1> SUFFICES ASSUME SchedulerInit
             PROVE  SlotsRead /\ ChildSlotKept
  BY InitMemory DEF SlotsInv
<1>1. Active = {}
  BY DEF SchedulerInit, Active, NoWorker
<1>2. pass = Idle
  BY DEF SchedulerInit
<1> QED BY <1>1, <1>2, IdlePass DEF SlotsRead, ChildSlotKept

(* A child run always finds a thread: the nodes of root runs never fill the   *)
(* pool while one of them may wait for a child, although the slots and the    *)
(* reservation are read at another time than they are filled                  *)
(* (_claim_available, claim_ready's reserve_child_slot).                      *)
THEOREM ChildSlotIsKept == SchedulerSpec => []ChildSlotKept
<1>1. TypeOK /\ SlotsInv /\ [SchedulerNext]_schedulerVars => SlotsInv'
  BY SlotsStep
<1>2. SchedulerSpec => []TypeOK
  BY SchedulerKeepsKernel, TypeCorrect, PTL
<1>3. SlotsInv => ChildSlotKept
  BY DEF SlotsInv
<1> QED BY <1>1, <1>2, <1>3, InitSlots, PTL DEF SchedulerSpec

-----------------------------------------------------------------------------
(* Runs that ask.  Their plans are chains, so that an asking node that runs   *)
(* or waits is the only one of its run that does.                             *)
LEMMA Alone ==
    ASSUME HistoryInv, NEW n \in Node, NEW m \in Node, n \in Asking, n # m, RunOf[n] = RunOf[m],
           node[n].status \in {"running"} \union NodeWaiting,
           node[m].status \in {"running"} \union NodeWaiting
    PROVE  FALSE
<1>1. Planned(node, run) /\ Ordered(node)
  BY DEF HistoryInv, KernelInv, History
<1>2. RevisionOf[n] = RevisionOf[m]
  BY <1>1 DEF Planned, NodeOpen
<1>3. ASSUME NEW a \in Node, NEW b \in Node, a # b, Before(a, b),
             node[a].status \in {"running"} \union NodeWaiting,
             node[b].status \in {"running"} \union NodeWaiting
      PROVE  FALSE
  <2> DEFINE steps == {b} \union {s \in Node : node[s].status = "succeeded"}
  <2>1. \A s \in steps : s \in Node /\ node[s].status \in Started
    BY <1>3 DEF Started
  <2>2. \A s \in steps : Sources(s) \subseteq steps
    BY <1>1, <2>1 DEF Ordered, Sources
  <2>3. b \in steps /\ steps \in SUBSET Node
    OBVIOUS
  <2>4. a \in steps
    <3> HIDE DEF steps
    <3> QED BY <1>3, <2>2, <2>3 DEF Before
  <2>5. node[a].status = "succeeded"
    BY <1>3, <2>4
  <2> QED BY <1>3, <2>5 DEF NodeWaiting
<1>4. Before(n, m) \/ Before(m, n)
  BY <1>2, AskingAssumption
<1> QED BY <1>3, <1>4

(* A step after which nothing waits that did not wait before. *)
NothingNewWaits ==
    /\ \A n \in Node : node'[n].status \in NodeWaiting => node'[n].status = node[n].status
    /\ \A r \in Run : run'[r].status \in RunWaiting => run'[r].status = run[r].status

LEMMA KeepsHalted ==
    ASSUME HistoryInv, AskersHalt(node, run), NothingNewWaits,
           \A n \in Node : n \in Asking /\ node'[n].status = "running"
                                        /\ run'[RunOf[n]].status = "failed"
               => node[n].status = "running" /\ run[RunOf[n]].status = "failed"
    PROVE  AskersHalt(node', run')
BY DEF AskersHalt, NothingNewWaits

LEMMA FailRunWaits ==
    ASSUME HistoryInv, AskersHalt(node, run), NEW n \in Node, NEW k \in AttemptNo, FailRun(n, k)
    PROVE  NothingNewWaits /\ AskersHalt(node', run')
<1> DEFINE r == RunOf[n]
<1>1. r \in Run /\ TypeOK /\ \A m \in Node : RunOf[m] \in Run
  BY IdentityAssumption DEF HistoryInv, KernelInv
<1>2. \A q \in Run : /\ q # r => run'[q] = run[q]
                     /\ q = r => run'[q].status = "failed"
  BY <1>1 DEF FailRun, TypeOK, RunTable
<1>3. \A m \in Node : /\ RunOf[m] = r => node'[m].status \notin NodeOpen
                      /\ RunOf[m] # r => node'[m] = node[m]
  BY <1>1, NodeSets DEF FailRun, TypeOK, NodeTable
<1> HIDE DEF r
<1>4. NothingNewWaits
  BY <1>2, <1>3, NodeSets DEF NothingNewWaits
<1>5. \A m \in Node : node'[m].status = "running" => RunOf[m] # r
  BY <1>3, NodeSets
<1> QED BY <1>1, <1>2, <1>3, <1>4, <1>5, KeepsHalted

LEMMA PostponeWaits ==
    ASSUME HistoryInv, AskersHalt(node, run), NEW n \in Node, NEW k, NEW status,
           Postpone(n, k, status)
    PROVE  NothingNewWaits /\ AskersHalt(node', run')
<1>1. TypeOK /\ \A m \in Node : RunOf[m] \in Run
  BY IdentityAssumption DEF HistoryInv, KernelInv
<1>2. \A q \in Run : run'[q].status \in {run[q].status, "queued"}
  BY <1>1 DEF Postpone, TypeOK, RunTable
<1>3. \A m \in Node : node'[m].status \in {node[m].status, "ready"}
  BY <1>1 DEF Postpone, TypeOK, NodeTable
<1>4. NothingNewWaits
  BY <1>2, <1>3, NodeSets DEF NothingNewWaits, RunWaiting, NodeWaiting
<1>5. \A m \in Node : /\ node'[m].status = "running" => node[m].status = "running"
                      /\ run'[RunOf[m]].status = "failed" => run[RunOf[m]].status = "failed"
  BY <1>1, <1>2, <1>3
<1> QED BY <1>4, <1>5, KeepsHalted

LEMMA SettledStatusFails ==
    ASSUME NEW nodes, NEW attempts, NEW r, SettledStatus(nodes, attempts, r) = "failed"
    PROVE  \A m \in ActivePlan(r) : nodes[m].status \in NodeTerminal
BY DEF SettledStatus

LEMMA CompleteWaits ==
    ASSUME HistoryInv, AskersHalt(node, run), NEW n \in Node, NEW k \in AttemptNo, Complete(n, k)
    PROVE  NothingNewWaits /\ AskersHalt(node', run')
<1> DEFINE r == RunOf[n]
           settled == SettleAttempt(n, k, "succeeded")
           done == SetNodes({n}, "succeeded")
           promoted == PromoteDependents(done, r, RevisionOf[n])
           status == SettledStatus(promoted, settled, r)
<1>1. TypeOK /\ KernelInv /\ Planned(node, run) /\ r \in Run /\ \A m \in Node : RunOf[m] \in Run
  BY IdentityAssumption DEF HistoryInv, KernelInv
<1>2. node[n].status = "running" /\ RevisionOf[n] = run[r].revision
  BY <1>1, Held DEF Complete, RequireClaim
<1>3. node' = promoted /\ run' = [run EXCEPT ![r].status = status]
  BY DEF Complete
<1>4. \A q \in Run : /\ q # r => run'[q] = run[q]
                     /\ q = r => run'[q].status = status
  <2> HIDE DEF status
  <2> QED BY <1>1, <1>3 DEF TypeOK, RunTable
<1>5. done \in NodeTable
  BY <1>1, SetNodesType DEF TypeOK, NodeStatus, NodeTerminal
<1>6. \A m \in Node : /\ m # n => done[m] = node[m]
                      /\ m = n => done[m].status = "succeeded"
  BY <1>1 DEF SetNodes, TypeOK, NodeTable
<1> HIDE DEF done
<1>7. \A m \in Node : promoted[m].status = done[m].status \/ promoted[m].status = "ready"
  BY <1>5 DEF PromoteDependents, NodeTable
<1> HIDE DEF promoted
<1>8. \A m \in Node : promoted[m].status \in {"running"} \union NodeWaiting
                          => m # n /\ promoted[m].status = node[m].status
  BY <1>6, <1>7, NodeSets DEF NodeWaiting
<1>9. status \notin RunWaiting
  <2> SUFFICES ASSUME status \in RunWaiting
               PROVE  FALSE
    OBVIOUS
  <2>1. PICK m \in ActivePlan(r) : promoted[m].status = status
    BY SettledStatusReason
  <2>2. m \in Node /\ RunOf[m] = r /\ m # n /\ node[m].status \in NodeWaiting
    BY <1>8, <2>1 DEF ActivePlan, Plan, RunWaiting, NodeWaiting
  <2>3. m \in Asking
    BY <2>2 DEF AskersHalt
  <2> QED BY <1>2, <2>2, <2>3, Alone
<1>10. NothingNewWaits
  <2> HIDE DEF status
  <2> QED BY <1>3, <1>4, <1>8, <1>9 DEF NothingNewWaits
<1>11. ASSUME NEW m \in Node, node'[m].status = "running", run'[RunOf[m]].status = "failed"
       PROVE  node[m].status = "running" /\ run[RunOf[m]].status = "failed"
  <2>1. node[m].status = "running"
    BY <1>3, <1>8, <1>11
  <2>2. RunOf[m] # r
    <3> SUFFICES ASSUME RunOf[m] = r
                 PROVE  FALSE
      OBVIOUS
    <3>1. status = "failed"
      BY <1>1, <1>4, <1>11
    <3>2. m \in ActivePlan(r)
      BY <1>1, <2>1 DEF Planned, NodeOpen, ActivePlan, Plan
    <3>3. promoted[m].status \in NodeTerminal
      BY <3>1, <3>2, SettledStatusFails
    <3> QED BY <1>3, <1>11, <3>3 DEF NodeTerminal
  <2> QED BY <1>1, <1>4, <1>11, <2>1, <2>2
<1> QED BY <1>10, <1>11, KeepsHalted

(* Losing attempts, by abandon or by claim_ready: what the tables may be      *)
(* before it, and what they are afterwards.                                   *)
MayLose(nodes, runs, o) ==
    /\ nodes \in NodeTable
    /\ runs \in RunTable
    /\ \E N \in SUBSET Node : /\ o \in [N -> {"ready", "failed", "cancelled"}]
                              /\ \A n \in N : node[n].status = "running"
    /\ \A n \in Node : nodes[n].status \in {"running"} \union NodeWaiting
                           => nodes[n].status = node[n].status
    /\ \A n \in Node : nodes[n].status = "running" /\ runs[RunOf[n]].status = "failed"
                           => run[RunOf[n]].status = "failed"

HasLost(after, settled, runs) ==
    /\ \A n \in Node : after[n].status \in {"running"} \union NodeWaiting
                           => after[n].status = node[n].status
    /\ \A r \in Run : settled[r].status \in RunWaiting => settled[r].status = runs[r].status
    /\ \A n \in Node : ~(/\ n \in Asking
                         /\ after[n].status = "running"
                         /\ settled[RunOf[n]].status = "failed")

LEMMA LoseWaits ==
    ASSUME HistoryInv, AskersHalt(node, run),
           NEW nodes, NEW runs, NEW attempts, NEW o, MayLose(nodes, runs, o)
    PROVE  HasLost(LoseNodes(nodes, o), LoseRuns(runs, attempts, o), runs)
<1> DEFINE after == LoseNodes(nodes, o)
           settled == LoseRuns(runs, attempts, o)
<1> PICK N \in SUBSET Node : /\ o \in [N -> {"ready", "failed", "cancelled"}]
                             /\ \A n \in N : node[n].status = "running"
  BY DEF MayLose
<1>0. /\ nodes \in NodeTable
      /\ runs \in RunTable
      /\ \A n \in Node : nodes[n].status \in {"running"} \union NodeWaiting
                             => nodes[n].status = node[n].status
      /\ \A n \in Node : nodes[n].status = "running" /\ runs[RunOf[n]].status = "failed"
                             => run[RunOf[n]].status = "failed"
  BY DEF MayLose
<1>1. \A n \in Node : \/ after[n] = nodes[n] /\ (n \in N => nodes[n].status # "running")
                      \/ n \in N /\ after[n].status = o[n]
  BY <1>0 DEF LoseNodes, NodeTable
<1>2. \A n \in N : o[n] \in {"ready", "failed", "cancelled"}
  OBVIOUS
<1>3. \A r \in Run : \/ settled[r].status = runs[r].status
                     \/ settled[r].status \in {"paused", "queued"}
                     \/ /\ settled[r].status = "failed"
                        /\ \E n \in N : RunOf[n] = r /\ o[n] = "failed"
  BY <1>0 DEF LoseRuns, RunTable
<1> HIDE DEF after, settled
<1>4. \A n \in Node : after[n].status \in {"running"} \union NodeWaiting
                          => after[n].status = node[n].status /\ after[n] = nodes[n]
  BY <1>0, <1>1, <1>2 DEF NodeWaiting
<1>5. \A r \in Run : settled[r].status \in RunWaiting => settled[r].status = runs[r].status
  BY <1>3 DEF RunWaiting
<1>6. ASSUME NEW n \in Node, n \in Asking, after[n].status = "running",
             settled[RunOf[n]].status = "failed"
      PROVE  FALSE
  <2>1. node[n].status = "running" /\ nodes[n].status = "running" /\ RunOf[n] \in Run
    BY <1>0, <1>4, <1>6, IdentityAssumption
  <2>2. CASE settled[RunOf[n]].status = runs[RunOf[n]].status
    BY <1>0, <1>6, <2>1, <2>2 DEF AskersHalt
  <2>3. ASSUME NEW m \in N, RunOf[m] = RunOf[n], o[m] = "failed"
        PROVE  FALSE
    <3>1. m # n
      BY <1>1, <1>2, <1>6, <2>1
    <3> QED BY <1>6, <2>1, <2>3, <3>1, Alone
  <2> QED BY <1>3, <1>6, <2>1, <2>2, <2>3
<1> QED BY <1>4, <1>5, <1>6 DEF after, settled, HasLost

LEMMA AbandonWaits ==
    ASSUME HistoryInv, AskersHalt(node, run), NEW n \in Node, NEW k \in AttemptNo, Abandon(n, k)
    PROVE  NothingNewWaits /\ AskersHalt(node', run')
<1> DEFINE swept == LoseAttempts(attempt, {<<n, k>>})
<1>1. TypeOK /\ KernelInv
  BY DEF HistoryInv, KernelInv
<1>2. PICK o \in LostOutcomes({n}) : node' = LoseNodes(node, o) /\ run' = LoseRuns(run, swept, o)
  BY DEF Abandon
<1>3. o \in [{n} -> {"ready", "failed", "cancelled"}]
  BY DEF LostOutcomes
<1>4. \A m \in {n} : node[m].status = "running"
  BY <1>1, Held DEF Abandon
<1> HIDE DEF swept
<1>5. MayLose(node, run, o)
  <2>1. {n} \in SUBSET Node
    OBVIOUS
  <2> QED BY <1>1, <1>3, <1>4, <2>1 DEF MayLose, TypeOK
<1>6. HasLost(node', run', run)
  BY <1>2, <1>5, LoseWaits
<1>7. NothingNewWaits
  BY <1>6 DEF HasLost, NothingNewWaits
<1> QED BY <1>6, <1>7, KeepsHalted DEF HasLost

LEMMA ExpireWaits ==
    ASSUME TypeOK
    PROVE  /\ \A n \in Node : ExpireNodes[n].status \in {"running"} \union NodeWaiting
                  => /\ ExpireNodes[n].status = node[n].status
                     /\ RunOf[n] \notin Overdue
           /\ \A r \in Run : \/ ExpireRuns[r] = run[r]
                             \/ r \in Overdue /\ ExpireRuns[r].status = "failed"
<1>1. ASSUME NEW n \in Node
      PROVE  \/ ExpireNodes[n].status = "cancelled"
             \/ ExpireNodes[n] = node[n] /\ (RunOf[n] \in Overdue => node[n].status \notin NodeOpen)
  BY DEF ExpireNodes, TypeOK, NodeTable
<1>2. \A n \in Node : ExpireNodes[n].status \in {"running"} \union NodeWaiting
          => ExpireNodes[n].status = node[n].status /\ RunOf[n] \notin Overdue
  BY <1>1 DEF NodeOpen, NodeWaiting
<1>3. \A r \in Run : \/ ExpireRuns[r] = run[r]
                     \/ r \in Overdue /\ ExpireRuns[r].status = "failed"
  BY DEF ExpireRuns, TypeOK, RunTable
<1> QED BY <1>2, <1>3

LEMMA RenewWaits ==
    ASSUME HistoryInv, AskersHalt(node, run), NEW n, NEW k, Renew(n, k)
    PROVE  NothingNewWaits /\ AskersHalt(node', run')
<1>1. /\ TypeOK /\ \A m \in Node : RunOf[m] \in Run
      /\ node' = ExpireNodes /\ run' = ExpireRuns
  BY IdentityAssumption DEF HistoryInv, KernelInv, Renew
<1>2. NothingNewWaits
  BY <1>1, ExpireWaits DEF NothingNewWaits, RunWaiting
<1>3. \A m \in Node : node'[m].status = "running" /\ run'[RunOf[m]].status = "failed"
          => node[m].status = "running" /\ run[RunOf[m]].status = "failed"
  BY <1>1, ExpireWaits
<1> QED BY <1>2, <1>3, KeepsHalted

LEMMA ClaimReadyWaits ==
    ASSUME HistoryInv, AskersHalt(node, run), NEW limit, NEW reserve, ClaimReady(limit, reserve)
    PROVE  NothingNewWaits /\ AskersHalt(node', run')
<1> DEFINE swept == LoseAttempts(CancelAttempts(attempt, Overdue), Reclaimable)
           N == {a[1] : a \in Reclaimable}
<1>1. PICK o \in LostOutcomes(N), S \in SUBSET Node :
        LET nodes == LoseNodes(ExpireNodes, o)
            runs == LoseRuns(ExpireRuns, swept, o)
        IN  /\ node' = Claimed(nodes, S)
            /\ run' = Resumed(runs, S)
  BY ClaimReadyStages
<1> DEFINE nodes == LoseNodes(ExpireNodes, o)
           runs == LoseRuns(ExpireRuns, swept, o)
<1>2. /\ TypeOK /\ KernelInv /\ \A n \in Node : RunOf[n] \in Run
      /\ ExpireNodes \in NodeTable /\ ExpireRuns \in RunTable
      /\ nodes \in NodeTable /\ runs \in RunTable
  BY IdentityAssumption, SweptTables, ExpireNodesType, ExpireRunsType
     DEF HistoryInv, KernelInv, TypeOK
<1>3. o \in [N -> {"ready", "failed", "cancelled"}] /\ N \in SUBSET Node
  BY DEF LostOutcomes, Reclaimable
<1>4. \A n \in N : node[n].status = "running"
  BY <1>2 DEF Reclaimable, KernelInv, Matched
<1>5. \A n \in Node : /\ ExpireNodes[n].status \in {"running"} \union NodeWaiting
                             => ExpireNodes[n].status = node[n].status
                      /\ ExpireNodes[n].status = "running" /\ ExpireRuns[RunOf[n]].status = "failed"
                             => run[RunOf[n]].status = "failed"
  BY <1>2, ExpireWaits
<1>6. \A r \in Run : ExpireRuns[r].status \in RunWaiting => ExpireRuns[r].status = run[r].status
  BY <1>2, ExpireWaits DEF RunWaiting
<1> HIDE DEF N, swept
<1>7. HasLost(nodes, runs, ExpireRuns)
  <2>1. MayLose(ExpireNodes, ExpireRuns, o)
    BY <1>2, <1>3, <1>4, <1>5 DEF MayLose
  <2> QED BY <2>1, LoseWaits
<1>8. node' = Claimed(nodes, S) /\ run' = Resumed(runs, S)
  BY <1>1
<1> HIDE DEF nodes, runs
<1>9. /\ \A n \in Node : \/ n \notin S /\ node'[n] = nodes[n]
                         \/ n \in S /\ node'[n].status = "running"
      /\ \A r \in Run : \/ run'[r] = runs[r] /\ \A n \in S : RunOf[n] # r
                        \/ run'[r].status = "running"
  <2>1. ASSUME NEW n \in Node
        PROVE  \/ n \notin S /\ node'[n] = nodes[n]
               \/ n \in S /\ node'[n].status = "running"
    BY <1>2, <1>8 DEF Claimed, NodeTable
  <2>2. ASSUME NEW r \in Run
        PROVE  \/ run'[r] = runs[r] /\ \A n \in S : RunOf[n] # r
               \/ run'[r].status = "running"
    BY <1>2, <1>8 DEF Resumed, RunTable
  <2> QED BY <2>1, <2>2
<1>10. NothingNewWaits
  BY <1>6, <1>7, <1>9 DEF HasLost, NothingNewWaits, RunWaiting, NodeWaiting
<1>11. \A n \in Node : ~(/\ n \in Asking
                         /\ node'[n].status = "running"
                         /\ run'[RunOf[n]].status = "failed")
  BY <1>2, <1>7, <1>9 DEF HasLost
<1> QED BY <1>10, <1>11, KeepsHalted

LEMMA RequestWaits ==
    ASSUME HistoryInv, AskersHalt(node, run),
           \/ \E r \in Run : Create(r) \/ RequestPause(r) \/ Resume(r) \/ Cancel(r)
           \/ \E n \in Node, k \in AttemptNo : LeaseExpires(n, k)
           \/ \E n \in Node : BecomesDue(n)
           \/ UNCHANGED vars
    PROVE  NothingNewWaits /\ AskersHalt(node', run')
<1>1. TypeOK /\ \A m \in Node : RunOf[m] \in Run
  BY IdentityAssumption DEF HistoryInv, KernelInv
<1>2. \A r \in Run : \/ run'[r].status = run[r].status
                     \/ run'[r].status \in {"queued", "running", "paused", "cancelled"}
  <2> SUFFICES ASSUME NEW r \in Run
               PROVE  \/ run'[r].status = run[r].status
                      \/ run'[r].status \in {"queued", "running", "paused", "cancelled"}
    OBVIOUS
  <2>1. ASSUME NEW q \in Run, Create(q)
        PROVE  run'[r].status = run[r].status \/ run'[r].status = "queued"
    BY <1>1, <2>1 DEF Create, TypeOK, RunTable
  <2>2. ASSUME NEW q \in Run, RequestPause(q)
        PROVE  run'[r].status = run[r].status \/ run'[r].status = "paused"
    BY <1>1, <2>2 DEF RequestPause, TypeOK, RunTable
  <2>3. ASSUME NEW q \in Run, Resume(q)
        PROVE  run'[r].status = run[r].status \/ run'[r].status \in {"queued", "running"}
    BY <1>1, <2>3 DEF Resume, TypeOK, RunTable
  <2>4. ASSUME NEW q \in Run, Cancel(q)
        PROVE  run'[r].status = run[r].status \/ run'[r].status = "cancelled"
    BY <1>1, <2>4 DEF Cancel, TypeOK, RunTable
  <2>5. CASE \/ \E n \in Node, k \in AttemptNo : LeaseExpires(n, k)
             \/ \E n \in Node : BecomesDue(n)
             \/ UNCHANGED vars
    BY <2>5 DEF LeaseExpires, BecomesDue, vars
  <2> QED BY <2>1, <2>2, <2>3, <2>4, <2>5
<1>3. \A n \in Node : \/ node'[n].status = node[n].status
                      \/ node'[n].status \in {"ready", "pending", "cancelled"}
  <2>1. CASE \E r \in Run : Create(r)
    BY <2>1 DEF Create, InsertPlan
  <2>2. ASSUME NEW r \in Run, Resume(r) \/ Cancel(r)
        PROVE  \A n \in Node : \/ node'[n].status = node[n].status
                               \/ node'[n].status \in {"ready", "pending", "cancelled"}
    <3>1. node \in NodeTable
      BY <1>1 DEF TypeOK
    <3>2. CASE Resume(r)
      BY <3>1, <3>2 DEF Resume, SetNodes, NodeTable
    <3>3. CASE Cancel(r)
      BY <3>1, <3>3 DEF Cancel, SetNodes, NodeTable
    <3> QED BY <2>2, <3>2, <3>3
  <2>3. ASSUME NEW n \in Node, BecomesDue(n)
        PROVE  \A m \in Node : node'[m].status = node[m].status
    BY <1>1, <2>3 DEF BecomesDue, TypeOK, NodeTable
  <2>4. CASE \/ \E r \in Run : RequestPause(r)
             \/ \E n \in Node, k \in AttemptNo : LeaseExpires(n, k)
             \/ UNCHANGED vars
    BY <2>4 DEF RequestPause, LeaseExpires, vars
  <2> QED BY <2>1, <2>2, <2>3, <2>4
<1>4. NothingNewWaits
  BY <1>2, <1>3 DEF NothingNewWaits, RunWaiting, NodeWaiting
<1>5. \A m \in Node : node'[m].status = "running" /\ run'[RunOf[m]].status = "failed"
          => node[m].status = "running" /\ run[RunOf[m]].status = "failed"
  BY <1>1, <1>2, <1>3
<1> QED BY <1>4, <1>5, KeepsHalted

LEMMA QuietlyWaits ==
    ASSUME HistoryInv, AskersHalt(node, run), Quietly
    PROVE  NothingNewWaits /\ AskersHalt(node', run')
<1>1. ASSUME NEW n \in Node, NEW k \in AttemptNo, Retry(n, k) \/ Defer(n, k) \/ Fail(n, k)
      PROVE  NothingNewWaits /\ AskersHalt(node', run')
  BY <1>1, FailRunWaits, PostponeWaits DEF Retry, Defer, Fail
<1> QED BY <1>1, CompleteWaits, AbandonWaits, RenewWaits, ClaimReadyWaits, RequestWaits DEF Quietly

(* A thread that commits its wait makes its own run wait, and no other. *)
LEMMA WaitsEffect ==
    ASSUME HistoryInv, AskersHalt(node, run), NEW n \in Node, NEW k \in AttemptNo,
           WaitForApproval(n, k) \/ WaitForInput(n, k)
    PROVE  /\ AskersHalt(node', run')
           /\ \A r \in Run : r # RunOf[n] => run'[r] = run[r]
           /\ run'[RunOf[n]].status \in RunWaiting
<1>1. PICK waiting \in NodeWaiting : WaitFor(n, k, waiting)
  BY DEF WaitForApproval, WaitForInput, NodeWaiting
<1>2. TypeOK /\ \A m \in Node : RunOf[m] \in Run
  BY IdentityAssumption DEF HistoryInv, KernelInv
<1>3. /\ \A r \in Run : r # RunOf[n] => run'[r] = run[r]
      /\ run'[RunOf[n]].status = waiting
  BY <1>1, <1>2 DEF WaitFor, TypeOK, RunTable
<1>4. n \in Asking /\ \A m \in Node : m # n => node'[m] = node[m]
  BY <1>1 DEF WaitFor, SetNodes
<1>5. node'[n].status = waiting
  BY <1>1, <1>2 DEF WaitFor, SetNodes, TypeOK, NodeTable
<1>6. waiting \in RunWaiting /\ waiting # "failed" /\ waiting # "running"
  BY DEF NodeWaiting, RunWaiting
<1> QED BY <1>2, <1>3, <1>4, <1>5, <1>6 DEF AskersHalt

(* A run that waits, pauses or has ended poses no question. *)
LEMMA SettledRuns ==
    ASSUME MemoryInv, HistoryInv, AskersHalt(node, run), Asked,
           NEW r \in Run, run[r].status \in RunWaiting \union {"paused"} \union RunTerminal
    PROVE  ~Posing(r)
<1> SUFFICES ASSUME NEW n \in Node, RunOf[n] = r, worker[n].stage \in {"approval", "input"},
                    ClaimHeld(n, worker[n].attempt)
             PROVE  FALSE
  BY DEF Posing
<1>1. worker[n].attempt \in AttemptNo /\ n \in Asking
  BY DEF MemoryInv, ThreadsNumbered, Asked
<1>2. KernelInv /\ Reasoned(node, run)
  BY DEF HistoryInv, History
<1>3. node[n].status = "running"
  BY <1>1, <1>2 DEF KernelInv, Matched, ClaimHeld
<1>4. CASE run[r].status \in RunWaiting
  <2>1. PICK m \in Node : RunOf[m] = r /\ node[m].status = run[r].status
    BY <1>2, <1>4 DEF Reasoned
  <2>2. node[m].status \in NodeWaiting /\ m # n
    BY <1>3, <1>4, <2>1 DEF RunWaiting, NodeWaiting
  <2> QED BY <1>1, <1>3, <2>1, <2>2, Alone
<1>5. CASE run[r].status = "paused"
  BY <1>2, <1>3, <1>5 DEF KernelInv, Quiet
<1>6. CASE run[r].status \in RunTerminal
  BY <1>1, <1>2, <1>3, <1>6 DEF KernelInv, Done, AskersHalt, RunTerminal, NodeOpen
<1> QED BY <1>4, <1>5, <1>6

(* A thread goes on without asking, asks while its run's question is open, or *)
(* begins with a claim of the pass.                                           *)
GoesOn(n) ==
    \/ /\ worker'[n].stage = worker[n].stage
       /\ worker'[n].attempt = worker[n].attempt
    \/ /\ worker[n].stage # "none"
       /\ worker'[n].attempt = worker[n].attempt
       /\ \/ worker'[n].stage \notin {"none", "approval", "input"}
          \/ /\ worker'[n].stage \in {"approval", "input"}
             /\ n \in Asking
             /\ question[RunOf[n]] # "decided"
    \/ /\ worker[n].stage = "none"
       /\ worker'[n].stage = "submitted"
       /\ <<n, worker'[n].attempt>> \in pass.claims
       /\ process.state = "running"

LEMMA SameThreads == worker' = worker => \A n \in Node : GoesOn(n)
BY DEF GoesOn

LEMMA TokensOnly ==
    ASSUME MemoryInv, NEW S, NEW reason \in {"interrupted", "cancelled"},
           worker' = [n \in Node |-> IF n \in S THEN SetToken(n, reason) ELSE worker[n]]
    PROVE  \A n \in Node : GoesOn(n)
BY SetTokenType DEF GoesOn

LEMMA StageOnly ==
    ASSUME MemoryInv, NEW n \in Node, worker[n].stage # "none",
           NEW stage, stage \notin {"none", "approval", "input"}, SetStage(n, stage)
    PROVE  \A m \in Node : GoesOn(m)
BY DEF MemoryInv, MemoryOK, SetStage, GoesOn

LEMMA ThreadGoesOn ==
    ASSUME MemoryInv, NEW n \in Node, ThreadStep(n), ~Finish(n)
    PROVE  \A m \in Node : GoesOn(m)
<1>1. ASSUME NEW stage \in {"executing", "child", "returned", "settled"}, SetStage(n, stage),
             worker[n].stage # "none"
      PROVE  \A m \in Node : GoesOn(m)
  BY <1>1, StageOnly
<1>2. CASE Start(n) \/ WaitTimesOut(n) \/ Returns(n)
  BY <1>1, <1>2 DEF Start, WaitTimesOut, Returns
<1>3. CASE CommitOutcome(n) \/ LateOutcome(n) \/ Stops(n) \/ StopsCancelled(n)
  BY <1>1, <1>3 DEF CommitOutcome, LateOutcome, Stops, StopsCancelled
<1>4. CASE Ask(n)
  <2>1. PICK kind \in {"approval", "input"} :
          question[RunOf[n]] \in {"none", kind} /\ SetStage(n, kind)
    BY <1>4 DEF Ask
  <2>2. worker[n].stage # "none" /\ n \in Asking /\ question[RunOf[n]] # "decided"
    BY <1>4, <2>1 DEF Ask
  <2> QED BY <2>1, <2>2 DEF SetStage, GoesOn, MemoryInv, MemoryOK
<1>5. ASSUME NEW c \in Child, Spawn(n, c)
      PROVE  \A m \in Node : GoesOn(m)
  BY <1>1, <1>5 DEF Spawn
<1>6. ASSUME NEW c \in Child, ChildEnds(n, c)
      PROVE  \A m \in Node : GoesOn(m)
  <2>1. worker[n].stage # "none"
    BY <1>6 DEF ChildEnds
  <2>2. CASE SetStage(n, "executing")
    BY <1>1, <2>1, <2>2
  <2>3. ASSUME NEW reason \in {"interrupted", "cancelled"},
               worker' = [worker EXCEPT ![n] = [SetToken(n, reason) EXCEPT !.stage = "executing"]]
        PROVE  \A m \in Node : GoesOn(m)
    BY <2>1, <2>3, SetTokenType DEF GoesOn, MemoryInv, MemoryOK
  <2> QED BY <1>6, <2>2, <2>3 DEF ChildEnds
<1>7. ASSUME NEW c \in Child, LeaveChild(n, c)
      PROVE  \A m \in Node : GoesOn(m)
  <2>1. worker[n].stage # "none"
    BY <1>7 DEF LeaveChild
  <2>2. CASE SetStage(n, "executing")
    BY <1>1, <2>1, <2>2
  <2>3. CASE worker' = [m \in Node |->
                  IF m = n THEN [worker[m] EXCEPT !.stage = "executing"]
                  ELSE IF m \in ActiveIn(c) THEN SetToken(m, "cancelled") ELSE worker[m]]
    BY <2>1, <2>3, SetTokenType DEF GoesOn, MemoryInv, MemoryOK
  <2> QED BY <1>7, <2>2, <2>3 DEF LeaveChild
<1> QED BY <1>2, <1>3, <1>4, <1>5, <1>6, <1>7 DEF ThreadStep

(* The steps of everybody but those who look at the intents. *)
Bystander ==
    \/ ReadSlots \/ ClaimPass \/ EmptyPass \/ TimePasses \/ UNCHANGED schedulerVars
    \/ \E n \in Node, k \in AttemptNo : Register(n, k)
    \/ \E n \in Node : Heartbeat(n) \/ PauseActive(n) \/ (ThreadStep(n) /\ ~Finish(n))
    \/ \E r \in Run : CreateRun(r) \/ UserPauses(r) \/ UserResumes(r) \/ CancelTokens(r) \/ CancelRun(r)

LEMMA BystanderEffect ==
    ASSUME MemoryInv, Bystander
    PROVE  /\ UNCHANGED <<process, intent, check, recovering>>
           /\ \A n \in Node : GoesOn(n)
           /\ \A r \in Run :
                 \/ question'[r] = question[r]
                 \/ /\ AsksSomething(r)
                    /\ question[r] # "decided" /\ question'[r] # "decided"
<1>1. CASE ReadSlots \/ ClaimPass \/ EmptyPass \/ TimePasses \/ UNCHANGED schedulerVars
  BY <1>1, SameThreads DEF ReadSlots, ClaimPass, EmptyPass, TimePasses, schedulerVars, memory
<1>2. ASSUME NEW n \in Node, NEW k \in AttemptNo, Register(n, k)
      PROVE  /\ UNCHANGED <<process, intent, check, recovering, question>>
             /\ \A m \in Node : GoesOn(m)
  <2>1. CASE worker' = worker
    BY <1>2, <2>1, SameThreads DEF Register
  <2>2. CASE worker' # worker
    <3>1. /\ worker[n].stage = "none" /\ process.state = "running" /\ <<n, k>> \in pass.claims
          /\ worker' = [worker EXCEPT ![n] =
                          [stage |-> "submitted", attempt |-> k, token |-> "clear"]]
      BY <1>2, <2>2 DEF Register
    <3>2. \A m \in Node : GoesOn(m)
      BY <3>1 DEF GoesOn, MemoryInv, MemoryOK
    <3> QED BY <1>2, <3>2 DEF Register
  <2> QED BY <2>1, <2>2
<1>3. ASSUME NEW n \in Node, Heartbeat(n) \/ PauseActive(n)
      PROVE  /\ UNCHANGED <<process, intent, check, recovering, question>>
             /\ \A m \in Node : GoesOn(m)
  <2>1. CASE worker' = worker
    BY <1>3, <2>1, SameThreads DEF Heartbeat, PauseActive
  <2>2. CASE worker' = [worker EXCEPT ![n] = SetToken(n, "interrupted")]
    <3>1. worker' = [m \in Node |-> IF m \in {n} THEN SetToken(m, "interrupted") ELSE worker[m]]
      BY <2>2 DEF MemoryInv, MemoryOK
    <3> QED BY <1>3, <3>1, TokensOnly DEF Heartbeat, PauseActive
  <2> QED BY <1>3, <2>1, <2>2 DEF Heartbeat, PauseActive
<1>4. ASSUME NEW n \in Node, ThreadStep(n), ~Finish(n)
      PROVE  /\ UNCHANGED <<process, intent, check, recovering>>
             /\ \A m \in Node : GoesOn(m)
             /\ \A r \in Run :
                   \/ question'[r] = question[r]
                   \/ /\ AsksSomething(r)
                      /\ question[r] # "decided" /\ question'[r] # "decided"
  <2>1. UNCHANGED <<process, intent, check, recovering>> /\ (~Ask(n) => question' = question)
    BY <1>4 DEF ThreadStep, Start, Spawn, ChildEnds, LeaveChild, WaitTimesOut, Ask, Returns,
                CommitOutcome, LateOutcome, Stops, StopsCancelled
  <2>2. CASE Ask(n)
    <3>1. PICK kind \in {"approval", "input"} :
            question[RunOf[n]] \in {"none", kind} /\ question' = [question EXCEPT ![RunOf[n]] = kind]
      BY <2>2 DEF Ask
    <3>2. AsksSomething(RunOf[n])
      BY <2>2 DEF Ask, AsksSomething
    <3> QED BY <1>4, <2>1, <3>1, <3>2, ThreadGoesOn DEF MemoryInv, MemoryOK
  <2> QED BY <1>4, <2>1, <2>2, ThreadGoesOn
<1>5. ASSUME NEW r \in Run,
             CreateRun(r) \/ UserPauses(r) \/ UserResumes(r) \/ CancelTokens(r) \/ CancelRun(r)
      PROVE  /\ UNCHANGED <<process, intent, check, recovering, question>>
             /\ \A m \in Node : GoesOn(m)
  BY <1>5, SameThreads, TokensOnly
     DEF CreateRun, UserPauses, UserResumes, CancelTokens, CancelRun, memory
<1> QED BY <1>1, <1>2, <1>3, <1>4, <1>5 DEF Bystander

LEMMA StepKinds ==
    ASSUME [SchedulerNext]_schedulerVars
    PROVE  \/ Bystander
           \/ \E n \in Node : Finish(n) \/ GiveUpRest(n)
           \/ \E c \in Checker : ReadIntent(c) \/ ReadRun(c) \/ DropIntent(c)
           \/ \E r \in Run : Decide(r) \/ ResumeAfterBoundary(r) \/ Recover(r)
           \/ BeginClose \/ ShutDown \/ Stop \/ Crash \/ Restart
BY DEF SchedulerNext, Bystander, ThreadStep, CheckStep, CallerStep, CloseStep

LEMMA StepEffect ==
    ASSUME MemoryInv, [SchedulerNext]_schedulerVars
    PROVE  /\ \A n \in Node : GoesOn(n) \/ worker'[n].stage = "none"
           /\ \A r \in Run : question[r] = "decided" => question'[r] = "decided"
<1>1. CASE Bystander
  BY <1>1, BystanderEffect
<1>2. ASSUME NEW n \in Node, Finish(n) \/ GiveUpRest(n)
      PROVE  /\ \A m \in Node : GoesOn(m) \/ worker'[m].stage = "none"
             /\ question' = question
  BY <1>2 DEF Finish, GiveUpRest, NoWorker, GoesOn, MemoryInv, MemoryOK
<1>3. ASSUME NEW c \in Checker, ReadIntent(c) \/ ReadRun(c) \/ DropIntent(c)
      PROVE  worker' = worker /\ question' = question
  BY <1>3 DEF ReadIntent, ReadRun, DropIntent
<1>4. ASSUME NEW r \in Run, Decide(r) \/ ResumeAfterBoundary(r) \/ Recover(r)
      PROVE  /\ worker' = worker
             /\ \A q \in Run : question[q] = "decided" => question'[q] = "decided"
  BY <1>4 DEF Decide, ResumeAfterBoundary, Recover, MemoryInv, MemoryOK
<1>5. CASE BeginClose \/ ShutDown \/ Restart
  BY <1>5, SameThreads DEF BeginClose, ShutDown, Restart, memory
<1>6. CASE Stop \/ Crash
  BY <1>6 DEF Stop, Crash, Forget, NoWorker
<1> QED BY <1>1, <1>2, <1>3, <1>4, <1>5, <1>6, StepKinds, SameThreads

(* Once the answer is there, a thread that is not going to wait will not.     *)
LEMMA PosingEnds ==
    ASSUME AnswersInv, [SchedulerNext]_schedulerVars, NEW r \in Run, question[r] = "decided",
           Posing(r)'
    PROVE  Posing(r)
<1>1. MemoryInv /\ HistoryInv /\ AttemptsMade /\ [Next]_vars
  BY KernelStep DEF AnswersInv
<1>2. PICK n \in Node : /\ RunOf[n] = r
                        /\ worker'[n].stage \in {"approval", "input"}
                        /\ attempt'[<<n, worker'[n].attempt>>].status = "running"
  BY DEF Posing, ClaimHeld
<1>3. GoesOn(n)
  BY <1>1, <1>2, StepEffect
<1>4. worker[n].stage \in {"approval", "input"} /\ worker'[n].attempt = worker[n].attempt
  BY <1>2, <1>3 DEF GoesOn
<1> DEFINE k == worker[n].attempt
<1>5. k \in AttemptNo /\ attempt[<<n, k>>].status # "absent"
  BY <1>1, <1>4 DEF MemoryInv, ThreadsNumbered, AttemptsMade
<1>6. attempt[<<n, k>>].status \notin {"absent", "running"} => attempt'[<<n, k>>] = attempt[<<n, k>>]
  <2> HIDE DEF k
  <2> QED BY <1>1, <1>5, AttemptStep
<1>7. ClaimHeld(n, k)
  BY <1>2, <1>4, <1>5, <1>6 DEF ClaimHeld
<1> QED BY <1>2, <1>4, <1>7 DEF Posing

LEMMA NoNewWait ==
    ASSUME AnswersInv, [SchedulerNext]_schedulerVars, NEW r \in Run, ~Posing(r),
           run'[r].status \in RunWaiting
    PROVE  run'[r].status = run[r].status
<1>1. MemoryInv /\ HistoryInv /\ AskersHalt(node, run)
  BY DEF AnswersInv
<1>2. CASE Quietly
  BY <1>1, <1>2, QuietlyWaits DEF NothingNewWaits
<1>3. ASSUME NEW n \in Node, Waits(n)
      PROVE  run'[r].status = run[r].status
  <2>1. /\ worker[n].stage \in {"approval", "input"}
        /\ worker[n].attempt \in AttemptNo
        /\ ClaimHeld(n, worker[n].attempt)
        /\ WaitForApproval(n, worker[n].attempt) \/ WaitForInput(n, worker[n].attempt)
    BY <1>1, <1>3 DEF Waits, WaitForApproval, WaitForInput, WaitFor, RequireClaim,
                      MemoryInv, ThreadsNumbered
  <2>2. RunOf[n] # r
    BY <2>1 DEF Posing
  <2> QED BY <1>1, <2>1, <2>2, WaitsEffect
<1> QED BY <1>1, <1>2, <1>3, KernelPart

LEMMA CalmStays ==
    ASSUME AnswersInv, [SchedulerNext]_schedulerVars, NEW r \in Run, question[r] = "decided",
           CalmRun(r)
    PROVE  CalmRun(r)'
<1>1. run'[r].status \notin RunWaiting
  BY NoNewWait DEF CalmRun
<1>2. ~Posing(r)'
  BY PosingEnds DEF CalmRun
<1> QED BY <1>1, <1>2 DEF CalmRun

LEMMA HaltStep ==
    ASSUME AnswersInv, [SchedulerNext]_schedulerVars
    PROVE  AskersHalt(node', run')
<1>1. MemoryInv /\ HistoryInv /\ AskersHalt(node, run)
  BY DEF AnswersInv
<1>2. ASSUME NEW n \in Node, Waits(n)
      PROVE  AskersHalt(node', run')
  BY <1>1, <1>2, WaitsEffect DEF Waits, MemoryInv, ThreadsNumbered
<1> QED BY <1>1, <1>2, KernelPart, QuietlyWaits

LEMMA DownStep ==
    ASSUME MemoryInv, NoneWhenDown, [SchedulerNext]_schedulerVars
    PROVE  NoneWhenDown'
<1>1. CASE Stop \/ Crash
  BY <1>1 DEF Stop, Crash, Forget, NoneWhenDown, NoWorker
<1>2. CASE ~(Stop \/ Crash)
  <2>1. process'.state = "stopped" => process.state = "stopped"
    BY <1>2, StepKinds, BystanderEffect
       DEF Finish, GiveUpRest, ReadIntent, ReadRun, DropIntent, Decide, ResumeAfterBoundary,
           Recover, BeginClose, ShutDown, Restart, MemoryInv, MemoryOK
  <2> QED BY <2>1, StepEffect DEF NoneWhenDown, GoesOn
<1> QED BY <1>1, <1>2

LEMMA MadeStep ==
    ASSUME AnswersInv, [SchedulerNext]_schedulerVars
    PROVE  AttemptsMade'
<1>1. MemoryInv /\ HistoryInv /\ AttemptsMade /\ [Next]_vars
  BY KernelStep DEF AnswersInv
<1>2. \A n \in Node, k \in AttemptNo :
        attempt[<<n, k>>].status # "absent" => attempt'[<<n, k>>].status # "absent"
  BY <1>1, AttemptStep
<1>3. ASSUME NEW n \in Node, worker'[n].stage # "none"
      PROVE  attempt'[<<n, worker'[n].attempt>>].status # "absent"
  <2>1. \/ worker[n].stage # "none" /\ worker'[n].attempt = worker[n].attempt
        \/ <<n, worker'[n].attempt>> \in pass.claims
    BY <1>1, <1>3, StepEffect DEF GoesOn
  <2>2. CASE worker[n].stage # "none" /\ worker'[n].attempt = worker[n].attempt
    BY <1>1, <1>2, <2>2 DEF MemoryInv, ThreadsNumbered, AttemptsMade
  <2>3. CASE <<n, worker'[n].attempt>> \in pass.claims
    BY <1>1, <1>2, <2>3 DEF MemoryInv, MemoryOK, AttemptsMade
  <2> QED BY <2>1, <2>2, <2>3
<1>4. ASSUME NEW n \in Node, NEW k \in AttemptNo, <<n, k>> \in pass'.claims
      PROVE  attempt'[<<n, k>>].status # "absent"
  <2>1. \/ <<n, k>> \in pass.claims
        \/ attempt'[<<n, k>>].status = "running"
    <3>1. CASE ClaimPass
      BY <1>1, <1>4, <3>1 DEF ClaimPass, MemoryInv, MemoryOK
    <3>2. CASE pass' = pass \/ pass' = Idle
      BY <1>4, <3>2, IdlePass
    <3>3. ASSUME NEW m \in Node, NEW j \in AttemptNo, Register(m, j)
          PROVE  pass'.claims \subseteq pass.claims
      BY <1>1, <3>3, IdlePass DEF Register, NextPass, MemoryInv, MemoryOK
    <3>4. ReadSlots => pass'.claims = {}
      BY DEF ReadSlots, Idle
    <3>5. ASSUME NEW m \in Node, ThreadStep(m)
          PROVE  pass' = pass
      BY <1>1, <3>5, ThreadMemory DEF ThreadEffect
    <3>6. CASE \/ \E m \in Node : Heartbeat(m)
               \/ \E c \in Checker : CheckStep(c)
               \/ \E r \in Run : CallerStep(r)
               \/ EmptyPass \/ BeginClose \/ CloseStep \/ Crash \/ Restart \/ TimePasses
               \/ UNCHANGED schedulerVars
      <4>1. pass' = pass \/ pass' = Idle
        BY <3>6 DEF Heartbeat, CheckStep, ReadIntent, ReadRun, DropIntent, CallerStep, CreateRun,
                    Decide, ResumeAfterBoundary, UserPauses, UserResumes, CancelTokens, CancelRun,
                    Recover, EmptyPass, BeginClose, CloseStep, PauseActive, GiveUpRest, ShutDown,
                    Stop, Crash, Forget, Restart, TimePasses, schedulerVars, memory
      <4> QED BY <3>2, <4>1
    <3> QED BY <1>4, <3>1, <3>2, <3>3, <3>4, <3>5, <3>6 DEF SchedulerNext
  <2> QED BY <1>1, <1>2, <2>1 DEF AttemptsMade
<1> QED BY <1>3, <1>4 DEF AttemptsMade

LEMMA AskedStep ==
    ASSUME MemoryInv, Asked, [SchedulerNext]_schedulerVars
    PROVE  Asked'
<1>1. \A n \in Node : worker'[n].stage \in {"approval", "input"} => n \in Asking
  BY StepEffect DEF Asked, GoesOn
<1>2. \A r \in Run : question'[r] # "none" => AsksSomething(r)
  <2>1. CASE Bystander
    BY <2>1, BystanderEffect DEF Asked
  <2>2. ASSUME NEW q \in Run, Decide(q)
        PROVE  \A r \in Run : question'[r] # "none" => AsksSomething(r)
    BY <2>2 DEF Decide, Asked, MemoryInv, MemoryOK
  <2>3. question' = question \/ Bystander \/ \E q \in Run : Decide(q)
    BY StepKinds DEF Finish, GiveUpRest, ReadIntent, ReadRun, DropIntent, ResumeAfterBoundary,
                     Recover, BeginClose, ShutDown, Stop, Crash, Restart
  <2> QED BY <2>1, <2>2, <2>3 DEF Asked
<1>3. recovering' # {} => process'.life > 1
  <2>1. CASE Bystander
    BY <2>1, BystanderEffect DEF Asked
  <2>2. CASE Restart
    BY <2>2 DEF Restart, MemoryInv, MemoryOK
  <2>3. CASE Stop \/ Crash
    BY <2>3 DEF Stop, Crash, Forget
  <2>4. CASE \/ \E n \in Node : Finish(n) \/ GiveUpRest(n)
             \/ \E c \in Checker : ReadIntent(c) \/ ReadRun(c) \/ DropIntent(c)
             \/ \E r \in Run : Decide(r) \/ ResumeAfterBoundary(r) \/ Recover(r)
             \/ BeginClose \/ ShutDown
    <3>1. process'.life = process.life /\ recovering' \subseteq recovering
      BY <2>4 DEF Finish, GiveUpRest, ReadIntent, ReadRun, DropIntent, Decide, ResumeAfterBoundary,
                  Recover, BeginClose, ShutDown, memory, MemoryInv, MemoryOK
    <3> QED BY <3>1 DEF Asked
  <2> QED BY <2>1, <2>2, <2>3, <2>4, StepKinds
<1> QED BY <1>1, <1>2, <1>3 DEF Asked, AsksSomething

(* A checker that has resolved its intent leaves a calm run. *)
LEMMA ReadRunCalms ==
    ASSUME AnswersInv, NEW c \in Checker, ReadRun(c), check'[c] = "resolved"
    PROVE  CalmRun(RunChecked(c))'
<1> DEFINE r == RunChecked(c)
<1>1. MemoryInv /\ HistoryInv /\ AskersHalt(node, run) /\ Asked /\ ChecksTrue /\ r \in Run
  BY Runs DEF AnswersInv
<1>2. worker' = worker /\ attempt' = attempt
  BY DEF ReadRun, Resume, vars
<1>3. Posing(r)' => Posing(r)
  BY <1>2 DEF Posing, ClaimHeld
<1>4. CASE run[r].status \in RunWaiting \union {"paused"}
  <2>1. ~Posing(r)
    BY <1>1, <1>4, SettledRuns
  <2>2. Resume(r)
    BY <1>4 DEF ReadRun
  <2> HIDE DEF r
  <2>3. run'[r].status \notin RunWaiting
    BY <1>1, <2>2 DEF Resume, HistoryInv, KernelInv, TypeOK, RunTable, RunWaiting
  <2> QED BY <1>3, <2>1, <2>3 DEF CalmRun, r
<1>5. CASE run[r].status \notin RunWaiting \union {"paused"}
  <2>1. /\ UNCHANGED vars
        /\ run[r].status \in RunTerminal \/ check[c] = "inactive"
    BY <1>1, <1>5 DEF ReadRun, MemoryInv, MemoryOK
  <2>2. ~Posing(r)
    BY <1>1, <2>1, SettledRuns DEF ChecksTrue
  <2> QED BY <1>3, <1>5, <2>1, <2>2 DEF CalmRun, vars
<1> QED BY <1>4, <1>5

LEMMA DecidedStep ==
    ASSUME MemoryInv, OnceDecided, [SchedulerNext]_schedulerVars
    PROVE  OnceDecided'
<1> USE DEF MemoryInv, MemoryOK
<1>1. \A r \in Run : question[r] = "decided" => question'[r] = "decided"
  BY StepEffect
<1>2. \A r \in Run : r \in Checker /\ RunChecked(r) = r
  BY Runs
<1>3. CASE intent' \subseteq intent /\ check' = check
  BY <1>1, <1>3, Runs DEF OnceDecided
<1>4. ASSUME NEW n \in Node, Finish(n)
      PROVE  OnceDecided'
  <2>1. \A r \in Run : r # <<n, worker[n].attempt>>
    <3>1. worker[n].attempt \in AttemptNo
      BY <1>4 DEF Finish, ThreadsNumbered
    <3> QED BY <3>1, SchedulerAssumption
  <2>2. \A c \in Checker : /\ c # <<n, worker[n].attempt>> => check'[c] = check[c]
                           /\ check'[c] \in {check[c], "called"}
    BY <1>4 DEF Finish
  <2>3. \A r \in Run : check'[r] = check[r]
    BY <1>2, <2>1, <2>2
  <2>4. \A c \in Checker : check'[c] = check[c] \/ check'[c] = "called"
    BY <2>2
  <2>5. UNCHANGED <<intent, question>>
    BY <1>4 DEF Finish
  <2> HIDE DEF MemoryInv, MemoryOK
  <2> QED BY <2>3, <2>4, <2>5 DEF OnceDecided
<1>5. ASSUME NEW c \in Checker, ReadIntent(c)
      PROVE  OnceDecided'
  <2>1. check'[c] # "none" => RunChecked(c) \in intent
    BY <1>5 DEF ReadIntent
  <2>2. \A d \in Checker : d # c => check'[d] = check[d]
    BY <1>5 DEF ReadIntent
  <2>3. UNCHANGED <<intent, question>>
    BY <1>5 DEF ReadIntent
  <2> QED BY <1>2, <2>1, <2>2, <2>3, Runs DEF OnceDecided
<1>6. ASSUME NEW c \in Checker, ReadRun(c)
      PROVE  OnceDecided'
  <2>1. check[c] \in {"active", "inactive"} /\ UNCHANGED <<intent, question>>
    BY <1>6 DEF ReadRun
  <2>2. \A d \in Checker : d # c => check'[d] = check[d]
    BY <1>6 DEF ReadRun
  <2> QED BY <1>2, <2>1, <2>2, Runs DEF OnceDecided
<1>7. ASSUME NEW c \in Checker, DropIntent(c)
      PROVE  OnceDecided'
  <2>1. /\ UNCHANGED question /\ intent' \subseteq intent
        /\ \A d \in Checker : check'[d] \in {"none", check[d]}
    BY <1>7 DEF DropIntent
  <2> QED BY <1>2, <2>1 DEF OnceDecided
<1>8. ASSUME NEW q \in Run, Decide(q)
      PROVE  OnceDecided'
  <2>1. /\ question'[q] = "decided" /\ intent' = intent
        /\ \A d \in Checker : d # q => check'[d] = check[d]
        /\ check'[q] = "deciding"
    BY <1>2, <1>8 DEF Decide
  <2> QED BY <1>1, <1>2, <2>1, Runs DEF OnceDecided
<1>9. ASSUME NEW q \in Run, ResumeAfterBoundary(q)
      PROVE  OnceDecided'
  <2>1. /\ check[q] = "deciding" /\ intent' \subseteq intent \union {q} /\ question' = question
        /\ \A d \in Checker : d # q => check'[d] = check[d]
        /\ check'[q] \in {"called", "none"}
    BY <1>2, <1>9 DEF ResumeAfterBoundary
  <2> QED BY <1>2, <2>1 DEF OnceDecided
<1>10. CASE Stop \/ Crash
  <2>1. intent' = {} /\ \A c \in Checker : check'[c] = "none"
    BY <1>10 DEF Stop, Crash, Forget
  <2> QED BY <1>2, <2>1 DEF OnceDecided
<1>11. CASE \/ Bystander \/ \E n \in Node : GiveUpRest(n)
            \/ \E r \in Run : Recover(r)
            \/ BeginClose \/ ShutDown \/ Restart
  BY <1>3, <1>11, BystanderEffect DEF GiveUpRest, Recover, BeginClose, ShutDown, Restart, memory
<1> QED BY <1>4, <1>5, <1>6, <1>7, <1>8, <1>9, <1>10, <1>11, StepKinds

LEMMA ChecksStep ==
    ASSUME AnswersInv, [SchedulerNext]_schedulerVars
    PROVE  ChecksTrue'
<1>1. MemoryInv /\ OnceDecided /\ ChecksTrue
  BY DEF AnswersInv
<1>2. ASSUME NEW c \in Checker, check'[c] = check[c]
      PROVE  /\ check'[c] = "inactive" => ~Posing(RunChecked(c))'
             /\ check'[c] = "resolved" => CalmRun(RunChecked(c))'
  BY <1>1, <1>2, Runs, PosingEnds, CalmStays DEF OnceDecided, ChecksTrue
<1>3. ASSUME NEW c \in Checker, check'[c] # check[c], check'[c] \in {"inactive", "resolved"}
      PROVE  \/ ReadIntent(c) /\ ActiveIn(RunChecked(c)) = {} /\ check'[c] = "inactive"
             \/ ReadRun(c) /\ check'[c] = "resolved"
  <2>1. ~Bystander /\ ~Stop /\ ~Crash
    BY <1>3, BystanderEffect, <1>1 DEF Stop, Crash, Forget
  <2>2. \A n \in Node : ~Finish(n) /\ ~GiveUpRest(n)
    BY <1>1, <1>3 DEF Finish, GiveUpRest, MemoryInv, MemoryOK
  <2>3. \A r \in Run : ~Decide(r) /\ ~ResumeAfterBoundary(r) /\ ~Recover(r)
    BY <1>1, <1>3 DEF Decide, ResumeAfterBoundary, Recover, MemoryInv, MemoryOK
  <2>4. ~BeginClose /\ ~ShutDown /\ ~Restart
    BY <1>3 DEF BeginClose, ShutDown, Restart, memory
  <2>5. PICK d \in Checker : ReadIntent(d) \/ ReadRun(d) \/ DropIntent(d)
    BY <2>1, <2>2, <2>3, <2>4, StepKinds
  <2>6. d = c
    BY <1>1, <1>3, <2>5 DEF ReadIntent, ReadRun, DropIntent, MemoryInv, MemoryOK
  <2> QED BY <1>1, <1>3, <2>5, <2>6 DEF ReadIntent, ReadRun, DropIntent, MemoryInv, MemoryOK
<1>4. ASSUME NEW c \in Checker, ReadIntent(c), ActiveIn(RunChecked(c)) = {}
      PROVE  ~Posing(RunChecked(c))'
  <2>1. worker' = worker
    BY <1>4 DEF ReadIntent
  <2> QED BY <1>4, <2>1 DEF Posing, ActiveIn, Active
<1>5. ASSUME NEW c \in Checker, check'[c] # check[c]
      PROVE  /\ check'[c] = "inactive" => ~Posing(RunChecked(c))'
             /\ check'[c] = "resolved" => CalmRun(RunChecked(c))'
  BY <1>3, <1>4, <1>5, ReadRunCalms
<1> QED BY <1>2, <1>5 DEF ChecksTrue

LEMMA AttendedStep ==
    ASSUME AnswersInv, [SchedulerNext]_schedulerVars, NEW r \in Run, question[r] = "decided",
           process.state = "running", process'.state = "running",
           ~CalmRun(r)', Attended(r)
    PROVE  Attended(r)'
<1>1. /\ MemoryInv /\ MemoryOK /\ Asked /\ ChecksTrue /\ ~CalmRun(r)
      /\ r \in Checker /\ RunChecked(r) = r
  BY Runs, CalmStays DEF AnswersInv, MemoryInv
<1>2. ASSUME intent' = intent, check' = check,
             \A n \in Node : worker[n].stage # "none" => worker'[n].stage # "none"
      PROVE  Attended(r)'
  BY <1>2 DEF Attended
<1>3. CASE Bystander
  <2>1. /\ UNCHANGED <<intent, check>>
        /\ \A n \in Node : worker[n].stage # "none" => worker'[n].stage # "none"
    BY <1>1, <1>3, BystanderEffect DEF GoesOn
  <2> QED BY <1>2, <2>1
<1>4. ASSUME NEW n \in Node, Finish(n)
      PROVE  Attended(r)'
  <2> DEFINE a == <<n, worker[n].attempt>>
  <2>1. worker[n].attempt \in AttemptNo
    BY <1>1, <1>4 DEF Finish, MemoryInv, ThreadsNumbered
  <2>2. a \in Checker /\ RunChecked(a) = RunOf[n] /\ r # a
    BY <2>1, Runs, SchedulerAssumption
  <2> HIDE DEF a
  <2>3. /\ intent' = intent
        /\ \A m \in Node : m # n => worker'[m] = worker[m]
        /\ \A c \in Checker : c # a => check'[c] = check[c]
        /\ check'[a] \in {check[a], "called"}
        /\ AsksSomething(RunOf[n]) => check'[a] = "called"
    BY <1>1, <1>4, <2>2 DEF Finish, MemoryOK, a
  <2>4. AsksSomething(r)
    BY <1>1 DEF Asked
  <2>5. CASE check[r] = "deciding"
    BY <1>1, <2>2, <2>3, <2>5 DEF Attended
  <2>6. ASSUME r \in intent, NEW m \in Node, RunOf[m] = r, worker[m].stage # "none"
        PROVE  Attended(r)'
    <3>1. CASE m = n
      BY <2>2, <2>3, <2>4, <2>6, <3>1 DEF Attended, Looking
    <3>2. CASE m # n
      BY <2>3, <2>6, <3>2 DEF Attended
    <3> QED BY <3>1, <3>2
  <2>7. ASSUME r \in intent, NEW c \in Checker, RunChecked(c) = r, check[c] \in Looking
        PROVE  Attended(r)'
    <3>1. check'[c] \in Looking
      BY <2>3, <2>7 DEF Looking
    <3> QED BY <2>3, <2>7, <3>1 DEF Attended
  <2> QED BY <2>5, <2>6, <2>7 DEF Attended
<1>5. ASSUME NEW n \in Node
      PROVE  ~GiveUpRest(n)
  BY DEF GiveUpRest, Drained
<1>6. ASSUME NEW c \in Checker, ReadIntent(c)
      PROVE  Attended(r)'
  <2>1. /\ UNCHANGED <<intent, worker>>
        /\ \A d \in Checker : d # c => check'[d] = check[d]
        /\ check[c] = "called"
        /\ RunChecked(c) \in intent => check'[c] \in {"active", "inactive"}
    BY <1>1, <1>6 DEF ReadIntent, MemoryOK
  <2> QED BY <1>1, <2>1 DEF Attended, Looking
<1>7. ASSUME NEW c \in Checker, ReadRun(c)
      PROVE  Attended(r)'
  <2>1. /\ UNCHANGED <<intent, worker>>
        /\ \A d \in Checker : d # c => check'[d] = check[d]
        /\ check[c] \in {"active", "inactive"}
    BY <1>1, <1>7 DEF ReadRun, MemoryOK
  <2>2. CASE RunChecked(c) # r
    BY <1>1, <2>1, <2>2 DEF Attended
  <2>3. CASE RunChecked(c) = r
    <3>1. check'[c] # "resolved"
      BY <1>7, <2>3, ReadRunCalms
    <3>2. run[r].status \notin RunWaiting
      BY <1>1, <1>7, <2>3, <3>1 DEF ReadRun, MemoryOK
    <3>3. PICK n \in Node : RunOf[n] = r /\ worker[n].stage \in {"approval", "input"}
      BY <1>1, <3>2 DEF CalmRun, Posing
    <3>4. check[r] = "deciding" => check'[r] = "deciding"
      BY <1>1, <2>1
    <3> QED BY <2>1, <3>3, <3>4 DEF Attended
  <2> QED BY <2>2, <2>3
<1>8. ASSUME NEW c \in Checker, DropIntent(c)
      PROVE  Attended(r)'
  <2>1. /\ worker' = worker /\ intent' = intent \ {RunChecked(c)}
        /\ \A d \in Checker : d # c => check'[d] = check[d]
        /\ check[c] = "resolved"
    BY <1>1, <1>8 DEF DropIntent, MemoryOK
  <2>2. RunChecked(c) # r
    BY <1>1, <2>1 DEF ChecksTrue
  <2> QED BY <1>1, <2>1, <2>2 DEF Attended, Looking
<1>9. ASSUME NEW q \in Run, Decide(q)
      PROVE  Attended(r)'
  <2>1. /\ UNCHANGED <<intent, worker>> /\ q # r
        /\ \A d \in Checker : d # q => check'[d] = check[d]
    BY <1>1, <1>9 DEF Decide, MemoryOK
  <2>2. RunChecked(q) = q
    BY Runs
  <2> QED BY <1>1, <2>1, <2>2 DEF Attended
<1>10. ASSUME NEW q \in Run, ResumeAfterBoundary(q)
       PROVE  Attended(r)'
  <2>1. /\ worker' = worker /\ intent' = intent \union {q}
        /\ \A d \in Checker : d # q => check'[d] = check[d]
        /\ check[q] = "deciding" /\ check'[q] = "called"
    BY <1>1, <1>10, Runs DEF ResumeAfterBoundary, MemoryOK
  <2>2. CASE q = r
    BY <1>1, <2>1, <2>2 DEF Attended, Looking
  <2>3. CASE q # r
    BY <1>1, <2>1, <2>3, Runs DEF Attended
  <2> QED BY <2>2, <2>3
<1>11. ASSUME NEW q \in Run, Recover(q)
       PROVE  Attended(r)'
  BY <1>2, <1>11 DEF Recover
<1>12. ~BeginClose /\ ~ShutDown /\ ~Stop /\ ~Crash /\ ~Restart
  BY <1>1 DEF BeginClose, ShutDown, Stop, Crash, Restart, MemoryOK
<1> QED BY <1>3, <1>4, <1>5, <1>6, <1>7, <1>8, <1>9, <1>10, <1>11, <1>12, StepKinds

LEMMA HeardStep ==
    ASSUME AnswersInv, [SchedulerNext]_schedulerVars
    PROVE  Heard'
<1> SUFFICES ASSUME NEW r \in Run,
                    process'.state = "running", question'[r] = "decided", ~CalmRun(r)'
             PROVE  \/ run'[r].status = "waiting_for_input" /\ process'.life > 1
                    \/ r \in recovering' /\ ~Posing(r)'
                    \/ Attended(r)'
  BY DEF Heard
<1>1. /\ MemoryInv /\ MemoryOK /\ HistoryInv /\ AskersHalt(node, run) /\ Asked
      /\ NoneWhenDown /\ Heard
      /\ r \in Checker
  BY Runs DEF AnswersInv, MemoryInv
<1>2. CASE Decide(r)
  <2>1. check'[r] = "deciding"
    BY <1>1, <1>2 DEF Decide, MemoryOK
  <2> QED BY <2>1 DEF Attended
<1>3. CASE Restart
  <2>1. r \in recovering' /\ \A n \in Node : worker'[n].stage = "none"
    BY <1>1, <1>3 DEF Restart, NoneWhenDown
  <2> QED BY <2>1 DEF Posing
<1>4. CASE question[r] = "decided" /\ process.state = "running"
  <2>1. ~CalmRun(r) /\ (~Posing(r) => ~Posing(r)')
    BY <1>4, CalmStays, PosingEnds
  <2>2. ~Posing(r) => run'[r].status \in RunWaiting /\ run'[r].status = run[r].status
    BY <2>1, NoNewWait DEF CalmRun
  <2>3. process'.life = process.life
    BY <1>1, <1>4, StepKinds, BystanderEffect
       DEF Finish, GiveUpRest, ReadIntent, ReadRun, DropIntent, Decide, ResumeAfterBoundary,
           Recover, BeginClose, ShutDown, Stop, Crash, Restart, MemoryOK
  <2>4. CASE run[r].status = "waiting_for_input" /\ process.life > 1
    <3>1. ~Posing(r)
      BY <1>1, <2>4, SettledRuns DEF RunWaiting
    <3> QED BY <2>2, <2>3, <2>4, <3>1
  <2>5. CASE r \in recovering /\ ~Posing(r)
    <3>1. CASE r \in recovering'
      BY <2>1, <2>5, <3>1
    <3>2. CASE r \notin recovering'
      <4>1. Recover(r)
        BY <1>1, <1>4, <2>5, <3>2, StepKinds, BystanderEffect
           DEF Finish, GiveUpRest, ReadIntent, ReadRun, DropIntent, Decide, ResumeAfterBoundary,
               Recover, BeginClose, ShutDown, Stop, Crash, Restart, memory, MemoryOK
      <4>2. Resume(r) => run'[r].status \notin RunWaiting
        BY <1>1 DEF Resume, HistoryInv, KernelInv, TypeOK, RunTable, RunWaiting
      <4>3. run[r].status # "waiting_for_approval"
        BY <1>4, <2>2, <2>5, <4>1, <4>2 DEF Recover
      <4>4. run'[r].status = "waiting_for_input"
        BY <2>2, <2>5, <4>3 DEF RunWaiting
      <4> QED BY <1>1, <2>3, <2>5, <4>4 DEF Asked
    <3> QED BY <3>1, <3>2
  <2>6. CASE Attended(r)
    BY <1>4, <2>6, AttendedStep
  <2> QED BY <1>1, <1>4, <2>1, <2>4, <2>5, <2>6 DEF Heard
<1>5. CASE ~(question[r] = "decided" /\ process.state = "running")
  <2>1. CASE question[r] # "decided"
    <3>1. ~Bystander
      BY <1>1, <2>1, BystanderEffect
    <3>2. Decide(r)
      BY <1>1, <2>1, <3>1, StepKinds
         DEF Finish, GiveUpRest, ReadIntent, ReadRun, DropIntent, Decide, ResumeAfterBoundary,
             Recover, BeginClose, ShutDown, Stop, Crash, Restart, MemoryOK
    <3> QED BY <1>2, <3>2
  <2>2. CASE process.state # "running"
    <3>1. ~Bystander
      BY <1>1, <2>2, BystanderEffect
    <3>2. Restart
      BY <1>1, <2>2, <3>1, StepKinds
         DEF Finish, GiveUpRest, ReadIntent, ReadRun, DropIntent, Decide, ResumeAfterBoundary,
             Recover, BeginClose, ShutDown, Stop, Crash, MemoryOK
    <3> QED BY <1>3, <3>2
  <2> QED BY <1>5, <2>1, <2>2
<1> QED BY <1>4, <1>5

LEMMA AnswersStep == AnswersInv /\ [SchedulerNext]_schedulerVars => AnswersInv'
<1> SUFFICES ASSUME AnswersInv, [SchedulerNext]_schedulerVars
             PROVE  AnswersInv'
  OBVIOUS
<1>1. MemoryInv /\ HistoryInv /\ OnceDecided /\ Asked /\ NoneWhenDown
  BY DEF AnswersInv
<1>2. MemoryInv' /\ HistoryInv'
  BY <1>1, MemoryStep, KernelStep, NextHistoryInv
<1>3. AskersHalt(node, run)'
  BY HaltStep
<1>4. OnceDecided' /\ Asked' /\ NoneWhenDown'
  BY <1>1, DecidedStep, AskedStep, DownStep
<1> QED BY <1>2, <1>3, <1>4, ChecksStep, MadeStep, HeardStep DEF AnswersInv

LEMMA InitAnswers == SchedulerInit => AnswersInv
<1> SUFFICES ASSUME SchedulerInit
             PROVE  AnswersInv
  OBVIOUS
<1>1. MemoryInv /\ HistoryInv
  BY InitMemory, InitHistoryInv DEF SchedulerInit
<1>2. \A n \in Node : node[n].status = "absent"
  BY DEF SchedulerInit, Init
<1>3. /\ \A n \in Node : worker[n].stage = "none"
      /\ pass.claims = {}
      /\ intent = {} /\ recovering = {} /\ process.state = "running"
      /\ \A c \in Checker : check[c] = "none"
      /\ \A r \in Run : question[r] = "none"
  BY DEF SchedulerInit, NoWorker, Idle
<1>4. AskersHalt(node, run)
  BY <1>2 DEF AskersHalt, NodeWaiting
<1> QED BY <1>1, <1>3, <1>4, Runs
        DEF AnswersInv, OnceDecided, ChecksTrue, Asked, AttemptsMade, NoneWhenDown, Heard

LEMMA HeardAnswers == AnswersInv => AnswersAreHeard
<1> SUFFICES ASSUME AnswersInv, NEW r \in Run, Unheard(r)
             PROVE  run[r].status = "waiting_for_input" /\ process.life > 1
  BY DEF AnswersAreHeard
<1>1. ~CalmRun(r) /\ r \notin recovering /\ check[r] = "none"
  BY DEF Unheard, CalmRun
<1>2. ~Attended(r)
  <2> SUFFICES ASSUME Attended(r), r \in intent
               PROVE  FALSE
    BY <1>1 DEF Attended, Unheard
  <2>1. ActiveIn(r) = {}
    BY DEF Unheard
  <2>2. PICK c \in Checker : RunChecked(c) = r /\ check[c] \in Looking
    BY <1>1, <2>1 DEF Attended, ActiveIn, Active
  <2>3. c \notin Run
    BY <1>1, <2>2, Runs DEF Looking
  <2> QED BY <2>2, <2>3 DEF Unheard, Checker, RunChecked, Looking
<1> QED BY <1>1, <1>2 DEF AnswersInv, Heard, Unheard

(* "Keeping this short-lived coordinator intent prevents the approved Run     *)
(* from being stranded at that boundary" (scheduler.py): an answer meets a    *)
(* run that goes on, or somebody who will still resume it, in any order of    *)
(* the thread that is about to wait, the caller that answers, the threads     *)
(* that look at its intent, close, crash and recovery.                        *)
THEOREM AnswersAreNotLost == SchedulerSpec => []AnswersAreHeard
<1>1. AnswersInv /\ [SchedulerNext]_schedulerVars => AnswersInv'
  BY AnswersStep
<1> QED BY <1>1, InitAnswers, HeardAnswers, PTL DEF SchedulerSpec

=============================================================================
