---------------------------- MODULE CloudRuntime ----------------------------
(***************************************************************************)
(* Cloud preview runtimes: the rows of runtime_leases that Core and the    *)
(* runtime workers share (fairy_cloud/runtime/repository.py), Core's       *)
(* executor that starts and stops a runtime by writing them               *)
(* (runtime/executor.py), the worker loop that claims them                 *)
(* (workers/runtime.py), and the supervisor that owns the processes in the *)
(* worker's container (sandbox/runner/fairy_runtime_supervisor.py).        *)
(*                                                                         *)
(* A claim is good while the row names its owner and its lease_fence.      *)
(* Every claim raises the fence, and a worker has one claim at a time, so  *)
(* holder, the worker of the row's last claim unless the row has been      *)
(* taken away from it, stands for both columns.  Time is abstracted to the *)
(* comparisons with "now": held (lease_expires_at) and over (expires_at).  *)
(***************************************************************************)
EXTENDS Naturals, FiniteSets

CONSTANTS
    Runtime,        \* runtime ids
    Worker,         \* worker loops, each in a container of its own
    RequestCap,     \* bound on the fences of Core's requests
    None            \* no worker

ASSUME RuntimeAssumption ==
    /\ RequestCap \in Nat \ {0}
    /\ None \notin Worker

VARIABLES
    lease,          \* runtime_leases
    caller,         \* Core's lifecycle call for a runtime; Core serializes them
    worker,         \* the claim a worker is carrying out
    host            \* state.json and the processes, per container and runtime

vars == <<lease, caller, worker, host>>

Request == 1..RequestCap
Claimable == {"starting", "running", "stopping"}
Status == Claimable \union {"absent", "queued", "stopped", "interrupted"}

NoLease == [status |-> "absent", request |-> 0, holder |-> None, held |-> FALSE,
            over |-> FALSE, at |-> None]
NoClaim == [stage |-> "idle", runtime |-> None, action |-> "none", request |-> 0]
NoState == [request |-> 0, status |-> "none", process |-> "dead", stray |-> FALSE]

(* Every row, claim and state file has its type. *)
RuntimeTypeOK ==
    /\ lease \in [Runtime -> [status : Status, request : 0..RequestCap,
                              holder : Worker \union {None}, held : BOOLEAN,
                              over : BOOLEAN, at : Worker \union {None}]]
    /\ caller \in [Runtime -> [stage : {"idle", "starting", "giving_up", "stopping"},
                               request : 0..RequestCap]]
    /\ worker \in [Worker -> [stage : {"idle", "polling", "called", "done", "failed"},
                              runtime : Runtime \union {None},
                              action : {"none", "start", "stop"}, request : 0..RequestCap]]
    /\ host \in [Worker -> [Runtime ->
                    [request : 0..RequestCap, status : {"none", "running", "stopped", "interrupted"},
                     process : {"dead", "ready", "hung"}, stray : BOOLEAN]]]

Init ==
    /\ lease = [r \in Runtime |-> NoLease]
    /\ caller = [r \in Runtime |-> [stage |-> "idle", request |-> 0]]
    /\ worker = [w \in Worker |-> NoClaim]
    /\ host = [w \in Worker |-> [r \in Runtime |-> NoState]]

-----------------------------------------------------------------------------
(* Core: CloudRuntimeExecutor and the rows it writes.                        *)

(* The row is taken away from its holder.                                    *)
TakenBack(row, status) == [row EXCEPT !.status = status, !.holder = None, !.held = FALSE]

(* request_stop: a row of another request is refused, a stopped one stays.   *)
StopRequested(row, f) ==
    IF row.request # f \/ row.status \in {"absent", "stopped"} THEN row
    ELSE TakenBack(row, "stopping")

(* start_dynamic enqueues a request: a new row, the row of the same request, *)
(* or the row of an interrupted one that it replaces.  Otherwise the runtime *)
(* is bound to another request and the call fails.                           *)
Enqueue(r, f) ==
    LET row == lease[r]
        replaces == row.status = "interrupted" /\ f > row.request
        fresh == [NoLease EXCEPT !.status = "queued", !.request = f]
    IN  /\ caller[r].stage = "idle"
        /\ f \in {caller[r].request, caller[r].request + 1}
        /\ \/ /\ row.status = "absent" \/ replaces
              /\ lease' = [lease EXCEPT ![r] = fresh]
              /\ caller' = [caller EXCEPT ![r] = [stage |-> "starting", request |-> f]]
           \/ /\ row.status # "absent" /\ ~replaces
              /\ caller' = [caller EXCEPT ![r] =
                    [stage |-> IF row.request = f THEN "starting" ELSE "idle", request |-> f]]
              /\ UNCHANGED lease
        /\ UNCHANGED <<worker, host>>

(* _await sees the request running and start_dynamic returns; or the worker  *)
(* failed, or the wait took too long, and the request is given up.           *)
StartReturns(r) ==
    /\ caller[r].stage = "starting"
    /\ lease[r].status = "running"
    /\ lease[r].request = caller[r].request
    /\ caller' = [caller EXCEPT ![r].stage = "idle"]
    /\ UNCHANGED <<lease, worker, host>>

StartFails(r) ==
    /\ caller[r].stage = "starting"
    /\ caller' = [caller EXCEPT ![r].stage = "giving_up"]
    /\ UNCHANGED <<lease, worker, host>>

GiveUpStart(r) ==
    /\ caller[r].stage = "giving_up"
    /\ lease' = [lease EXCEPT ![r] = StopRequested(@, caller[r].request)]
    /\ caller' = [caller EXCEPT ![r].stage = "idle"]
    /\ UNCHANGED <<worker, host>>

RequestStop(r) ==
    /\ caller[r].stage = "idle"
    /\ lease[r].status # "absent"
    /\ lease[r].request = caller[r].request
    /\ lease' = [lease EXCEPT ![r] = StopRequested(@, caller[r].request)]
    /\ caller' = [caller EXCEPT ![r].stage = "stopping"]
    /\ UNCHANGED <<worker, host>>

(* stop returns when the row is stopped, and fails when the worker did or    *)
(* the wait took too long.                                                   *)
StopEnds(r) ==
    /\ caller[r].stage = "stopping"
    /\ caller' = [caller EXCEPT ![r].stage = "idle"]
    /\ UNCHANGED <<lease, worker, host>>

CoreCrashes(r) ==
    /\ caller[r].stage # "idle"
    /\ caller' = [caller EXCEPT ![r].stage = "idle"]
    /\ UNCHANGED <<lease, worker, host>>

-----------------------------------------------------------------------------
(* The worker: run_once.                                                     *)

(* expire_due: every open runtime past its lifetime is to be stopped.        *)
ExpireDue(w) ==
    /\ worker[w].stage = "idle"
    /\ lease' = [r \in Runtime |->
          IF lease[r].over /\ lease[r].status \in {"queued", "starting", "running"}
          THEN TakenBack(lease[r], "stopping") ELSE lease[r]]
    /\ worker' = [worker EXCEPT ![w].stage = "polling"]
    /\ UNCHANGED <<caller, host>>

FaultyEligible(r) ==
    /\ ~lease[r].over
    /\ \/ lease[r].status = "queued"
       \/ lease[r].status \in {"starting", "running"} /\ ~lease[r].held
(* build_claim_runtime_statement: new rows, and open ones whose lease lapsed. *)
Eligible(r) ==
    /\ ~lease[r].over
    /\ \/ lease[r].status = "queued"
       \/ lease[r].status \in Claimable /\ ~lease[r].held

Claim(w, r) ==
    /\ worker[w].stage = "polling"
    /\ Eligible(r)
    /\ lease' = [lease EXCEPT ![r] = [lease[r] EXCEPT
          !.status = IF lease[r].status = "queued" THEN "starting" ELSE lease[r].status,
          !.holder = w,
          !.held = TRUE]]
    /\ worker' = [worker EXCEPT ![w] =
          [stage |-> "called", runtime |-> r, request |-> lease[r].request,
           action |-> IF lease[r].status = "stopping" THEN "stop" ELSE "start"]]
    /\ UNCHANGED <<caller, host>>

NothingToClaim(w) ==
    /\ worker[w].stage = "polling"
    /\ \A r \in Runtime : ~Eligible(r)
    /\ worker' = [worker EXCEPT ![w] = NoClaim]
    /\ UNCHANGED <<lease, caller, host>>

Called(w, action) == worker[w].stage = "called" /\ worker[w].action = action

Answers(w, answer) == worker' = [worker EXCEPT ![w].stage = answer]

(* The supervisor loses sight of processes that its record does not call     *)
(* running: nothing will ever stop them.                                     *)
Forsaken(s) == s.stray \/ (s.process # "dead" /\ s.status # "running")

(* _start_runtime_locked.  The processes of an older request are stopped     *)
(* first, those of this request that do not answer are not.                  *)
Started(s, f) ==
    [request |-> f, status |-> "running", process |-> "ready",
     stray |-> IF s.request = f THEN s.stray \/ s.process # "dead" ELSE Forsaken(s)]

(* A start that fails or is killed by its timeout after it has come that far *)
(* leaves the old record; killed, it leaves its own processes as well.       *)
StartBroken(s, f, killed) ==
    [s EXCEPT !.process = IF s.request # f THEN "dead" ELSE @,
              !.stray = IF s.request # f THEN killed \/ Forsaken(s) ELSE killed \/ @]

FaultyAlreadyRunning(s, f) == s.status = "running" /\ s.process = "ready"
(* A start of the request that runs already is answered from the record.     *)
AlreadyRunning(s, f) == s.request = f /\ s.status = "running" /\ s.process = "ready"

SupervisorStarts(w) ==
    LET r == worker[w].runtime
        f == worker[w].request
        s == host[w][r]
    IN  /\ Called(w, "start")
        /\ \/ AlreadyRunning(s, f) /\ UNCHANGED host /\ Answers(w, "done")
           \/ /\ s.request > f
              /\ UNCHANGED host /\ Answers(w, "failed")
           \/ /\ ~AlreadyRunning(s, f) /\ s.request <= f
              /\ \/ host' = [host EXCEPT ![w][r] = Started(s, f)] /\ Answers(w, "done")
                 \/ /\ \E killed \in BOOLEAN : host' = [host EXCEPT ![w][r] = StartBroken(s, f, killed)]
                    /\ Answers(w, "failed")
        /\ UNCHANGED <<lease, caller>>

(* _stop_runtime_locked: the record must be the one of this request, and its *)
(* processes are stopped if it calls them running.                           *)
FaultyStopped(s) == [s EXCEPT !.status = "stopped"]
Stopped(s) == [s EXCEPT !.status = "stopped", !.process = "dead", !.stray = Forsaken(s)]

SupervisorStops(w) ==
    LET r == worker[w].runtime
        s == host[w][r]
    IN  /\ Called(w, "stop")
        /\ IF s.request = worker[w].request
           THEN host' = [host EXCEPT ![w][r] = Stopped(s)] /\ Answers(w, "done")
           ELSE UNCHANGED host /\ Answers(w, "failed")
        /\ UNCHANGED <<lease, caller>>

(* The supervisor could not be run at all. *)
SupervisorUnreachable(w) ==
    /\ worker[w].stage = "called"
    /\ Answers(w, "failed")
    /\ UNCHANGED <<lease, caller, host>>

(* _fenced_update: only the holder of the row's last claim may write it, and *)
(* only from these statuses.                                                 *)
FaultyFencedUpdate(w, r, statuses, row) ==
    lease' = [lease EXCEPT ![r] = IF lease[r].holder \in {w, None} THEN row ELSE @]
FencedUpdate(w, r, statuses, row) ==
    lease' = [lease EXCEPT ![r] =
        IF lease[r].holder = w /\ lease[r].status \in statuses THEN row ELSE @]

MarkRunning(w) ==
    LET r == worker[w].runtime
    IN  /\ worker[w].stage = "done" /\ worker[w].action = "start"
        /\ FencedUpdate(w, r, {"starting", "running"},
                        [lease[r] EXCEPT !.status = "running", !.at = w])
        /\ worker' = [worker EXCEPT ![w] = NoClaim]
        /\ UNCHANGED <<caller, host>>

MarkStopped(w) ==
    LET r == worker[w].runtime
    IN  /\ worker[w].stage = "done" /\ worker[w].action = "stop"
        /\ FencedUpdate(w, r, {"stopping"}, TakenBack(lease[r], "stopped"))
        /\ worker' = [worker EXCEPT ![w] = NoClaim]
        /\ UNCHANGED <<caller, host>>

MarkInterrupted(w) ==
    LET r == worker[w].runtime
    IN  /\ worker[w].stage = "failed"
        /\ FencedUpdate(w, r, Claimable, TakenBack(lease[r], "interrupted"))
        /\ worker' = [worker EXCEPT ![w] = NoClaim]
        /\ UNCHANGED <<caller, host>>

(* An error outside of the supervisor ends the cycle; the claim lapses.      *)
CycleFails(w) ==
    /\ worker[w].stage # "idle"
    /\ worker' = [worker EXCEPT ![w] = NoClaim]
    /\ UNCHANGED <<lease, caller, host>>

(* The container restarts: its processes and its state files are gone.       *)
ContainerRestarts(w) ==
    /\ worker' = [worker EXCEPT ![w] = NoClaim]
    /\ host' = [host EXCEPT ![w] = [r \in Runtime |-> NoState]]
    /\ UNCHANGED <<lease, caller>>

(* The gateway probes before it forwards a request to a running runtime; the *)
(* supervisor takes processes that do not answer for interrupted.            *)
Probe(w, r) ==
    LET s == host[w][r]
    IN  /\ lease[r].status = "running" /\ ~lease[r].over
        /\ s.request = lease[r].request
        /\ s.status = "running" /\ s.process # "ready"
        /\ host' = [host EXCEPT ![w][r].status = "interrupted"]
        /\ UNCHANGED <<lease, caller, worker>>

-----------------------------------------------------------------------------
(* Time, and the processes of a preview.                                     *)

LeaseLapses(r) ==
    /\ lease[r].held
    /\ lease' = [lease EXCEPT ![r].held = FALSE]
    /\ UNCHANGED <<caller, worker, host>>

LifetimeEnds(r) ==
    /\ lease[r].status # "absent"
    /\ ~lease[r].over
    /\ lease' = [lease EXCEPT ![r].over = TRUE]
    /\ UNCHANGED <<caller, worker, host>>

ProcessChanges(w, r) ==
    /\ host[w][r].process # "dead"
    /\ \E p \in {"dead", "ready", "hung"} \ {host[w][r].process} :
          host' = [host EXCEPT ![w][r].process = p]
    /\ UNCHANGED <<lease, caller, worker>>

CoreStep(r) ==
    \/ \E f \in Request : Enqueue(r, f)
    \/ StartReturns(r)
    \/ StartFails(r)
    \/ GiveUpStart(r)
    \/ RequestStop(r)
    \/ StopEnds(r)
    \/ CoreCrashes(r)

WorkerStep(w) ==
    \/ ExpireDue(w)
    \/ \E r \in Runtime : Claim(w, r)
    \/ NothingToClaim(w)
    \/ SupervisorStarts(w)
    \/ SupervisorStops(w)
    \/ MarkRunning(w)
    \/ MarkStopped(w)
    \/ MarkInterrupted(w)

Trouble(w) == SupervisorUnreachable(w) \/ CycleFails(w) \/ ContainerRestarts(w)

Next ==
    \/ \E r \in Runtime : CoreStep(r) \/ LeaseLapses(r) \/ LifetimeEnds(r)
    \/ \E w \in Worker : WorkerStep(w) \/ Trouble(w)
    \/ \E w \in Worker, r \in Runtime : Probe(w, r) \/ ProcessChanges(w, r)

Spec == Init /\ [][Next]_vars

(* The loop polls for as long as its container runs, leases lapse with time, *)
(* and trouble does not strike every cycle.                                  *)
Fairness ==
    /\ \A r \in Runtime : WF_vars(LeaseLapses(r))
    /\ \A w \in Worker :
          /\ WF_vars(WorkerStep(w))
          /\ \A r \in Runtime : SF_vars(Claim(w, r))
          /\ SF_vars(SupervisorStops(w))
          /\ SF_vars(MarkStopped(w) \/ MarkInterrupted(w))

FairSpec == Spec /\ Fairness

-----------------------------------------------------------------------------
(* Properties *)

(* A row that says running is backed by the container that reported it: the  *)
(* supervisor there has recorded a start of this very request, and no stop   *)
(* since, unless the container has been replaced.  A start that comes back   *)
(* late, after a stop request, a retry or another claim, never makes it so.  *)
RunningIsBacked ==
    \A r \in Runtime : lease[r].status = "running" =>
        /\ lease[r].at # None
        /\ LET s == host[lease[r].at][r]
           IN  s.request # 0 => s.request = lease[r].request /\ s.status # "stopped"

(* A stop request, or the end of a runtime's lifetime, is never undone by    *)
(* the answer to a start that was under way.                                 *)
StopIsNotUndone ==
    [][\A r \in Runtime : lease[r].status = "stopping"
          => lease'[r].status \in {"stopping", "stopped", "interrupted"}]_vars

(* With one worker container, as compose.yaml deploys it, a runtime that is  *)
(* reported as stopped has no processes but strays that the supervisor lost  *)
(* sight of before.                                                          *)
StoppedMeansStopped ==
    \A w \in Worker, r \in Runtime :
        Worker = {w} /\ lease[r].status = "stopped" => host[w][r].process = "dead"

(* Once Core stops asking again, a stop request of a runtime within its      *)
(* lifetime is carried out or reported as interrupted, whatever becomes of   *)
(* the cycles that try.  (Each request takes the row back from the worker    *)
(* that is about to report it, so a Core that asks for ever gets no answer.) *)
StopsAreCarriedOut ==
    \A r \in Runtime :
        <>[][~(RequestStop(r) \/ GiveUpStart(r))]_vars =>
            (lease[r].status = "stopping" /\ ~lease[r].over
                ~> lease[r].status \in {"stopped", "interrupted"} \/ lease[r].over)

=============================================================================
