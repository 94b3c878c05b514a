------------------------- MODULE CloudRuntimeProofs -------------------------
(***************************************************************************)
(* Safety of cloud preview runtimes for any number of runtimes, worker     *)
(* containers and requests.  What a worker may still do with an old claim  *)
(* is the core of it: a claim's request is never newer than the row's, a   *)
(* worker that the row names works on the row's own request, and a stop    *)
(* that is under way rules out that its request ever runs again.           *)
(***************************************************************************)
EXTENDS CloudRuntime, TLAPS

Working(w) == worker[w].stage \in {"called", "done", "failed"}

(* What the claim a worker carries out has to do with the row.               *)
ClaimOf(w) ==
    LET c == worker[w]
        row == lease[c.runtime]
    IN  /\ c.runtime \in Runtime
        /\ row.status # "absent"
        /\ c.request <= row.request
        /\ w \in {row.holder, row.at} => c.request = row.request
        /\ c.action = "stop" => c.request < row.request
                                \/ row.status \in {"stopping", "stopped", "interrupted"}

ClaimsOK == \A w \in Worker : Working(w) => ClaimOf(w)

(* What the supervisor's answer says about its record.                       *)
AnswerOf(w) ==
    LET c == worker[w]
        s == host[w][c.runtime]
    IN  /\ c.action = "start" => s.request = c.request /\ s.status # "stopped"
        /\ c.action = "stop" => s.process = "dead"

AnswersOK == \A w \in Worker : worker[w].stage = "done" => AnswerOf(w)

(* A single worker has no claim on a runtime that is stopped.                *)
StoppedIsLeft ==
    \A w \in Worker, r \in Runtime :
        Worker = {w} /\ lease[r].status = "stopped" => ~(Working(w) /\ worker[w].runtime = r)

RuntimeInv ==
    /\ RuntimeTypeOK
    /\ ClaimsOK
    /\ AnswersOK
    /\ RunningIsBacked
    /\ StoppedIsLeft
    /\ StoppedMeansStopped
RowType == [status : Status, request : 0..RequestCap, holder : Worker \union {None}, held : BOOLEAN,
            over : BOOLEAN, at : Worker \union {None}]
ClaimType == [stage : {"idle", "polling", "called", "done", "failed"}, runtime : Runtime \union {None},
              action : {"none", "start", "stop"}, request : 0..RequestCap]
StateType == [request : 0..RequestCap, status : {"none", "running", "stopped", "interrupted"},
              process : {"dead", "ready", "hung"}, stray : BOOLEAN]

CallType == [stage : {"idle", "starting", "giving_up", "stopping"}, request : 0..RequestCap]

LEMMA TypeParts ==
    RuntimeTypeOK <=> /\ lease \in [Runtime -> RowType]
                      /\ caller \in [Runtime -> CallType]
                      /\ worker \in [Worker -> ClaimType]
                      /\ host \in [Worker -> [Runtime -> StateType]]
BY DEF RuntimeTypeOK, RowType, CallType, ClaimType, StateType

LEMMA TypesNext ==
    ASSUME lease' \in [Runtime -> RowType], caller' \in [Runtime -> CallType],
           worker' \in [Worker -> ClaimType], host' \in [Worker -> [Runtime -> StateType]]
    PROVE  RuntimeTypeOK'
BY DEF RuntimeTypeOK, RowType, CallType, ClaimType, StateType

(* What taking a row back makes of it. *)
LEMMA TakenBackRow ==
    ASSUME NEW row \in RowType, NEW status \in Status
    PROVE  /\ TakenBack(row, status) \in RowType
           /\ TakenBack(row, status).status = status
           /\ TakenBack(row, status).request = row.request
           /\ TakenBack(row, status).at = row.at
           /\ TakenBack(row, status).holder = None
BY DEF TakenBack, RowType

LEMMA Statuses == {"absent", "queued", "starting", "running", "stopping", "stopped", "interrupted"} \subseteq Status
BY DEF Status, Claimable

LEMMA NoClaimType == NoClaim \in ClaimType /\ NoClaim.stage = "idle"
BY RuntimeAssumption DEF NoClaim, ClaimType

LEMMA RuntimeInit == Init => RuntimeInv
<1> SUFFICES ASSUME Init PROVE RuntimeInv
  OBVIOUS
<1>1. RuntimeTypeOK
  BY RuntimeAssumption DEF Init, RuntimeTypeOK, NoLease, NoClaim, NoState, Status, Claimable
<1>2. \A r \in Runtime : lease[r].status = "absent"
  BY DEF Init, NoLease
<1>3. \A w \in Worker : worker[w].stage = "idle"
  BY DEF Init, NoClaim
<1> QED
  BY <1>1, <1>2, <1>3 DEF RuntimeInv, ClaimsOK, AnswersOK, Working, RunningIsBacked, StoppedIsLeft,
     StoppedMeansStopped

-----------------------------------------------------------------------------
(* Steps that give work up: rows are taken back, claims end.                 *)

Gentle(r) ==
    /\ lease'[r].request = lease[r].request
    /\ lease'[r].at = lease[r].at
    /\ lease'[r].holder \in {lease[r].holder, None}
    /\ \/ lease'[r].status = lease[r].status
       \/ lease'[r].status \in {"stopping", "interrupted"} /\ lease[r].status \notin {"absent", "stopped"}

LEMMA GivenUp ==
    ASSUME RuntimeInv, RuntimeTypeOK', host' = host,
           \A r \in Runtime : Gentle(r),
           \A w \in Worker : worker'[w] = worker[w] \/ worker'[w].stage \in {"idle", "polling"}
    PROVE  RuntimeInv'
<1> USE DEF Gentle
<1>1. ASSUME NEW w \in Worker, Working(w)' PROVE Working(w) /\ worker'[w] = worker[w]
  BY <1>1 DEF Working
<1>2. ClaimsOK'
  <2> SUFFICES ASSUME NEW w \in Worker, Working(w)' PROVE ClaimOf(w)'
    BY DEF ClaimsOK
  <2>1. ClaimOf(w) /\ worker'[w] = worker[w]
    BY <1>1 DEF RuntimeInv, ClaimsOK
  <2> QED
    BY <2>1, RuntimeAssumption DEF ClaimOf
<1>3. AnswersOK'
  BY <1>1 DEF RuntimeInv, AnswersOK, AnswerOf, Working
<1>4. RunningIsBacked' /\ StoppedMeansStopped'
  BY DEF RuntimeInv, RunningIsBacked, StoppedMeansStopped
<1>5. StoppedIsLeft'
  BY <1>1 DEF RuntimeInv, StoppedIsLeft
<1> QED
  BY <1>2, <1>3, <1>4, <1>5 DEF RuntimeInv

LEMMA CallerStep ==
    ASSUME RuntimeInv, NEW r \in Runtime, StartReturns(r) \/ StartFails(r) \/ StopEnds(r) \/ CoreCrashes(r)
    PROVE  RuntimeInv'
<1>1. UNCHANGED <<lease, worker, host>>
  BY DEF StartReturns, StartFails, StopEnds, CoreCrashes
<1>2. PICK stage \in {"idle", "starting", "giving_up", "stopping"} : caller' = [caller EXCEPT ![r].stage = stage]
  BY DEF StartReturns, StartFails, StopEnds, CoreCrashes
<1>3. caller' \in [Runtime -> CallType]
  BY <1>2, TypeParts DEF RuntimeInv, CallType
<1>4. RuntimeTypeOK'
  BY <1>1, <1>3, TypeParts, TypesNext DEF RuntimeInv
<1> QED
  BY <1>1, <1>4, GivenUp DEF Gentle

LEMMA StopRequestStep ==
    ASSUME RuntimeInv, NEW r \in Runtime, GiveUpStart(r) \/ RequestStop(r)
    PROVE  RuntimeInv'
<1> DEFINE row == StopRequested(lease[r], caller[r].request)
<1>1. UNCHANGED <<worker, host>> /\ lease' = [lease EXCEPT ![r] = row]
  BY DEF GiveUpStart, RequestStop
<1>2. lease \in [Runtime -> RowType] /\ lease[r] \in RowType /\ "stopping" \in Status
  BY TypeParts, Statuses DEF RuntimeInv
<1>3. /\ row \in RowType /\ row.request = lease[r].request /\ row.at = lease[r].at
      /\ row.holder \in {lease[r].holder, None}
      /\ \/ row.status = lease[r].status
         \/ row.status = "stopping" /\ lease[r].status \notin {"absent", "stopped"}
  <2>1. \/ row = lease[r]
        \/ row = TakenBack(lease[r], "stopping") /\ lease[r].status \notin {"absent", "stopped"}
    BY DEF StopRequested
  <2> HIDE DEF row
  <2>2. CASE row = lease[r]
    BY <1>2, <2>2
  <2>3. CASE row = TakenBack(lease[r], "stopping") /\ lease[r].status \notin {"absent", "stopped"}
    <3>1. /\ TakenBack(lease[r], "stopping") \in RowType
          /\ TakenBack(lease[r], "stopping").status = "stopping"
          /\ TakenBack(lease[r], "stopping").request = lease[r].request
          /\ TakenBack(lease[r], "stopping").at = lease[r].at
          /\ TakenBack(lease[r], "stopping").holder = None
      BY <1>2, TakenBackRow
    <3> QED
      BY <2>3, <3>1
  <2> QED
    BY <2>1, <2>2, <2>3
<1> HIDE DEF row
<1>4. PICK stage \in {"idle", "stopping"} : caller' = [caller EXCEPT ![r].stage = stage]
  BY DEF GiveUpStart, RequestStop
<1>5. caller' \in [Runtime -> CallType]
  BY <1>4, TypeParts DEF RuntimeInv, CallType
<1>6. lease' \in [Runtime -> RowType]
  BY <1>1, <1>2, <1>3
<1>7. RuntimeTypeOK'
  BY <1>1, <1>5, <1>6, TypeParts, TypesNext DEF RuntimeInv
<1>8. \A q \in Runtime : Gentle(q)
  BY <1>1, <1>2, <1>3 DEF Gentle
<1> QED
  BY <1>1, <1>7, <1>8, GivenUp

LEMMA ExpireStep ==
    ASSUME RuntimeInv, NEW w \in Worker, ExpireDue(w)
    PROVE  RuntimeInv'
<1>1. \A r \in Runtime :
          \/ lease'[r] = lease[r]
          \/ lease'[r] = TakenBack(lease[r], "stopping") /\ lease[r].status \notin {"absent", "stopped"}
  BY DEF ExpireDue
<1>2. lease \in [Runtime -> RowType] /\ worker \in [Worker -> ClaimType] /\ "stopping" \in Status
  BY TypeParts, Statuses DEF RuntimeInv
<1>3. lease' \in [Runtime -> RowType]
  BY <1>1, <1>2, TakenBackRow DEF ExpireDue
<1>4. worker' \in [Worker -> ClaimType]
  BY <1>2 DEF ExpireDue, ClaimType
<1>5. RuntimeTypeOK'
  BY <1>3, <1>4, TypeParts, TypesNext DEF RuntimeInv, ExpireDue
<1>6. \A r \in Runtime : Gentle(r)
  BY <1>1, <1>2, TakenBackRow DEF Gentle
<1>7. \A v \in Worker : worker'[v] = worker[v] \/ worker'[v].stage \in {"idle", "polling"}
  BY <1>2 DEF ExpireDue, ClaimType
<1> QED
  BY <1>5, <1>6, <1>7, GivenUp DEF ExpireDue

LEMMA TimeStep ==
    ASSUME RuntimeInv, NEW r \in Runtime, LeaseLapses(r) \/ LifetimeEnds(r)
    PROVE  RuntimeInv'
<1>1. /\ UNCHANGED <<caller, worker, host>>
      /\ lease' = [lease EXCEPT ![r].held = FALSE] \/ lease' = [lease EXCEPT ![r].over = TRUE]
  BY DEF LeaseLapses, LifetimeEnds
<1>2. lease \in [Runtime -> RowType]
  BY TypeParts DEF RuntimeInv
<1>3. lease' \in [Runtime -> RowType] /\ \A q \in Runtime : Gentle(q)
  <2>1. CASE lease' = [lease EXCEPT ![r].held = FALSE]
    BY <2>1, <1>2 DEF RowType, Gentle
  <2>2. CASE lease' = [lease EXCEPT ![r].over = TRUE]
    BY <2>2, <1>2 DEF RowType, Gentle
  <2> QED
    BY <1>1, <2>1, <2>2
<1>4. RuntimeTypeOK'
  BY <1>1, <1>3, TypeParts, TypesNext DEF RuntimeInv
<1> QED
  BY <1>1, <1>3, <1>4, GivenUp

LEMMA EndOfCycleStep ==
    ASSUME RuntimeInv, NEW w \in Worker, NothingToClaim(w) \/ CycleFails(w)
    PROVE  RuntimeInv'
<1>1. UNCHANGED <<lease, caller, host>> /\ worker' = [worker EXCEPT ![w] = NoClaim]
  BY DEF NothingToClaim, CycleFails
<1>2. worker \in [Worker -> ClaimType]
  BY TypeParts DEF RuntimeInv
<1>3. RuntimeTypeOK'
  BY <1>1, <1>2, NoClaimType, TypeParts, TypesNext DEF RuntimeInv
<1>4. \A v \in Worker : worker'[v] = worker[v] \/ worker'[v].stage \in {"idle", "polling"}
  BY <1>1, <1>2, NoClaimType
<1> QED
  BY <1>1, <1>3, <1>4, GivenUp DEF Gentle

LEMMA InterruptedStep ==
    ASSUME RuntimeInv, NEW w \in Worker, MarkInterrupted(w)
    PROVE  RuntimeInv'
<1> DEFINE r == worker[w].runtime
<1>1. r \in Runtime
  BY DEF RuntimeInv, ClaimsOK, ClaimOf, Working, MarkInterrupted
<1>2. /\ lease \in [Runtime -> RowType] /\ worker \in [Worker -> ClaimType]
      /\ lease[r] \in RowType /\ "interrupted" \in Status
  BY <1>1, TypeParts, Statuses DEF RuntimeInv
<1>3. \/ lease' = [lease EXCEPT ![r] = lease[r]]
      \/ /\ lease' = [lease EXCEPT ![r] = TakenBack(lease[r], "interrupted")]
         /\ lease[r].status \notin {"absent", "stopped"}
  BY DEF MarkInterrupted, FencedUpdate, Claimable
<1>4. UNCHANGED <<caller, host>> /\ worker' = [worker EXCEPT ![w] = NoClaim]
  BY DEF MarkInterrupted
<1> HIDE DEF r
<1>5. lease' \in [Runtime -> RowType] /\ \A q \in Runtime : Gentle(q)
  BY <1>1, <1>2, <1>3, TakenBackRow DEF Gentle
<1>6. RuntimeTypeOK'
  BY <1>2, <1>4, <1>5, NoClaimType, TypeParts, TypesNext DEF RuntimeInv
<1>7. \A v \in Worker : worker'[v] = worker[v] \/ worker'[v].stage \in {"idle", "polling"}
  BY <1>2, <1>4, NoClaimType
<1> QED
  BY <1>4, <1>5, <1>6, <1>7, GivenUp

-----------------------------------------------------------------------------
(* Core asks for a runtime, a worker claims it. *)

LEMMA EnqueueStep ==
    ASSUME RuntimeInv, NEW r \in Runtime, NEW f \in Request, Enqueue(r, f)
    PROVE  RuntimeInv'
<1> DEFINE fresh == [NoLease EXCEPT !.status = "queued", !.request = f]
<1>1. lease \in [Runtime -> RowType] /\ caller \in [Runtime -> CallType]
  BY TypeParts DEF RuntimeInv
<1>2. UNCHANGED <<worker, host>>
  BY DEF Enqueue
<1>3. f \in 0..RequestCap /\ f > 0
  BY RuntimeAssumption DEF Request
<1>4. caller' \in [Runtime -> CallType]
  BY <1>1, <1>3 DEF Enqueue, CallType
<1>5. CASE UNCHANGED lease
  BY <1>2, <1>4, <1>5, GivenUp, TypeParts, TypesNext DEF Gentle, RuntimeInv
<1>6. CASE /\ lease' = [lease EXCEPT ![r] = fresh]
           /\ lease[r].status = "absent" \/ (lease[r].status = "interrupted" /\ f > lease[r].request)
  <2>1. /\ fresh \in RowType /\ fresh.status = "queued" /\ fresh.request = f
        /\ fresh.holder = None /\ fresh.at = None
    BY <1>3, Statuses DEF NoLease, RowType
  <2> HIDE DEF fresh
  <2>2. RuntimeTypeOK'
    BY <1>1, <1>2, <1>4, <1>6, <2>1, TypeParts, TypesNext DEF RuntimeInv
  <2>3. ASSUME NEW q \in Runtime PROVE lease'[q] = (IF q = r THEN fresh ELSE lease[q])
    BY <1>1, <1>6
  <2>4. ClaimsOK'
    <3> SUFFICES ASSUME NEW w \in Worker, Working(w) PROVE ClaimOf(w)'
      BY <1>2 DEF ClaimsOK, Working
    <3>1. ClaimOf(w)
      BY DEF RuntimeInv, ClaimsOK
    <3>2. CASE worker[w].runtime = r
      <4>1. worker[w].request \in Nat /\ lease[r].request \in Nat
        BY TypeParts DEF RuntimeInv, ClaimType, RowType
      <4> QED
        BY <1>2, <1>3, <1>6, <2>1, <2>3, <3>1, <3>2, <4>1, RuntimeAssumption DEF ClaimOf
    <3>3. CASE worker[w].runtime # r
      BY <1>2, <2>3, <3>1, <3>3 DEF ClaimOf
    <3> QED
      BY <3>2, <3>3
  <2>5. AnswersOK'
    BY <1>2 DEF RuntimeInv, AnswersOK, AnswerOf
  <2>6. RunningIsBacked' /\ StoppedIsLeft' /\ StoppedMeansStopped'
    BY <1>2, <2>1, <2>3 DEF RuntimeInv, RunningIsBacked, StoppedIsLeft, StoppedMeansStopped, Working
  <2> QED
    BY <2>2, <2>4, <2>5, <2>6 DEF RuntimeInv
<1> QED
  BY <1>5, <1>6 DEF Enqueue

LEMMA ClaimStep ==
    ASSUME RuntimeInv, NEW w \in Worker, NEW r \in Runtime, Claim(w, r)
    PROVE  RuntimeInv'
<1> DEFINE row == [lease[r] EXCEPT !.status = IF lease[r].status = "queued" THEN "starting" ELSE lease[r].status,
                                   !.holder = w, !.held = TRUE]
           claim == [stage |-> "called", runtime |-> r, request |-> lease[r].request,
                     action |-> IF lease[r].status = "stopping" THEN "stop" ELSE "start"]
<1>1. /\ lease \in [Runtime -> RowType] /\ worker \in [Worker -> ClaimType] /\ lease[r] \in RowType
  BY TypeParts DEF RuntimeInv
<1>2. /\ lease' = [lease EXCEPT ![r] = row] /\ worker' = [worker EXCEPT ![w] = claim]
      /\ UNCHANGED <<caller, host>>
  BY DEF Claim
<1>3. lease[r].status \in {"queued", "starting", "running", "stopping"}
  BY DEF Claim, Eligible, Claimable
<1>4. /\ row \in RowType /\ row.request = lease[r].request /\ row.at = lease[r].at /\ row.holder = w
      /\ row.status = lease[r].status \/ (row.status = "starting" /\ lease[r].status = "queued")
  BY <1>1, Statuses DEF RowType
<1>5. /\ claim \in ClaimType /\ claim.stage = "called" /\ claim.runtime = r
      /\ claim.request = lease[r].request /\ (claim.action = "stop" => lease[r].status = "stopping")
  BY <1>1 DEF RowType, ClaimType
<1> HIDE DEF row, claim
<1>6. \A q \in Runtime : lease'[q] = IF q = r THEN row ELSE lease[q]
  BY <1>1, <1>2
<1>7. \A v \in Worker : worker'[v] = IF v = w THEN claim ELSE worker[v]
  BY <1>1, <1>2
<1>8. RuntimeTypeOK'
  BY <1>1, <1>2, <1>4, <1>5, TypeParts, TypesNext DEF RuntimeInv
<1>9. ClaimsOK'
  <2> SUFFICES ASSUME NEW v \in Worker, Working(v)' PROVE ClaimOf(v)'
    BY DEF ClaimsOK
  <2>1. CASE v = w
    <3>1. lease[r].request \in Nat
      BY <1>1 DEF RowType
    <3> QED
      BY <1>3, <1>4, <1>5, <1>6, <1>7, <2>1, <3>1 DEF ClaimOf
  <2>2. CASE v # w
    <3>1. ClaimOf(v) /\ worker'[v] = worker[v]
      BY <1>7, <2>2 DEF RuntimeInv, ClaimsOK, Working
    <3> QED
      BY <1>3, <1>4, <1>6, <2>2, <3>1 DEF ClaimOf
  <2> QED
    BY <2>1, <2>2
<1>10. AnswersOK'
  BY <1>2, <1>5, <1>7 DEF RuntimeInv, AnswersOK, AnswerOf
<1>11. RunningIsBacked' /\ StoppedMeansStopped'
  <2>1. \A q \in Runtime : /\ lease'[q].status = "running" => lease[q].status = "running"
                           /\ lease'[q].status = "stopped" => lease[q].status = "stopped"
                           /\ lease'[q].at = lease[q].at /\ lease'[q].request = lease[q].request
    BY <1>3, <1>4, <1>6
  <2> QED
    BY <1>2, <2>1 DEF RuntimeInv, RunningIsBacked, StoppedMeansStopped
<1>12. StoppedIsLeft'
  BY <1>3, <1>4, <1>5, <1>6, <1>7 DEF RuntimeInv, StoppedIsLeft, Working
<1> QED
  BY <1>8, <1>9, <1>10, <1>11, <1>12 DEF RuntimeInv

-----------------------------------------------------------------------------
(* The supervisor acts, its container restarts, its processes come and go.   *)

(* A call is answered: of the records only that of the claimed runtime in    *)
(* the worker's container may change.                                        *)
LEMMA Answered ==
    ASSUME RuntimeInv, NEW w \in Worker, worker[w].stage = "called",
           NEW s \in StateType, NEW answer \in {"done", "failed"},
           host' = [host EXCEPT ![w][worker[w].runtime] = s],
           worker' = [worker EXCEPT ![w].stage = answer],
           UNCHANGED <<lease, caller>>,
           s.request \in {host[w][worker[w].runtime].request, worker[w].request},
           s.request = host[w][worker[w].runtime].request \/ worker[w].action = "start",
           s.status = "stopped" => \/ /\ s.request = host[w][worker[w].runtime].request
                                      /\ host[w][worker[w].runtime].status = "stopped"
                                   \/ worker[w].action = "stop" /\ s.request = worker[w].request,
           answer = "done" => /\ worker[w].action = "start" => s.request = worker[w].request /\ s.status # "stopped"
                              /\ worker[w].action = "stop" => s.process = "dead"
    PROVE  RuntimeInv'
<1> DEFINE r == worker[w].runtime
           old == host[w][r]
<1>1. /\ worker \in [Worker -> ClaimType] /\ host \in [Worker -> [Runtime -> StateType]]
      /\ lease \in [Runtime -> RowType]
  BY TypeParts DEF RuntimeInv
<1>2. r \in Runtime /\ ClaimOf(w) /\ Working(w)
  BY DEF RuntimeInv, ClaimsOK, ClaimOf, Working
<1>3. \A v \in Worker, q \in Runtime : host'[v][q] = IF v = w /\ q = r THEN s ELSE host[v][q]
  BY <1>1, <1>2
<1>4. \A v \in Worker : /\ worker'[v].stage = IF v = w THEN answer ELSE worker[v].stage
                        /\ worker'[v].runtime = worker[v].runtime
                        /\ worker'[v].action = worker[v].action
                        /\ worker'[v].request = worker[v].request
  BY <1>1 DEF ClaimType
<1>5. RuntimeTypeOK'
  <2>1. host' \in [Worker -> [Runtime -> StateType]]
    BY <1>1, <1>2
  <2>2. worker' \in [Worker -> ClaimType]
    BY <1>1 DEF ClaimType
  <2> QED
    BY <2>1, <2>2, TypeParts, TypesNext DEF RuntimeInv
<1>6. \A v \in Worker : Working(v)' <=> Working(v)
  BY <1>2, <1>4 DEF Working
<1>7. ClaimsOK'
  BY <1>4, <1>6 DEF RuntimeInv, ClaimsOK, ClaimOf
<1>8. AnswersOK'
  <2> SUFFICES ASSUME NEW v \in Worker, worker'[v].stage = "done" PROVE AnswerOf(v)'
    BY DEF AnswersOK
  <2>1. CASE v = w
    BY <1>2, <1>3, <1>4, <2>1 DEF AnswerOf
  <2>2. CASE v # w
    <3>1. worker[v].stage = "done" /\ AnswerOf(v)
      BY <1>4, <2>2 DEF RuntimeInv, AnswersOK
    <3>2. worker[v].runtime \in Runtime
      BY <3>1 DEF RuntimeInv, ClaimsOK, ClaimOf, Working
    <3> QED
      BY <1>3, <1>4, <2>2, <3>1, <3>2 DEF AnswerOf
  <2> QED
    BY <2>1, <2>2
<1>9. RunningIsBacked'
  <2> SUFFICES ASSUME NEW q \in Runtime, lease[q].status = "running"
               PROVE  /\ lease[q].at # None
                      /\ LET t == host'[lease[q].at][q]
                         IN  t.request # 0 => t.request = lease[q].request /\ t.status # "stopped"
    BY DEF RunningIsBacked
  <2>1. /\ lease[q].at \in Worker
        /\ LET t == host[lease[q].at][q]
           IN  t.request # 0 => t.request = lease[q].request /\ t.status # "stopped"
    BY <1>1 DEF RuntimeInv, RunningIsBacked, RowType
  <2>2. CASE lease[q].at = w /\ q = r
    <3>1. worker[w].request = lease[r].request /\ worker[w].action # "stop"
      BY <1>1, <1>2, <2>2 DEF ClaimOf, RowType
    <3>2. host'[w][r] = s
      BY <1>2, <1>3
    <3> QED
      BY <2>1, <2>2, <3>1, <3>2, RuntimeAssumption
  <2>3. CASE ~(lease[q].at = w /\ q = r)
    BY <1>3, <2>1, <2>3, RuntimeAssumption
  <2> QED
    BY <2>2, <2>3
<1>10. StoppedIsLeft'
  BY <1>4, <1>6 DEF RuntimeInv, StoppedIsLeft
<1>11. StoppedMeansStopped'
  BY <1>2, <1>3 DEF RuntimeInv, StoppedMeansStopped, StoppedIsLeft
<1> QED
  BY <1>5, <1>7, <1>8, <1>9, <1>10, <1>11 DEF RuntimeInv

LEMMA SupervisorStartsStep ==
    ASSUME RuntimeInv, NEW w \in Worker, SupervisorStarts(w)
    PROVE  RuntimeInv'
<1> DEFINE r == worker[w].runtime
           f == worker[w].request
           s == host[w][r]
<1>1. /\ worker \in [Worker -> ClaimType] /\ host \in [Worker -> [Runtime -> StateType]]
      /\ worker[w].stage = "called" /\ worker[w].action = "start"
  BY TypeParts DEF RuntimeInv, SupervisorStarts, Called
<1>2. r \in Runtime /\ s \in StateType /\ f \in 0..RequestCap
  BY <1>1 DEF RuntimeInv, ClaimsOK, ClaimOf, Working, ClaimType
<1>3. UNCHANGED <<lease, caller>>
  BY DEF SupervisorStarts
<1>4. CASE AlreadyRunning(s, f) /\ UNCHANGED host /\ Answers(w, "done")
  <2>1. host' = [host EXCEPT ![w][r] = s]
    BY <1>1, <1>2, <1>4
  <2>2. s.request = f /\ s.status = "running"
    BY <1>4 DEF AlreadyRunning
  <2>3. worker' = [worker EXCEPT ![w].stage = "done"]
    BY <1>4 DEF Answers
  <2> HIDE DEF s, f
  <2> QED
    BY <1>1, <1>2, <1>3, <2>1, <2>2, <2>3, Answered DEF s, f
<1>5. CASE UNCHANGED host /\ Answers(w, "failed")
  <2>1. host' = [host EXCEPT ![w][r] = s]
    BY <1>1, <1>2, <1>5
  <2>2. worker' = [worker EXCEPT ![w].stage = "failed"]
    BY <1>5 DEF Answers
  <2> QED
    BY <1>1, <1>2, <1>3, <2>1, <2>2, Answered
<1>6. CASE host' = [host EXCEPT ![w][r] = Started(s, f)] /\ Answers(w, "done")
  <2> DEFINE t == Started(s, f)
  <2>1. t \in StateType /\ t.request = f /\ t.status = "running"
    BY <1>2 DEF Started, StateType, Forsaken
  <2>2. worker' = [worker EXCEPT ![w].stage = "done"] /\ host' = [host EXCEPT ![w][r] = t]
    BY <1>6 DEF Answers
  <2> HIDE DEF t
  <2> QED
    BY <1>1, <1>3, <2>1, <2>2, Answered
<1>7. ASSUME NEW killed \in BOOLEAN, host' = [host EXCEPT ![w][r] = StartBroken(s, f, killed)], Answers(w, "failed")
      PROVE  RuntimeInv'
  <2> DEFINE t == StartBroken(s, f, killed)
  <2>1. t \in StateType /\ t.request = s.request /\ t.status = s.status
    BY <1>2 DEF StartBroken, StateType, Forsaken
  <2>2. worker' = [worker EXCEPT ![w].stage = "failed"] /\ host' = [host EXCEPT ![w][r] = t]
    BY <1>7 DEF Answers
  <2> HIDE DEF t
  <2> QED
    BY <1>1, <1>3, <2>1, <2>2, Answered
<1> QED
  BY <1>4, <1>5, <1>6, <1>7 DEF SupervisorStarts

LEMMA SupervisorStopsStep ==
    ASSUME RuntimeInv, NEW w \in Worker, SupervisorStops(w)
    PROVE  RuntimeInv'
<1> DEFINE r == worker[w].runtime
           s == host[w][r]
<1>1. /\ worker \in [Worker -> ClaimType] /\ host \in [Worker -> [Runtime -> StateType]]
      /\ worker[w].stage = "called" /\ worker[w].action = "stop"
  BY TypeParts DEF RuntimeInv, SupervisorStops, Called
<1>2. r \in Runtime /\ s \in StateType
  BY <1>1 DEF RuntimeInv, ClaimsOK, ClaimOf, Working
<1>3. UNCHANGED <<lease, caller>>
  BY DEF SupervisorStops
<1>4. CASE UNCHANGED host /\ Answers(w, "failed")
  <2>1. host' = [host EXCEPT ![w][r] = s]
    BY <1>1, <1>2, <1>4
  <2>2. worker' = [worker EXCEPT ![w].stage = "failed"]
    BY <1>4 DEF Answers
  <2> QED
    BY <1>1, <1>2, <1>3, <2>1, <2>2, Answered
<1>5. CASE /\ s.request = worker[w].request
           /\ host' = [host EXCEPT ![w][r] = Stopped(s)] /\ Answers(w, "done")
  <2> DEFINE t == Stopped(s)
  <2>1. t \in StateType /\ t.request = s.request /\ t.process = "dead"
    BY <1>2 DEF Stopped, StateType, Forsaken
  <2>2. worker' = [worker EXCEPT ![w].stage = "done"] /\ host' = [host EXCEPT ![w][r] = t]
    BY <1>5 DEF Answers
  <2> HIDE DEF t
  <2> QED
    BY <1>1, <1>3, <1>5, <2>1, <2>2, Answered
<1> QED
  BY <1>4, <1>5 DEF SupervisorStops

LEMMA UnreachableStep ==
    ASSUME RuntimeInv, NEW w \in Worker, SupervisorUnreachable(w)
    PROVE  RuntimeInv'
<1> DEFINE r == worker[w].runtime
           s == host[w][r]
<1>1. /\ worker \in [Worker -> ClaimType] /\ host \in [Worker -> [Runtime -> StateType]]
      /\ worker[w].stage = "called"
  BY TypeParts DEF RuntimeInv, SupervisorUnreachable
<1>2. r \in Runtime /\ s \in StateType
  BY <1>1 DEF RuntimeInv, ClaimsOK, ClaimOf, Working
<1>3. host' = [host EXCEPT ![w][r] = s]
  BY <1>1, <1>2 DEF SupervisorUnreachable
<1>4. worker' = [worker EXCEPT ![w].stage = "failed"] /\ UNCHANGED <<lease, caller>>
  BY DEF SupervisorUnreachable, Answers
<1> QED
  BY <1>1, <1>2, <1>3, <1>4, Answered

(* The container restarts: its claim and its records are gone.               *)
LEMMA RestartStep ==
    ASSUME RuntimeInv, NEW w \in Worker, ContainerRestarts(w)
    PROVE  RuntimeInv'
<1>1. /\ worker \in [Worker -> ClaimType] /\ host \in [Worker -> [Runtime -> StateType]]
      /\ lease \in [Runtime -> RowType]
  BY TypeParts DEF RuntimeInv
<1>2. NoState \in StateType /\ NoState.request = 0 /\ NoState.process = "dead"
  BY RuntimeAssumption DEF NoState, StateType
<1>3. /\ \A v \in Worker : worker'[v] = IF v = w THEN NoClaim ELSE worker[v]
      /\ \A v \in Worker, r \in Runtime : host'[v][r] = IF v = w THEN NoState ELSE host[v][r]
      /\ UNCHANGED <<lease, caller>>
  BY <1>1 DEF ContainerRestarts
<1>4. RuntimeTypeOK'
  BY <1>1, <1>2, NoClaimType, TypeParts, TypesNext DEF RuntimeInv, ContainerRestarts
<1>5. \A v \in Worker : Working(v)' => Working(v) /\ v # w /\ worker'[v] = worker[v]
  BY <1>3, NoClaimType DEF Working
<1>6. ClaimsOK'
  BY <1>3, <1>5 DEF RuntimeInv, ClaimsOK, ClaimOf
<1>7. AnswersOK'
  <2> SUFFICES ASSUME NEW v \in Worker, worker'[v].stage = "done" PROVE AnswerOf(v)'
    BY DEF AnswersOK
  <2>1. Working(v) /\ v # w /\ worker'[v] = worker[v]
    BY <1>5 DEF Working
  <2>2. AnswerOf(v) /\ worker[v].runtime \in Runtime
    BY <2>1 DEF RuntimeInv, AnswersOK, ClaimsOK, ClaimOf
  <2> QED
    BY <1>3, <2>1, <2>2 DEF AnswerOf
<1>8. RunningIsBacked'
  <2> SUFFICES ASSUME NEW r \in Runtime, lease[r].status = "running"
               PROVE  /\ lease[r].at # None
                      /\ LET t == host'[lease[r].at][r]
                         IN  t.request # 0 => t.request = lease[r].request /\ t.status # "stopped"
    BY <1>3 DEF RunningIsBacked
  <2>1. /\ lease[r].at \in Worker /\ lease[r].at # None
        /\ LET t == host[lease[r].at][r]
           IN  t.request # 0 => t.request = lease[r].request /\ t.status # "stopped"
    BY <1>1 DEF RuntimeInv, RunningIsBacked, RowType
  <2> QED
    BY <1>2, <1>3, <2>1
<1>9. StoppedIsLeft' /\ StoppedMeansStopped'
  BY <1>2, <1>3, <1>5 DEF RuntimeInv, StoppedIsLeft, StoppedMeansStopped
<1> QED
  BY <1>4, <1>6, <1>7, <1>8, <1>9 DEF RuntimeInv

(* A record may become interrupted and a process may die without a call.     *)
LEMMA DriftStep ==
    ASSUME RuntimeInv, NEW w \in Worker, NEW r \in Runtime, Probe(w, r) \/ ProcessChanges(w, r)
    PROVE  RuntimeInv'
<1>1. /\ host \in [Worker -> [Runtime -> StateType]] /\ UNCHANGED <<lease, caller, worker>>
  BY TypeParts DEF RuntimeInv, Probe, ProcessChanges
<1>2. /\ host' \in [Worker -> [Runtime -> StateType]]
      /\ \A v \in Worker, q \in Runtime :
            /\ host'[v][q].request = host[v][q].request
            /\ host'[v][q].status \in {host[v][q].status, "interrupted"}
            /\ host[v][q].process = "dead" => host'[v][q].process = "dead"
  <2>1. PICK t \in {[host[w][r] EXCEPT !.status = "interrupted"]}
                   \union {[host[w][r] EXCEPT !.process = p] : p \in {"dead", "ready", "hung"}} :
            host' = [host EXCEPT ![w][r] = t] /\ (host[w][r].process = "dead" => t.process = "dead")
    <3>1. CASE Probe(w, r)
      <4> DEFINE u == [host[w][r] EXCEPT !.status = "interrupted"]
      <4>1. host' = [host EXCEPT ![w][r] = u]
        BY <3>1 DEF Probe
      <4>2. u.process = host[w][r].process
        BY <1>1 DEF StateType
      <4> QED
        BY <4>1, <4>2
    <3>2. CASE ProcessChanges(w, r)
      BY <1>1, <3>2 DEF ProcessChanges
    <3> QED
      BY <3>1, <3>2
  <2>2. host[w][r] \in StateType
    BY <1>1
  <2>3. t \in StateType /\ t.request = host[w][r].request /\ t.status \in {host[w][r].status, "interrupted"}
    BY <2>1, <2>2 DEF StateType
  <2>4. \A v \in Worker, q \in Runtime : host'[v][q] = IF v = w /\ q = r THEN t ELSE host[v][q]
    BY <1>1, <2>1
  <2>5. host' \in [Worker -> [Runtime -> StateType]]
    BY <1>1, <2>1, <2>3
  <2> QED
    BY <2>1, <2>3, <2>4, <2>5
<1>3. RuntimeTypeOK'
  BY <1>1, <1>2, TypeParts, TypesNext DEF RuntimeInv
<1>4. ClaimsOK' /\ StoppedIsLeft'
  BY <1>1 DEF RuntimeInv, ClaimsOK, ClaimOf, StoppedIsLeft, Working
<1>5. AnswersOK'
  <2> SUFFICES ASSUME NEW v \in Worker, worker[v].stage = "done" PROVE AnswerOf(v)'
    BY <1>1 DEF AnswersOK
  <2>1. AnswerOf(v) /\ worker[v].runtime \in Runtime
    BY DEF RuntimeInv, AnswersOK, ClaimsOK, ClaimOf, Working
  <2> QED
    BY <1>1, <1>2, <2>1 DEF AnswerOf
<1>6. RunningIsBacked'
  <2> SUFFICES ASSUME NEW q \in Runtime, lease[q].status = "running"
               PROVE  /\ lease[q].at # None
                      /\ LET t == host'[lease[q].at][q]
                         IN  t.request # 0 => t.request = lease[q].request /\ t.status # "stopped"
    BY <1>1 DEF RunningIsBacked
  <2>1. /\ lease[q].at \in Worker /\ lease[q].at # None
        /\ LET t == host[lease[q].at][q]
           IN  t.request # 0 => t.request = lease[q].request /\ t.status # "stopped"
    BY TypeParts DEF RuntimeInv, RunningIsBacked, RowType
  <2> QED
    BY <1>2, <2>1
<1>7. StoppedMeansStopped'
  BY <1>1, <1>2 DEF RuntimeInv, StoppedMeansStopped
<1> QED
  BY <1>3, <1>4, <1>5, <1>6, <1>7 DEF RuntimeInv

-----------------------------------------------------------------------------
(* The worker reports. *)

LEMMA MarkRunningStep ==
    ASSUME RuntimeInv, NEW w \in Worker, MarkRunning(w)
    PROVE  RuntimeInv'
<1> DEFINE r == worker[w].runtime
           row == [lease[r] EXCEPT !.status = "running", !.at = w]
<1>1. /\ lease \in [Runtime -> RowType] /\ worker \in [Worker -> ClaimType]
      /\ worker[w].stage = "done" /\ worker[w].action = "start"
      /\ UNCHANGED <<caller, host>> /\ worker' = [worker EXCEPT ![w] = NoClaim]
  BY TypeParts DEF RuntimeInv, MarkRunning
<1>2. r \in Runtime /\ ClaimOf(w) /\ AnswerOf(w) /\ lease[r] \in RowType
  BY <1>1 DEF RuntimeInv, ClaimsOK, ClaimOf, AnswersOK, Working
<1>3. \A v \in Worker : worker'[v] = IF v = w THEN NoClaim ELSE worker[v]
  BY <1>1
<1>4. CASE lease' = [lease EXCEPT ![r] = lease[r]]
  <2>1. lease' = lease
    BY <1>1, <1>2, <1>4
  <2>2. RuntimeTypeOK'
    BY <1>1, <2>1, NoClaimType, TypeParts, TypesNext DEF RuntimeInv
  <2> QED
    BY <1>1, <1>3, <2>1, <2>2, NoClaimType, GivenUp DEF Gentle
<1>5. CASE /\ lease' = [lease EXCEPT ![r] = row]
           /\ lease[r].holder = w /\ lease[r].status \in {"starting", "running"}
  <2>1. /\ row \in RowType /\ row.status = "running" /\ row.at = w
        /\ row.request = lease[r].request /\ row.holder = lease[r].holder
    BY <1>2, Statuses DEF RowType
  <2>2. worker[w].request = lease[r].request
    BY <1>2, <1>5 DEF ClaimOf
  <2> HIDE DEF row
  <2>3. \A q \in Runtime : lease'[q] = IF q = r THEN row ELSE lease[q]
    BY <1>1, <1>5
  <2>4. RuntimeTypeOK'
    BY <1>1, <1>2, <1>5, <2>1, NoClaimType, TypeParts, TypesNext DEF RuntimeInv
  <2>5. \A v \in Worker : Working(v)' => Working(v) /\ v # w /\ worker'[v] = worker[v]
    BY <1>3, NoClaimType DEF Working
  <2>6. ClaimsOK'
    <3> SUFFICES ASSUME NEW v \in Worker, Working(v)' PROVE ClaimOf(v)'
      BY DEF ClaimsOK
    <3>1. ClaimOf(v) /\ v # w /\ worker'[v] = worker[v]
      BY <2>5 DEF RuntimeInv, ClaimsOK
    <3> QED
      BY <1>5, <2>1, <2>3, <3>1, RuntimeAssumption DEF ClaimOf
  <2>7. AnswersOK'
    BY <1>1, <2>5 DEF RuntimeInv, AnswersOK, AnswerOf, Working
  <2>8. RunningIsBacked'
    <3>1. ASSUME NEW q \in Runtime, q # r PROVE lease'[q] = lease[q]
      BY <2>3, <3>1
    <3>2. host[w][r].request = lease[r].request /\ host[w][r].status # "stopped"
      BY <1>1, <1>2, <2>2 DEF AnswerOf
    <3> QED
      BY <1>1, <2>1, <2>3, <3>1, <3>2, RuntimeAssumption DEF RuntimeInv, RunningIsBacked
  <2>9. StoppedIsLeft' /\ StoppedMeansStopped'
    BY <1>1, <2>1, <2>3, <2>5 DEF RuntimeInv, StoppedIsLeft, StoppedMeansStopped
  <2> QED
    BY <2>4, <2>6, <2>7, <2>8, <2>9 DEF RuntimeInv
<1> QED
  BY <1>4, <1>5 DEF MarkRunning, FencedUpdate

LEMMA MarkStoppedStep ==
    ASSUME RuntimeInv, NEW w \in Worker, MarkStopped(w)
    PROVE  RuntimeInv'
<1> DEFINE r == worker[w].runtime
           row == TakenBack(lease[r], "stopped")
<1>1. /\ lease \in [Runtime -> RowType] /\ worker \in [Worker -> ClaimType]
      /\ worker[w].stage = "done" /\ worker[w].action = "stop"
      /\ UNCHANGED <<caller, host>> /\ worker' = [worker EXCEPT ![w] = NoClaim]
  BY TypeParts DEF RuntimeInv, MarkStopped
<1>2. r \in Runtime /\ AnswerOf(w) /\ lease[r] \in RowType
  BY <1>1 DEF RuntimeInv, ClaimsOK, ClaimOf, AnswersOK, Working
<1>3. \A v \in Worker : worker'[v] = IF v = w THEN NoClaim ELSE worker[v]
  BY <1>1
<1>4. CASE lease' = [lease EXCEPT ![r] = lease[r]]
  <2>1. lease' = lease
    BY <1>1, <1>2, <1>4
  <2>2. RuntimeTypeOK'
    BY <1>1, <2>1, NoClaimType, TypeParts, TypesNext DEF RuntimeInv
  <2> QED
    BY <1>1, <1>3, <2>1, <2>2, NoClaimType, GivenUp DEF Gentle
<1>5. CASE lease' = [lease EXCEPT ![r] = row] /\ lease[r].status = "stopping"
  <2>1. /\ row \in RowType /\ row.status = "stopped" /\ row.at = lease[r].at
        /\ row.request = lease[r].request /\ row.holder = None
    BY <1>2, Statuses, TakenBackRow
  <2> HIDE DEF row
  <2>2. \A q \in Runtime : lease'[q] = IF q = r THEN row ELSE lease[q]
    BY <1>1, <1>5
  <2>3. RuntimeTypeOK'
    BY <1>1, <1>2, <1>5, <2>1, NoClaimType, TypeParts, TypesNext DEF RuntimeInv
  <2>4. \A v \in Worker : Working(v)' => Working(v) /\ v # w /\ worker'[v] = worker[v]
    BY <1>3, NoClaimType DEF Working
  <2>5. ClaimsOK'
    <3> SUFFICES ASSUME NEW v \in Worker, Working(v)' PROVE ClaimOf(v)'
      BY DEF ClaimsOK
    <3>1. ClaimOf(v) /\ v # w /\ worker'[v] = worker[v]
      BY <2>4 DEF RuntimeInv, ClaimsOK
    <3> QED
      BY <1>5, <2>1, <2>2, <3>1, RuntimeAssumption DEF ClaimOf
  <2>6. AnswersOK'
    BY <1>1, <2>4 DEF RuntimeInv, AnswersOK, AnswerOf, Working
  <2>7. RunningIsBacked'
    <3>1. \A q \in Runtime : lease'[q].status = "running" => lease'[q] = lease[q]
      BY <2>1, <2>2
    <3> QED
      BY <1>1, <3>1 DEF RuntimeInv, RunningIsBacked
  <2>8. StoppedIsLeft'
    BY <1>1, <2>2, <2>4 DEF RuntimeInv, StoppedIsLeft
  <2>9. StoppedMeansStopped'
    <3> SUFFICES ASSUME NEW v \in Worker, NEW q \in Runtime, Worker = {v}, lease'[q].status = "stopped"
                 PROVE  host'[v][q].process = "dead"
      BY DEF StoppedMeansStopped
    <3>1. CASE q = r
      BY <1>1, <1>2, <3>1 DEF AnswerOf
    <3>2. CASE q # r
      BY <1>1, <2>2, <3>2 DEF RuntimeInv, StoppedMeansStopped
    <3> QED
      BY <3>1, <3>2
  <2> QED
    BY <2>3, <2>5, <2>6, <2>7, <2>8, <2>9 DEF RuntimeInv
<1> QED
  BY <1>4, <1>5 DEF MarkStopped, FencedUpdate

-----------------------------------------------------------------------------
LEMMA RuntimeStep == RuntimeInv /\ [Next]_vars => RuntimeInv'
<1> SUFFICES ASSUME RuntimeInv, [Next]_vars PROVE RuntimeInv'
  OBVIOUS
<1>1. ASSUME NEW r \in Runtime, CoreStep(r) PROVE RuntimeInv'
  BY <1>1, EnqueueStep, CallerStep, StopRequestStep DEF CoreStep
<1>2. ASSUME NEW r \in Runtime, LeaseLapses(r) \/ LifetimeEnds(r) PROVE RuntimeInv'
  BY <1>2, TimeStep
<1>3. ASSUME NEW w \in Worker, WorkerStep(w) PROVE RuntimeInv'
  BY <1>3, ExpireStep, ClaimStep, EndOfCycleStep, SupervisorStartsStep, SupervisorStopsStep,
     MarkRunningStep, MarkStoppedStep, InterruptedStep DEF WorkerStep
<1>4. ASSUME NEW w \in Worker, Trouble(w) PROVE RuntimeInv'
  BY <1>4, UnreachableStep, EndOfCycleStep, RestartStep DEF Trouble
<1>5. ASSUME NEW w \in Worker, NEW r \in Runtime, Probe(w, r) \/ ProcessChanges(w, r) PROVE RuntimeInv'
  BY <1>5, DriftStep
<1>6. CASE UNCHANGED vars
  <2>1. UNCHANGED <<lease, caller, worker, host>>
    BY <1>6 DEF vars
  <2>2. RuntimeTypeOK'
    BY <2>1 DEF RuntimeInv, RuntimeTypeOK
  <2> QED
    BY <2>1, <2>2, GivenUp DEF Gentle
<1> QED
  BY <1>1, <1>2, <1>3, <1>4, <1>5, <1>6 DEF Next

(* The invariant holds in every behaviour of Core, workers, supervisors and  *)
(* processes, however many there are.                                        *)
THEOREM RuntimeInvariant == Spec => []RuntimeInv
BY RuntimeInit, RuntimeStep, PTL DEF Spec

(* Rows of runtime_leases, claims and state files are well typed.            *)
THEOREM RuntimeTypes == Spec => []RuntimeTypeOK
<1>1. RuntimeInv => RuntimeTypeOK
  BY DEF RuntimeInv
<1> QED
  BY RuntimeInvariant, <1>1, PTL

(* A row that says running names a container whose supervisor has a record   *)
(* of that very request, not stopped, unless the container was replaced.     *)
THEOREM RunningRowsAreBacked == Spec => []RunningIsBacked
<1>1. RuntimeInv => RunningIsBacked
  BY DEF RuntimeInv
<1> QED
  BY RuntimeInvariant, <1>1, PTL

(* With one container, a runtime that mark_stopped reported has no process   *)
(* that the supervisor knows of.                                             *)
THEOREM StoppedRowsAreStopped == Spec => []StoppedMeansStopped
<1>1. RuntimeInv => StoppedMeansStopped
  BY DEF RuntimeInv
<1> QED
  BY RuntimeInvariant, <1>1, PTL

(* No step takes a row from stopping back to queued, starting or running:    *)
(* not a late answer, a retry, nor another claim.                            *)
LEMMA StopHolds ==
    ASSUME RuntimeInv, [Next]_vars, NEW r \in Runtime, lease[r].status = "stopping"
    PROVE  lease'[r].status \in {"stopping", "stopped", "interrupted"}
<1>1. lease \in [Runtime -> RowType]
  BY TypeParts DEF RuntimeInv
<1>2. ASSUME NEW q \in Runtime, CoreStep(q) PROVE lease'[r].status = "stopping"
  <2>1. CASE \E f \in Request : Enqueue(q, f)
    BY <1>1, <2>1 DEF Enqueue
  <2>2. CASE GiveUpStart(q) \/ RequestStop(q)
    <3>1. lease' = [lease EXCEPT ![q] = StopRequested(lease[q], caller[q].request)]
      BY <2>2 DEF GiveUpStart, RequestStop
    <3>2. lease[q] \in RowType
      BY <1>1
    <3>3. StopRequested(lease[q], caller[q].request).status \in {lease[q].status, "stopping"}
      BY <3>2, Statuses, TakenBackRow DEF StopRequested
    <3> QED
      BY <1>1, <3>1, <3>3
  <2> QED
    BY <1>2, <2>1, <2>2 DEF CoreStep, StartReturns, StartFails, StopEnds, CoreCrashes
<1>3. ASSUME NEW w \in Worker, WorkerStep(w) PROVE lease'[r].status \in {"stopping", "stopped", "interrupted"}
  <2>1. CASE ExpireDue(w)
    BY <1>1, <2>1, Statuses, TakenBackRow DEF ExpireDue
  <2>2. CASE \E q \in Runtime : Claim(w, q)
    <3>1. PICK q \in Runtime : Claim(w, q)
      BY <2>2
    <3> DEFINE row == [lease[q] EXCEPT !.status = IF lease[q].status = "queued" THEN "starting" ELSE lease[q].status,
                                       !.holder = w, !.held = TRUE]
    <3>2. lease' = [lease EXCEPT ![q] = row]
      BY <3>1 DEF Claim
    <3>3. lease[q] \in RowType
      BY <1>1
    <3>4. lease[q].status = "stopping" => row.status = "stopping"
      BY <3>3 DEF RowType
    <3> QED
      BY <1>1, <3>2, <3>4
  <2>3. CASE MarkRunning(w)
    BY <1>1, <2>3 DEF MarkRunning, FencedUpdate
  <2>4. CASE MarkStopped(w)
    BY <1>1, <2>4, Statuses, TakenBackRow DEF MarkStopped, FencedUpdate
  <2>5. CASE MarkInterrupted(w)
    BY <1>1, <2>5, Statuses, TakenBackRow DEF MarkInterrupted, FencedUpdate
  <2> QED
    BY <1>3, <2>1, <2>2, <2>3, <2>4, <2>5 DEF WorkerStep, NothingToClaim, SupervisorStarts, SupervisorStops
<1>4. ASSUME NEW q \in Runtime, LeaseLapses(q) \/ LifetimeEnds(q) PROVE lease'[r].status = "stopping"
  BY <1>1, <1>4 DEF LeaseLapses, LifetimeEnds, RowType
<1>5. ASSUME NEW w \in Worker, Trouble(w) PROVE lease' = lease
  BY <1>5 DEF Trouble, SupervisorUnreachable, CycleFails, ContainerRestarts
<1>6. ASSUME NEW w \in Worker, NEW q \in Runtime, Probe(w, q) \/ ProcessChanges(w, q) PROVE lease' = lease
  BY <1>6 DEF Probe, ProcessChanges
<1> QED
  BY <1>2, <1>3, <1>4, <1>5, <1>6 DEF Next, vars

(* A stop request, and the end of a runtime's lifetime, win against every    *)
(* answer that was under way.                                                *)
THEOREM StopsAreNotUndone == Spec => StopIsNotUndone
<1>1. RuntimeInv /\ [Next]_vars =>
          [\A r \in Runtime : lease[r].status = "stopping"
              => lease'[r].status \in {"stopping", "stopped", "interrupted"}]_vars
  BY StopHolds
<1> QED
  BY RuntimeInvariant, <1>1, PTL DEF Spec, StopIsNotUndone

=============================================================================
