---------------------------- MODULE CommandLedger ---------------------------
(***************************************************************************)
(* fairy_core/commanding/sqlalchemy.py as SQLite runs it: an operation     *)
(* first reads the row of its command (a SELECT outside any transaction,   *)
(* pysqlite begins one at the first write), then updates it under the      *)
(* predicates of its WHERE clause and appends its event.  Other callers    *)
(* act between the two statements.  "pending" is the call a worker is in   *)
(* the middle of.  Lease predicates compare lease_until with the time at   *)
(* which the call began, so they see what the call read.                   *)
(***************************************************************************)
EXTENDS CommandLifecycle

CONSTANT NoCall     \* a worker that is not inside a call

VARIABLE pending    \* Worker -> the call in progress, or NoCall

vars == <<command, log, token, pending>>

Operation == {"claim", "move", "finish", "interrupt", "report", "remark", "abandon", "renew"}

Call == [op : Operation, command : Command, seen : Row, status : Status]

CallsOK == pending \in [Worker -> Call \union {NoCall}]

LedgerInit == Init /\ pending = [w \in Worker |-> NoCall]

Holds(w, c) == <<c, command[c].fence>> \in token[w]

Begin(w, c, op, status) ==
    /\ pending[w] = NoCall
    /\ pending' = [pending EXCEPT ![w] =
                      [op |-> op, command |-> c, seen |-> command[c], status |-> status]]
    /\ UNCHANGED ledger

(* The checks an operation makes on the row it read; a failed check raises.  *)
Running(c) == command[c].status = "running"
Leased(w, c) == Running(c) /\ command[c].live /\ Holds(w, c)

BeginClaim(w, c) ==
    /\ command[c].status = "queued" \/ (Running(c) /\ ~command[c].live)
    /\ command[c].fence < FenceCap
    /\ Begin(w, c, "claim", "running")

BeginMove(w, c) ==
    /\ ~Running(c)
    /\ Len(log[c]) < LogCap
    /\ \E status \in Transitions[command[c].status] \ {"running"} : Begin(w, c, "move", status)

BeginFinish(w, c) ==
    /\ Leased(w, c)
    /\ \E status \in {"succeeded", "failed", "cancelled"} : Begin(w, c, "finish", status)

(* The lease may be one the caller only read (tool_approval_runtime).        *)
BeginInterrupt(w, c) ==
    /\ Running(c) /\ command[c].live
    /\ Begin(w, c, "interrupt", "interrupted")

BeginReport(w, c) ==
    /\ Leased(w, c)
    /\ Len(log[c]) < LogCap
    /\ Begin(w, c, "report", "running")

BeginRemark(w, c) ==
    /\ command[c].status \notin {"absent", "running"}
    /\ Len(log[c]) < LogCap
    /\ Begin(w, c, "remark", command[c].status)

BeginAbandon(w, c) == Running(c) /\ Holds(w, c) /\ Begin(w, c, "abandon", "running")
BeginRenew(w, c) == Leased(w, c) /\ Begin(w, c, "renew", "running")

FaultyLeaseUnchecked(call) == command[call.command].status = call.seen.status
FaultyStatusUnchecked(call) ==
    call.seen.status = "running" => command[call.command].fence = call.seen.fence
(* The WHERE clause of the update: the status is the one that was read; a    *)
(* claim and a leased operation also name the fence that was read, a leased  *)
(* one its owner, and a reclaim wants the lease still expired.               *)
Matches(call) ==
    LET row == command[call.command]
    IN  /\ row.status = call.seen.status
        /\ call.op = "claim" \/ row.status = "running" => row.fence = call.seen.fence
        /\ call.op # "claim" => row.owner = call.seen.owner
        /\ call.op = "claim" /\ row.status = "running" => ~row.live

Return(w) == pending' = [pending EXCEPT ![w] = NoCall]

CommitClaim(w) ==
    /\ pending[w] # NoCall /\ pending[w].op = "claim"
    /\ Matches(pending[w])
    /\ LET c == pending[w].command
           next == pending[w].seen.fence + 1
       IN  /\ command' = [command EXCEPT ![c] =
                 [status |-> "running", owner |-> w, fence |-> next, live |-> TRUE]]
           /\ Record(c, IF pending[w].seen.status = "running" THEN "reclaimed" ELSE "running",
                     next)
           /\ token' = [token EXCEPT ![w] = @ \union {<<c, next>>}]
    /\ Return(w)

(* transition and finish: the same update, whatever let the call begin.      *)
CommitStatus(w) ==
    /\ pending[w] # NoCall /\ pending[w].op \in {"move", "finish", "interrupt"}
    /\ Matches(pending[w])
    /\ LET c == pending[w].command
       IN  /\ command' = [command EXCEPT ![c] = Released(@, pending[w].status)]
           /\ Record(c, pending[w].status,
                     IF pending[w].op = "move" THEN 0 ELSE pending[w].seen.fence)
    /\ UNCHANGED token
    /\ Return(w)

(* append_event: a leased one re-checks the lease, the others only append.   *)
CommitReport(w) ==
    /\ pending[w] # NoCall /\ pending[w].op = "report"
    /\ Matches(pending[w])
    /\ Record(pending[w].command, "progress", pending[w].seen.fence)
    /\ UNCHANGED <<command, token>>
    /\ Return(w)

CommitRemark(w) ==
    /\ pending[w] # NoCall /\ pending[w].op = "remark"
    /\ Record(pending[w].command, "progress", 0)
    /\ UNCHANGED <<command, token>>
    /\ Return(w)

(* abandon ends the lease now; renew extends it even if it lapsed meanwhile. *)
CommitLease(w) ==
    /\ pending[w] # NoCall /\ pending[w].op \in {"abandon", "renew"}
    /\ Matches(pending[w])
    /\ command' = [command EXCEPT ![pending[w].command] =
                      [@ EXCEPT !.live = pending[w].op = "renew"]]
    /\ UNCHANGED <<log, token>>
    /\ Return(w)

(* The update matched no row, or the database was busy: nothing is written.  *)
CallFails(w) ==
    /\ pending[w] # NoCall
    /\ Return(w)
    /\ UNCHANGED ledger

SubmitCall(c) == Submit(c) /\ UNCHANGED pending

(* A lease that is renewed while a reclaim is under way is out of that       *)
(* reclaim's reach for good, its WHERE clause has the time of its beginning;  *)
(* such a call has failed, and only then does the lease lapse again.          *)
Reclaiming(w, c) ==
    /\ pending[w] # NoCall
    /\ pending[w].op = "claim" /\ pending[w].command = c
    /\ pending[w].seen.status = "running" /\ pending[w].seen.fence = command[c].fence

Lapse(c) ==
    /\ \A w \in Worker : ~Reclaiming(w, c)
    /\ LeaseLapses(c)
    /\ UNCHANGED pending

CrashWorker(w) ==
    /\ token[w] # {} \/ pending[w] # NoCall
    /\ token' = [token EXCEPT ![w] = {}]
    /\ Return(w)
    /\ UNCHANGED <<command, log>>

LedgerNext ==
    \/ \E c \in Command : SubmitCall(c) \/ Lapse(c)
    \/ \E w \in Worker, c \in Command :
          \/ BeginClaim(w, c)
          \/ BeginMove(w, c)
          \/ BeginFinish(w, c)
          \/ BeginInterrupt(w, c)
          \/ BeginReport(w, c)
          \/ BeginRemark(w, c)
          \/ BeginAbandon(w, c)
          \/ BeginRenew(w, c)
    \/ \E w \in Worker :
          \/ CommitClaim(w)
          \/ CommitStatus(w)
          \/ CommitReport(w)
          \/ CommitRemark(w)
          \/ CommitLease(w)
          \/ CallFails(w)
          \/ CrashWorker(w)

LedgerSpec == LedgerInit /\ [][LedgerNext]_vars

-----------------------------------------------------------------------------
(* The split reads and writes keep the atomic ledger's promise: every commit *)
(* is one of its steps, every read is none (ADR 0003: "Command state         *)
(* transitions are compare-and-swap operations").                            *)
KeepsPromise == Spec

=============================================================================
