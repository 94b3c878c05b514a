-------------------------- MODULE CommandLifecycle --------------------------
(***************************************************************************)
(* What the command ledger promises: every operation on a command run      *)
(* reads its row, changes it and appends its event in one atomic step, and *)
(* only the worker whose claim is the newest may speak for a running       *)
(* command (ADR 0003: transitions are compare-and-swap, a stale worker     *)
(* cannot complete work).  CommandLedger shows how the code keeps this     *)
(* promise although its reads and its writes are separate statements.      *)
(***************************************************************************)
EXTENDS Integers, Sequences

CONSTANTS
    Command,        \* command runs, one per idempotency key
    Worker,         \* processes that call the ledger
    Nobody,         \* no lease owner
    FenceCap,       \* bound on the claims of one command
    LogCap          \* bound on the events of one command

ASSUME LedgerAssumption ==
    /\ Nobody \notin Worker
    /\ FenceCap \in Nat \ {0}
    /\ LogCap \in Nat \ {0}

VARIABLES
    command,        \* command_runs
    log,            \* domain_events of a command, in cursor order
    token           \* the claims each worker was given: <<command, lease_fence>>

ledger == <<command, log, token>>

Status == {"absent", "queued", "waiting_approval", "running", "succeeded", "failed",
           "rejected", "cancelled", "interrupted"}

(* COMMAND_TRANSITIONS.  A command is created and given its first status in  *)
(* one unit of work, so "created" is an event and never a status at rest.    *)
Transitions ==
    [s \in Status |->
        CASE s = "queued" -> {"waiting_approval", "running", "cancelled", "interrupted"}
          [] s = "waiting_approval" -> {"queued", "running", "rejected", "cancelled"}
          [] s = "running" -> {"succeeded", "failed", "interrupted", "cancelled"}
          [] s = "interrupted" -> {"queued", "failed"}
          [] OTHER -> {}]

Settled == {"succeeded", "failed", "rejected", "cancelled"}

Row == [status : Status, owner : Worker \union {Nobody}, fence : Nat, live : BOOLEAN]
Event == [event : Status \union {"created", "reclaimed", "progress"}, fence : Nat]

(* Every row and event is one the schema admits, and a row names a lease      *)
(* owner exactly while it is running (claim sets it, transition and finish    *)
(* reset it).                                                                 *)
TypeOK ==
    /\ command \in [Command -> Row]
    /\ log \in [Command -> Seq(Event)]
    /\ token \in [Worker -> SUBSET (Command \X Nat)]
    /\ \A c \in Command : (command[c].owner # Nobody) <=> (command[c].status = "running")
    /\ \A c \in Command : command[c].live => command[c].status = "running"

Record(c, event, fence) ==
    log' = [log EXCEPT ![c] = Append(@, [event |-> event, fence |-> fence])]

(* The claim that a worker holds is the newest one of a running command.     *)
Current(w, c) ==
    command[c].status = "running" /\ <<c, command[c].fence>> \in token[w]

Init ==
    /\ command = [c \in Command |->
                    [status |-> "absent", owner |-> Nobody, fence |-> 0, live |-> FALSE]]
    /\ log = [c \in Command |-> << >>]
    /\ token = [w \in Worker |-> {}]

(* submit: create_run, then the policy's first status.                        *)
Submit(c) ==
    /\ command[c].status = "absent"
    /\ \E first \in {"queued", "waiting_approval"} :
          /\ command' = [command EXCEPT ![c].status = first]
          /\ log' = [log EXCEPT ![c] = << [event |-> "created", fence |-> 0],
                                          [event |-> first, fence |-> 0] >>]
    /\ UNCHANGED token

(* A queued command, or a running one whose lease has run out, goes to w.     *)
Claim(w, c) ==
    LET reclaiming == command[c].status = "running"
        next == command[c].fence + 1
    IN  /\ \/ command[c].status = "queued"
           \/ reclaiming /\ ~command[c].live
        /\ command' = [command EXCEPT ![c] =
                          [status |-> "running", owner |-> w, fence |-> next, live |-> TRUE]]
        /\ Record(c, IF reclaiming THEN "reclaimed" ELSE "running", next)
        /\ token' = [token EXCEPT ![w] = @ \union {<<c, next>>}]

FaultyReleased(row, status) ==
    [status |-> status, owner |-> row.owner, fence |-> row.fence, live |-> FALSE]
(* A new status drops the lease and keeps the fence.                          *)
Released(row, status) ==
    [status |-> status, owner |-> Nobody, fence |-> row.fence, live |-> FALSE]

Enter(c, status, fence) ==
    /\ status \in Transitions[command[c].status] \ {"running"}
    /\ command' = [command EXCEPT ![c] = Released(@, status)]
    /\ Record(c, status, fence)
    /\ UNCHANGED token

(* Nobody holds the command: approval decisions, requeueing, cancellation.    *)
Move(c, status) == command[c].status # "running" /\ Enter(c, status, 0)

(* The holder reports the outcome or cancels the command.                     *)
Finish(w, c, status) ==
    /\ Current(w, c)
    /\ status \in {"succeeded", "failed", "cancelled"}
    /\ Enter(c, status, command[c].fence)

(* Somebody who read the row acts with the lease it names.                    *)
Interrupt(c) ==
    command[c].status = "running" /\ Enter(c, "interrupted", command[c].fence)

(* An event of the holder, or one that no lease protects.                     *)
Report(w, c) ==
    /\ Current(w, c)
    /\ Record(c, "progress", command[c].fence)
    /\ UNCHANGED <<command, token>>

Remark(c) ==
    /\ command[c].status # "absent"
    /\ Record(c, "progress", 0)
    /\ UNCHANGED <<command, token>>

Abandon(w, c) ==
    /\ Current(w, c)
    /\ command' = [command EXCEPT ![c] = [@ EXCEPT !.live = FALSE]]
    /\ UNCHANGED <<log, token>>

Renew(w, c) ==
    /\ Current(w, c)
    /\ command' = [command EXCEPT ![c] = [@ EXCEPT !.live = TRUE]]
    /\ UNCHANGED <<log, token>>

LeaseLapses(c) ==
    /\ command[c].status = "running"
    /\ command[c].live
    /\ command' = [command EXCEPT ![c] = [@ EXCEPT !.live = FALSE]]
    /\ UNCHANGED <<log, token>>

Crash(w) ==
    /\ token[w] # {}
    /\ token' = [token EXCEPT ![w] = {}]
    /\ UNCHANGED <<command, log>>

Next ==
    \/ \E c \in Command :
          \/ Submit(c)
          \/ \E status \in Status : Move(c, status)
          \/ Interrupt(c)
          \/ Remark(c)
          \/ LeaseLapses(c)
    \/ \E w \in Worker, c \in Command :
          \/ Claim(w, c)
          \/ \E status \in Status : Finish(w, c, status)
          \/ Report(w, c)
          \/ Abandon(w, c)
          \/ Renew(w, c)
    \/ \E w \in Worker : Crash(w)

Spec == Init /\ [][Next]_ledger

-----------------------------------------------------------------------------
(* At most one worker speaks for a running command, and it is the one the    *)
(* row names (claim: lease_fence + 1 under the old fence).                    *)
OneHolder ==
    \A c \in Command, w \in Worker : Current(w, c) => w = command[c].owner

(* No two claims were ever given the same fence, by whichever worker, and no *)
(* worker holds a fence that was not issued yet.                              *)
FencesAreUnique ==
    \A c \in Command, f \in 1..FenceCap :
        /\ \A v, w \in Worker : <<c, f>> \in token[v] \intersect token[w] => v = w
        /\ \A w \in Worker : <<c, f>> \in token[w] => f <= command[c].fence

StatusEvents(c) == {i \in DOMAIN log[c] : log[c][i].event # "progress"}
Reached(event) == IF event = "reclaimed" THEN "running" ELSE event

(* The events of a command retell its history: each status it announces may  *)
(* follow the one before, the last one is the row's, and once a settled one  *)
(* is announced no other follows.                                            *)
LogRetellsStatus ==
    \A c \in Command :
        /\ \A i, j \in StatusEvents(c) :
              LET from == Reached(log[c][i].event)
                  to == Reached(log[c][j].event)
              IN  i < j /\ (\A k \in StatusEvents(c) : k <= i \/ j <= k)
                    => \/ from = "created" /\ to \in {"queued", "waiting_approval"}
                       \/ from = "running" /\ log[c][j].event = "reclaimed"
                       \/ from # "created" /\ to \in Transitions[from]
        /\ \A i \in StatusEvents(c) :
              (\A k \in StatusEvents(c) : k <= i)
                  => Reached(log[c][i].event) = command[c].status

(* The events of two claims never interleave: once a claim is announced, an  *)
(* earlier one is silent, however late its worker wakes up.                   *)
StaleWorkerIsSilent ==
    \A c \in Command : \A i, j \in DOMAIN log[c] :
        i < j /\ log[c][i].fence # 0 /\ log[c][j].fence # 0
            => log[c][i].fence <= log[c][j].fence

=============================================================================
