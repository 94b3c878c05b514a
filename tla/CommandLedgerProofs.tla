------------------------ MODULE CommandLedgerProofs -------------------------
(***************************************************************************)
(* Proofs about the command ledger, in three parts.  The atomic ledger of  *)
(* CommandLifecycle keeps its fences: AtomicInv is inductive for Spec.     *)
(* The split reads and writes of CommandLedger implement it: CallsInv says *)
(* what a call that has begun still knows when its update runs, and every  *)
(* commit that matches is then a step of the atomic ledger.  What holds of *)
(* the atomic ledger therefore holds of the code's one.  Last, the log     *)
(* tells the story of the row's status, which is shown of the atomic       *)
(* ledger and carried over in the same way.                                *)
(***************************************************************************)
EXTENDS CommandLedger, TLAPS

(* Fences that were given out were issued before, to one worker each.        *)
FencesIssued ==
    \A c \in Command, w \in Worker, f \in Nat :
        <<c, f>> \in token[w] => f <= command[c].fence

FenceOfOne ==
    \A c \in Command, v, w \in Worker, f \in Nat :
        <<c, f>> \in token[v] /\ <<c, f>> \in token[w] => v = w

(* No event is ahead of its command's fence. *)
LogIssued ==
    \A c \in Command : \A i \in DOMAIN log[c] : log[c][i].fence <= command[c].fence

AtomicInv ==
    TypeOK /\ FencesIssued /\ FenceOfOne /\ OneHolder /\ LogIssued /\ StaleWorkerIsSilent

-----------------------------------------------------------------------------
(* COMMAND_TRANSITIONS leads to statuses, and never back to a command that   *)
(* was not submitted.                                                        *)
LEMMA TransitionsOK ==
    Transitions \in [Status -> SUBSET (Status \ {"absent"})]
BY DEF Transitions, Status

(* What appending one event with fence f does to the facts about the log.    *)
LEMMA RecordStep ==
    ASSUME TypeOK, LogIssued, StaleWorkerIsSilent,
           NEW c \in Command, NEW event, NEW fence \in Nat, NEW bound \in Nat,
           event \in Status \union {"created", "reclaimed", "progress"},
           Record(c, event, fence),
           fence = 0 \/ fence = bound, command[c].fence <= bound
    PROVE  /\ log' \in [Command -> Seq(Event)]
           /\ \A d \in Command \ {c} : log'[d] = log[d]
           /\ \A i \in DOMAIN log'[c] : log'[c][i].fence <= bound
           /\ StaleWorkerIsSilent'
<1> DEFINE e == [event |-> event, fence |-> fence]
<1>1. e \in Event /\ log[c] \in Seq(Event) /\ command[c].fence \in Nat
  BY DEF Event, TypeOK, Row
<1>2. log' = [log EXCEPT ![c] = Append(log[c], e)]
  BY DEF Record
<1>3. log' \in [Command -> Seq(Event)]
  BY <1>1, <1>2 DEF TypeOK
<1>4. \A d \in Command \ {c} : log'[d] = log[d]
  BY <1>2 DEF TypeOK
<1>5. /\ log'[c] = Append(log[c], e)
      /\ DOMAIN log[c] = 1..Len(log[c]) /\ Len(log[c]) \in Nat
      /\ DOMAIN log'[c] = 1..(Len(log[c]) + 1)
  BY <1>1, <1>2 DEF TypeOK
<1>6. \A i \in DOMAIN log'[c] :
         \/ i \in DOMAIN log[c] /\ log'[c][i] = log[c][i]
         \/ i = Len(log[c]) + 1 /\ log'[c][i] = e
  BY <1>1, <1>5
<1>7. \A i \in DOMAIN log[c] : log[c][i].fence \in Nat /\ log[c][i].fence <= bound
  <2>1. \A i \in DOMAIN log[c] : log[c][i] \in Event
    BY <1>1, <1>5
  <2> QED BY <1>1, <2>1 DEF LogIssued, Event
<1>8. \A i \in DOMAIN log'[c] : log'[c][i].fence <= bound
  BY <1>6, <1>7
<1>9. StaleWorkerIsSilent'
  <2>1. SUFFICES ASSUME NEW d \in Command, NEW i \in DOMAIN log'[d], NEW j \in DOMAIN log'[d],
                        i < j, log'[d][i].fence # 0, log'[d][j].fence # 0
                 PROVE  log'[d][i].fence <= log'[d][j].fence
    BY DEF StaleWorkerIsSilent
  <2>2. CASE d # c
    BY <1>4, <2>1, <2>2 DEF StaleWorkerIsSilent
  <2>3. CASE d = c /\ j \in DOMAIN log[c] /\ log'[c][j] = log[c][j]
    <3>1. i \in DOMAIN log[c] /\ log'[c][i] = log[c][i]
      BY <1>5, <1>6, <2>1, <2>3
    <3> QED BY <2>1, <2>3, <3>1 DEF StaleWorkerIsSilent
  <2>4. CASE d = c /\ log'[c][j] = e
    BY <1>8, <2>1, <2>4
  <2> QED BY <1>6, <2>1, <2>2, <2>3, <2>4
<1> QED BY <1>3, <1>4, <1>8, <1>9

LEMMA InitAtomic == Init => AtomicInv
<1> SUFFICES ASSUME Init
             PROVE  AtomicInv
  OBVIOUS
<1>1. TypeOK
  BY DEF Init, TypeOK, Row, Event, Status
<1>2. FencesIssued /\ FenceOfOne /\ OneHolder
  BY DEF Init, FencesIssued, FenceOfOne, OneHolder, Current
<1>3. \A c \in Command : DOMAIN log[c] = {}
  <2>1. \A c \in Command : log[c] = << >>
    BY DEF Init
  <2>2. << >> \in Seq(Event) /\ Len(<< >>) = 0
    OBVIOUS
  <2>3. DOMAIN << >> = 1..0
    BY <2>2
  <2>4. 1..0 = {}
    OBVIOUS
  <2> QED BY <2>1, <2>3, <2>4
<1>4. LogIssued /\ StaleWorkerIsSilent
  BY <1>3 DEF LogIssued, StaleWorkerIsSilent
<1> QED BY <1>1, <1>2, <1>4 DEF AtomicInv

(* A new row for a command that leaves its fence and all tokens alone.       *)
LEMMA SameFenceStep ==
    ASSUME TypeOK, FencesIssued, FenceOfOne, OneHolder,
           NEW c \in Command, NEW row \in Row,
           command' = [command EXCEPT ![c] = row],
           token' \in [Worker -> SUBSET (Command \X Nat)],
           \A w \in Worker : token'[w] \subseteq token[w],
           row.fence = command[c].fence,
           row.status = "running" =>
               command[c].status = "running" /\ row.owner = command[c].owner,
           (row.owner # Nobody) <=> (row.status = "running"),
           row.live => row.status = "running"
    PROVE  /\ command' \in [Command -> Row]
           /\ \A d \in Command : (command'[d].owner # Nobody) <=> (command'[d].status = "running")
           /\ \A d \in Command : command'[d].live => command'[d].status = "running"
           /\ FencesIssued' /\ FenceOfOne' /\ OneHolder'
<1>1. command \in [Command -> Row] /\ command'[c] = row
  BY DEF TypeOK
<1>2. \A d \in Command : d # c => command'[d] = command[d]
  BY <1>1
<1>3. \A d \in Command : command'[d].fence = command[d].fence
  BY <1>1, <1>2
<1>4. command' \in [Command -> Row]
  BY <1>1
<1>5. FencesIssued' /\ FenceOfOne'
  BY <1>3 DEF FencesIssued, FenceOfOne
<1>6. OneHolder'
  <2>1. SUFFICES ASSUME NEW d \in Command, NEW w \in Worker, Current(w, d)'
                 PROVE  w = command'[d].owner
    BY DEF OneHolder
  <2>2. <<d, command[d].fence>> \in token[w]
    BY <1>3, <2>1 DEF Current
  <2>3. CASE d = c
    BY <1>1, <2>1, <2>2, <2>3 DEF Current, OneHolder
  <2>4. CASE d # c
    BY <1>2, <2>1, <2>2, <2>4 DEF Current, OneHolder
  <2> QED BY <2>3, <2>4
<1>7. \A d \in Command : /\ (command'[d].owner # Nobody) <=> (command'[d].status = "running")
                         /\ command'[d].live => command'[d].status = "running"
  BY <1>1, <1>2 DEF TypeOK
<1> QED BY <1>4, <1>5, <1>6, <1>7

LEMMA FencesStay ==
    ASSUME TypeOK, LogIssued,
           NEW c \in Command,
           command' \in [Command -> Row],
           \A d \in Command : d # c => command'[d] = command[d],
           \A d \in Command \ {c} : log'[d] = log[d],
           \A i \in DOMAIN log'[c] : log'[c][i].fence <= command'[c].fence
    PROVE  LogIssued'
BY DEF LogIssued

LEMMA EnterAtomic ==
    ASSUME AtomicInv, NEW c \in Command, NEW status, NEW fence \in {0, command[c].fence},
           Enter(c, status, fence)
    PROVE  AtomicInv'
<1> USE DEF AtomicInv
<1> DEFINE row == Released(command[c], status)
<1>1. /\ command[c] \in Row /\ command[c].fence \in Nat /\ fence \in Nat
      /\ command[c].status \in Status
  BY DEF TypeOK, Row
<1>2. status \in Status \ {"absent", "running"} /\ Record(c, status, fence) /\ token' = token
  BY <1>1, TransitionsOK DEF Enter
<1>3. /\ row \in Row /\ row.fence = command[c].fence /\ row.status # "running"
      /\ row.owner = Nobody /\ ~row.live
  BY <1>1, <1>2 DEF Released, Row
<1>4. command' = [command EXCEPT ![c] = row]
  BY DEF Enter
<1>5. token' \in [Worker -> SUBSET (Command \X Nat)]
  BY <1>2 DEF TypeOK
<1> HIDE DEF row
<1>6. /\ command' \in [Command -> Row]
      /\ \A d \in Command : (command'[d].owner # Nobody) <=> (command'[d].status = "running")
      /\ \A d \in Command : command'[d].live => command'[d].status = "running"
      /\ FencesIssued' /\ FenceOfOne' /\ OneHolder'
  BY <1>2, <1>3, <1>4, <1>5, SameFenceStep
<1>7. /\ log' \in [Command -> Seq(Event)]
      /\ \A d \in Command \ {c} : log'[d] = log[d]
      /\ \A i \in DOMAIN log'[c] : log'[c][i].fence <= command[c].fence
      /\ StaleWorkerIsSilent'
  BY <1>1, <1>2, RecordStep
<1>8. LogIssued'
  <2>1. command'[c].fence = command[c].fence /\ \A d \in Command : d # c => command'[d] = command[d]
    BY <1>3, <1>4 DEF TypeOK
  <2> QED BY <1>6, <1>7, <2>1, FencesStay
<1> QED BY <1>5, <1>6, <1>7, <1>8 DEF TypeOK

(* Lease times change while the row keeps its status, owner and fence.       *)
LEMMA LeaseAtomic ==
    ASSUME AtomicInv, NEW c \in Command, NEW live \in BOOLEAN,
           command[c].status = "running",
           command' = [command EXCEPT ![c] = [@ EXCEPT !.live = live]],
           UNCHANGED <<log, token>>
    PROVE  AtomicInv'
<1> USE DEF AtomicInv
<1> DEFINE row == [command[c] EXCEPT !.live = live]
<1>1. command[c] \in Row
  BY DEF TypeOK
<1>2. /\ row \in Row /\ row.fence = command[c].fence /\ row.status = command[c].status
      /\ row.owner = command[c].owner /\ row.owner # Nobody
  BY <1>1 DEF Row, TypeOK
<1>3. command' = [command EXCEPT ![c] = row]
  OBVIOUS
<1>4. token' \in [Worker -> SUBSET (Command \X Nat)]
  BY DEF TypeOK
<1> HIDE DEF row
<1>5. /\ command' \in [Command -> Row]
      /\ \A d \in Command : (command'[d].owner # Nobody) <=> (command'[d].status = "running")
      /\ \A d \in Command : command'[d].live => command'[d].status = "running"
      /\ FencesIssued' /\ FenceOfOne' /\ OneHolder'
  BY <1>2, <1>3, <1>4, SameFenceStep
<1>6. LogIssued' /\ StaleWorkerIsSilent' /\ log' \in [Command -> Seq(Event)]
  <2>1. \A d \in Command : command'[d].fence = command[d].fence
    BY <1>2, <1>3 DEF TypeOK
  <2> QED BY <2>1 DEF LogIssued, StaleWorkerIsSilent, TypeOK
<1> QED BY <1>4, <1>5, <1>6 DEF TypeOK

LEMMA SubmitAtomic ==
    ASSUME AtomicInv, NEW c \in Command, Submit(c)
    PROVE  AtomicInv'
<1> USE DEF AtomicInv
<1>1. /\ command[c] \in Row /\ command[c].status = "absent" /\ command[c].fence \in Nat
      /\ command[c].owner = Nobody /\ ~command[c].live
  BY DEF Submit, TypeOK, Row
<1>2. PICK first \in {"queued", "waiting_approval"} :
        /\ command' = [command EXCEPT ![c].status = first]
        /\ log' = [log EXCEPT ![c] = << [event |-> "created", fence |-> 0],
                                        [event |-> first, fence |-> 0] >>]
  BY DEF Submit
<1> DEFINE row == [command[c] EXCEPT !.status = first]
           events == << [event |-> "created", fence |-> 0], [event |-> first, fence |-> 0] >>
<1>3. /\ row \in Row /\ row.fence = command[c].fence /\ row.status # "running"
      /\ row.owner = Nobody /\ ~row.live
  BY <1>1 DEF Row, Status
<1>4. command' = [command EXCEPT ![c] = row]
  BY <1>2
<1>5. token' \in [Worker -> SUBSET (Command \X Nat)] /\ token' = token
  BY DEF TypeOK, Submit
<1> HIDE DEF row
<1>6. /\ command' \in [Command -> Row]
      /\ \A d \in Command : (command'[d].owner # Nobody) <=> (command'[d].status = "running")
      /\ \A d \in Command : command'[d].live => command'[d].status = "running"
      /\ FencesIssued' /\ FenceOfOne' /\ OneHolder'
  BY <1>3, <1>4, <1>5, SameFenceStep
<1>7. /\ events \in Seq(Event)
      /\ \A i \in DOMAIN events : events[i].fence = 0
  BY DEF Event, Status
<1>8. log'[c] = events /\ \A d \in Command \ {c} : log'[d] = log[d]
  BY <1>2 DEF TypeOK
<1>9. log' \in [Command -> Seq(Event)]
  BY <1>2, <1>7 DEF TypeOK
<1> HIDE DEF events
<1>10. \A i \in DOMAIN log'[c] : log'[c][i].fence = 0
  BY <1>7, <1>8
<1>11. LogIssued'
  <2>1. command'[c].fence \in Nat
        /\ \A d \in Command : d # c => command'[d] = command[d]
    BY <1>4, <1>6 DEF TypeOK, Row
  <2>2. \A i \in DOMAIN log'[c] : log'[c][i].fence <= command'[c].fence
    BY <1>10, <2>1
  <2> QED BY <1>6, <1>8, <2>1, <2>2, FencesStay
<1>12. StaleWorkerIsSilent'
  <2>1. SUFFICES ASSUME NEW d \in Command, NEW i \in DOMAIN log'[d], NEW j \in DOMAIN log'[d],
                        i < j, log'[d][i].fence # 0, log'[d][j].fence # 0
                 PROVE  log'[d][i].fence <= log'[d][j].fence
    BY DEF StaleWorkerIsSilent
  <2>2. d # c
    BY <1>10, <2>1
  <2> QED BY <1>8, <2>1, <2>2 DEF StaleWorkerIsSilent
<1> QED BY <1>5, <1>6, <1>9, <1>11, <1>12 DEF TypeOK

LEMMA ClaimAtomic ==
    ASSUME AtomicInv, NEW w \in Worker, NEW c \in Command, Claim(w, c)
    PROVE  AtomicInv'
<1> USE DEF AtomicInv
<1> DEFINE next == command[c].fence + 1
           row == [status |-> "running", owner |-> w, fence |-> next, live |-> TRUE]
<1>1. command[c] \in Row /\ command[c].fence \in Nat /\ next \in Nat
  BY DEF TypeOK, Row
<1>2. PICK event \in {"reclaimed", "running"} : Record(c, event, next)
  BY DEF Claim
<1>3. /\ command' = [command EXCEPT ![c] = row]
      /\ token' = [token EXCEPT ![w] = token[w] \union {<<c, next>>}]
  BY DEF Claim
<1>4. row \in Row /\ w # Nobody
  BY <1>1, LedgerAssumption DEF Row, Status
<1>5. /\ command' \in [Command -> Row] /\ command'[c] = row
      /\ \A d \in Command : d # c => command'[d] = command[d]
  BY <1>3, <1>4 DEF TypeOK
<1>6. /\ token' \in [Worker -> SUBSET (Command \X Nat)]
      /\ \A v \in Worker : token'[v] \subseteq token[v] \union {<<c, next>>}
      /\ \A v \in Worker : v # w => token'[v] = token[v]
  BY <1>1, <1>3 DEF TypeOK
<1>7. \A v \in Worker : <<c, next>> \notin token[v]
  BY <1>1 DEF FencesIssued
<1>8. FencesIssued'
  <2>1. SUFFICES ASSUME NEW d \in Command, NEW v \in Worker, NEW f \in Nat, <<d, f>> \in token'[v]
                 PROVE  f <= command'[d].fence
    BY DEF FencesIssued
  <2>2. CASE <<d, f>> \in token[v]
    <3>1. f <= command[d].fence
      BY <2>2 DEF FencesIssued
    <3> QED BY <1>1, <1>5, <3>1
  <2>3. CASE <<d, f>> = <<c, next>>
    BY <1>1, <1>5, <2>3
  <2> QED BY <1>6, <2>1, <2>2, <2>3
<1>9. FenceOfOne'
  <2>1. SUFFICES ASSUME NEW d \in Command, NEW u \in Worker, NEW v \in Worker, NEW f \in Nat,
                        <<d, f>> \in token'[u], <<d, f>> \in token'[v]
                 PROVE  u = v
    BY DEF FenceOfOne
  <2>2. CASE <<d, f>> = <<c, next>>
    BY <1>6, <1>7, <2>1, <2>2
  <2>3. CASE <<d, f>> # <<c, next>>
    BY <1>6, <2>1, <2>3 DEF FenceOfOne
  <2> QED BY <2>2, <2>3
<1>10. OneHolder'
  <2>1. SUFFICES ASSUME NEW d \in Command, NEW v \in Worker, Current(v, d)'
                 PROVE  v = command'[d].owner
    BY DEF OneHolder
  <2>2. CASE d = c
    BY <1>5, <1>6, <1>7, <2>1, <2>2 DEF Current
  <2>3. CASE d # c
    <3>1. command'[d] = command[d] /\ <<d, command[d].fence>> \in token[v]
      BY <1>5, <1>6, <2>1, <2>3 DEF Current
    <3> QED BY <2>1, <3>1 DEF Current, OneHolder
  <2> QED BY <2>2, <2>3
<1>11. /\ log' \in [Command -> Seq(Event)]
       /\ \A d \in Command \ {c} : log'[d] = log[d]
       /\ \A i \in DOMAIN log'[c] : log'[c][i].fence <= next
       /\ StaleWorkerIsSilent'
  <2>1. event \in Status \union {"created", "reclaimed", "progress"} /\ command[c].fence <= next
    BY <1>1 DEF Status
  <2> HIDE DEF next
  <2> QED BY <1>1, <1>2, <2>1, RecordStep
<1>12. LogIssued'
  BY <1>5, <1>11, FencesStay
<1>13. \A d \in Command : /\ (command'[d].owner # Nobody) <=> (command'[d].status = "running")
                          /\ command'[d].live => command'[d].status = "running"
  <2>1. command'[c].owner = w /\ command'[c].status = "running"
    BY <1>5
  <2>2. \A d \in Command : d # c =>
            /\ (command'[d].owner # Nobody) <=> (command'[d].status = "running")
            /\ command'[d].live => command'[d].status = "running"
    BY <1>5 DEF TypeOK
  <2> QED BY <1>4, <2>1, <2>2
<1> QED BY <1>5, <1>6, <1>8, <1>9, <1>10, <1>11, <1>12, <1>13 DEF TypeOK

(* An event alone, under a fence that is not ahead of the row's.             *)
LEMMA EventAtomic ==
    ASSUME AtomicInv, NEW c \in Command, NEW fence \in {0, command[c].fence},
           Record(c, "progress", fence), UNCHANGED <<command, token>>
    PROVE  AtomicInv'
<1> USE DEF AtomicInv
<1>1. command[c].fence \in Nat /\ fence \in Nat
  BY DEF TypeOK, Row
<1>2. /\ log' \in [Command -> Seq(Event)]
      /\ \A d \in Command \ {c} : log'[d] = log[d]
      /\ \A i \in DOMAIN log'[c] : log'[c][i].fence <= command[c].fence
      /\ StaleWorkerIsSilent'
  BY <1>1, RecordStep
<1>3. LogIssued'
  BY <1>2 DEF LogIssued
<1> QED BY <1>2, <1>3 DEF TypeOK, FencesIssued, FenceOfOne, OneHolder, Current

LEMMA CrashAtomic ==
    ASSUME AtomicInv, NEW w \in Worker, Crash(w)
    PROVE  AtomicInv'
<1> USE DEF AtomicInv
<1>1. /\ token' \in [Worker -> SUBSET (Command \X Nat)]
      /\ \A v \in Worker : token'[v] \subseteq token[v]
  BY DEF Crash, TypeOK
<1>2. command' = command /\ log' = log
  BY DEF Crash
<1>3. FencesIssued' /\ FenceOfOne' /\ OneHolder'
  BY <1>1, <1>2 DEF FencesIssued, FenceOfOne, OneHolder, Current
<1> QED BY <1>1, <1>2, <1>3 DEF TypeOK, LogIssued, StaleWorkerIsSilent

LEMMA AtomicStep == AtomicInv /\ [Next]_ledger => AtomicInv'
<1> SUFFICES ASSUME AtomicInv, [Next]_ledger
             PROVE  AtomicInv'
  OBVIOUS
<1>1. ASSUME NEW c \in Command, Submit(c)
      PROVE  AtomicInv'
  BY <1>1, SubmitAtomic
<1>2. ASSUME NEW c \in Command, NEW status \in Status, Move(c, status)
      PROVE  AtomicInv'
  BY <1>2, EnterAtomic DEF Move
<1>3. ASSUME NEW c \in Command, Interrupt(c)
      PROVE  AtomicInv'
  BY <1>3, EnterAtomic DEF Interrupt
<1>4. ASSUME NEW c \in Command, Remark(c)
      PROVE  AtomicInv'
  BY <1>4, EventAtomic DEF Remark
<1>5. ASSUME NEW c \in Command, LeaseLapses(c)
      PROVE  AtomicInv'
  BY <1>5, LeaseAtomic DEF LeaseLapses
<1>6. ASSUME NEW w \in Worker, NEW c \in Command, Claim(w, c)
      PROVE  AtomicInv'
  BY <1>6, ClaimAtomic
<1>7. ASSUME NEW w \in Worker, NEW c \in Command, NEW status \in Status, Finish(w, c, status)
      PROVE  AtomicInv'
  BY <1>7, EnterAtomic DEF Finish
<1>8. ASSUME NEW w \in Worker, NEW c \in Command, Report(w, c)
      PROVE  AtomicInv'
  BY <1>8, EventAtomic DEF Report
<1>9. ASSUME NEW w \in Worker, NEW c \in Command, Abandon(w, c)
      PROVE  AtomicInv'
  BY <1>9, LeaseAtomic DEF Abandon, Current
<1>10. ASSUME NEW w \in Worker, NEW c \in Command, Renew(w, c)
       PROVE  AtomicInv'
  BY <1>10, LeaseAtomic DEF Renew, Current
<1>11. ASSUME NEW w \in Worker, Crash(w)
       PROVE  AtomicInv'
  BY <1>11, CrashAtomic
<1>12. ASSUME UNCHANGED ledger
       PROVE  AtomicInv'
  BY <1>12 DEF ledger, AtomicInv, TypeOK, FencesIssued, FenceOfOne, OneHolder, Current,
               LogIssued, StaleWorkerIsSilent
<1> QED BY <1>1, <1>2, <1>3, <1>4, <1>5, <1>6, <1>7, <1>8, <1>9, <1>10, <1>11, <1>12 DEF Next

THEOREM AtomicLedgerInvariant == Spec => []AtomicInv
<1>1. Init => AtomicInv
  BY InitAtomic
<1>2. AtomicInv /\ [Next]_ledger => AtomicInv'
  BY AtomicStep
<1> QED BY <1>1, <1>2, PTL DEF Spec

-----------------------------------------------------------------------------
(* The log retells the status.  LogRetellsStatus needs no strengthening:     *)
(* whatever is appended after the last announced status follows the status   *)
(* of the row, which the second half of the property says is the same.       *)

Follows(from, event) ==
    \/ from = "created" /\ Reached(event) \in {"queued", "waiting_approval"}
    \/ from = "running" /\ event = "reclaimed"
    \/ from # "created" /\ Reached(event) \in Transitions[from]

(* The two halves of the property, of one command whose events are es and    *)
(* whose status is s.                                                        *)
Announces(es) == {i \in DOMAIN es : es[i].event # "progress"}
Chained(es) ==
    \A i, j \in Announces(es) :
        i < j /\ (\A k \in Announces(es) : k <= i \/ j <= k)
            => Follows(Reached(es[i].event), es[j].event)
EndsIn(es, s) ==
    \A i \in Announces(es) :
        (\A k \in Announces(es) : k <= i) => Reached(es[i].event) = s

LEMMA RetoldParts ==
    LogRetellsStatus
        <=> \A c \in Command : Chained(log[c]) /\ EndsIn(log[c], command[c].status)
BY DEF LogRetellsStatus, StatusEvents, Chained, EndsIn, Announces, Follows

(* Nothing, or an event that announces no status, was appended to es.        *)
LEMMA AppendEvent ==
    ASSUME NEW es \in Seq(Event), NEW e \in Event, NEW s \in Status, NEW t \in Status,
           Chained(es), EndsIn(es, s),
           \/ e.event = "progress" /\ t = s
           \/ e.event # "progress" /\ Follows(s, e.event) /\ Reached(e.event) = t
    PROVE  Chained(Append(es, e)) /\ EndsIn(Append(es, e), t)
<1> DEFINE new == Append(es, e)
           n == Len(es) + 1
<1>1. /\ DOMAIN es = 1..Len(es) /\ Len(es) \in Nat
      /\ DOMAIN new = 1..n
      /\ new[n] = e
      /\ \A i \in DOMAIN es : new[i] = es[i]
  OBVIOUS
<1> HIDE DEF new
<1>2. n \notin DOMAIN es /\ \A i \in DOMAIN new : i \in DOMAIN es \/ i = n
  BY <1>1
<1>3. \A i \in DOMAIN es : i < n /\ i \in Int /\ i \in DOMAIN new
  BY <1>1
<1>4. CASE e.event = "progress" /\ t = s
  <2>1. Announces(new) = Announces(es)
    BY <1>1, <1>2, <1>3, <1>4 DEF Announces
  <2>2. \A i \in Announces(es) : new[i] = es[i]
    BY <1>1 DEF Announces
  <2> QED BY <1>4, <2>1, <2>2 DEF new, Chained, EndsIn
<1>5. CASE e.event # "progress" /\ Follows(s, e.event) /\ Reached(e.event) = t
  <2>1. /\ Announces(new) = Announces(es) \union {n}
        /\ \A i \in Announces(es) : new[i] = es[i] /\ i < n /\ i \in Int
    BY <1>1, <1>2, <1>3, <1>5 DEF Announces
  <2>2. n \in Int
    BY <1>1
  <2> HIDE DEF n
  <2>3. Chained(new)
    <3>1. SUFFICES ASSUME NEW i \in Announces(new), NEW j \in Announces(new), i < j,
                          \A k \in Announces(new) : k <= i \/ j <= k
                   PROVE  Follows(Reached(new[i].event), new[j].event)
      BY DEF Chained
    <3>2. CASE j = n
      <4>1. i \in Announces(es)
        BY <2>1, <2>2, <3>1, <3>2
      <4>2. \A k \in Announces(es) : k <= i
        BY <2>1, <2>2, <3>1, <3>2
      <4>3. Reached(es[i].event) = s
        BY <4>1, <4>2 DEF EndsIn
      <4> QED BY <1>1, <1>5, <2>1, <3>2, <4>1, <4>3 DEF n
    <3>3. CASE j # n
      <4>1. i \in Announces(es) /\ j \in Announces(es)
        BY <2>1, <2>2, <3>1, <3>3
      <4>2. \A k \in Announces(es) : k <= i \/ j <= k
        BY <2>1, <3>1
      <4> QED BY <2>1, <3>1, <4>1, <4>2 DEF Chained
    <3> QED BY <3>2, <3>3
  <2>4. EndsIn(new, t)
    <3>1. SUFFICES ASSUME NEW i \in Announces(new), \A k \in Announces(new) : k <= i
                   PROVE  Reached(new[i].event) = t
      BY DEF EndsIn
    <3>2. i = n
      BY <2>1, <2>2, <3>1
    <3> QED BY <1>1, <1>5, <3>2 DEF n
  <2> QED BY <2>3, <2>4 DEF new
<1> QED BY <1>4, <1>5

(* A step that appends one event to c's log and gives c the status it names. *)
LEMMA RecordRetells ==
    ASSUME TypeOK, LogRetellsStatus, NEW c \in Command, NEW event, NEW fence \in Nat,
           Record(c, event, fence),
           event \in (Status \union {"created", "reclaimed", "progress"}),
           command'[c].status \in Status,
           \A d \in Command : d # c => command'[d] = command[d],
           \/ event = "progress" /\ command'[c].status = command[c].status
           \/ /\ event # "progress" /\ Follows(command[c].status, event)
              /\ Reached(event) = command'[c].status
    PROVE  LogRetellsStatus'
<1> DEFINE e == [event |-> event, fence |-> fence]
<1>1. e \in Event /\ e.event = event
  BY DEF Event
<1>2. log[c] \in Seq(Event) /\ command[c].status \in Status
  BY DEF TypeOK, Row
<1>3. log'[c] = Append(log[c], e) /\ \A d \in Command : d # c => log'[d] = log[d]
  BY DEF Record, TypeOK
<1> HIDE DEF e
<1>4. Chained(log[c]) /\ EndsIn(log[c], command[c].status)
  BY RetoldParts
<1>5. Chained(Append(log[c], e)) /\ EndsIn(Append(log[c], e), command'[c].status)
  BY <1>1, <1>2, <1>4, AppendEvent
<1>6. \A d \in Command : Chained(log'[d]) /\ EndsIn(log'[d], command'[d].status)
  <2> TAKE d \in Command
  <2>1. CASE d = c
    BY <1>3, <1>5, <2>1
  <2>2. CASE d # c
    BY <1>3, <2>2, RetoldParts
  <2> QED BY <2>1, <2>2
<1> QED BY <1>6 DEF LogRetellsStatus, StatusEvents, Chained, EndsIn, Announces, Follows

(* The status of the row, and so of the log, stays as it is.                 *)
LEMMA QuietRetells ==
    ASSUME LogRetellsStatus, log' = log,
           \A c \in Command : command'[c].status = command[c].status
    PROVE  LogRetellsStatus'
BY DEF LogRetellsStatus, StatusEvents

LEMMA SubmitRetells ==
    ASSUME TypeOK, LogRetellsStatus, NEW c \in Command, Submit(c)
    PROVE  LogRetellsStatus'
<1>1. PICK first \in {"queued", "waiting_approval"} :
        /\ command' = [command EXCEPT ![c].status = first]
        /\ log' = [log EXCEPT ![c] = << [event |-> "created", fence |-> 0],
                                        [event |-> first, fence |-> 0] >>]
  BY DEF Submit
<1> DEFINE es == << [event |-> "created", fence |-> 0], [event |-> first, fence |-> 0] >>
<1>2. /\ DOMAIN es = {1, 2} /\ es[1].event = "created" /\ es[2].event = first
  OBVIOUS
<1>3. /\ log'[c] = es /\ \A d \in Command : d # c => log'[d] = log[d]
      /\ \A d \in Command : d # c => command'[d] = command[d]
  BY <1>1 DEF TypeOK
<1>4. command'[c].status = first
  BY <1>1 DEF TypeOK, Row
<1> HIDE DEF es
<1>5. Announces(es) = {1, 2}
  BY <1>2 DEF Announces
<1>6. Chained(es) /\ EndsIn(es, first)
  BY <1>2, <1>5 DEF Chained, EndsIn, Follows, Reached
<1>7. \A d \in Command : Chained(log'[d]) /\ EndsIn(log'[d], command'[d].status)
  <2> TAKE d \in Command
  <2>1. CASE d = c
    BY <1>3, <1>4, <1>6, <2>1
  <2>2. CASE d # c
    BY <1>3, <2>2, RetoldParts
  <2> QED BY <2>1, <2>2
<1> QED BY <1>7 DEF LogRetellsStatus, StatusEvents, Chained, EndsIn, Announces, Follows

LEMMA EnterRetells ==
    ASSUME TypeOK, LogRetellsStatus, NEW c \in Command, NEW status,
           NEW fence \in {0, command[c].fence}, Enter(c, status, fence)
    PROVE  LogRetellsStatus'
<1>1. fence \in Nat /\ command[c].status \in Status
  BY DEF TypeOK, Row
<1>2. /\ status \in Transitions[command[c].status] /\ status \in Status
      /\ Record(c, status, fence)
  BY <1>1, TransitionsOK DEF Enter
<1>3. /\ command'[c].status = status
      /\ \A d \in Command : d # c => command'[d] = command[d]
  BY DEF Enter, Released, TypeOK
<1>4. /\ status \notin {"created", "reclaimed", "progress"}
      /\ command[c].status # "created"
  BY <1>1, <1>2 DEF Status
<1>5. Follows(command[c].status, status) /\ Reached(status) = status
  BY <1>2, <1>4 DEF Follows, Reached
<1> QED BY <1>1, <1>2, <1>3, <1>4, <1>5, RecordRetells

LEMMA ClaimRetells ==
    ASSUME TypeOK, LogRetellsStatus, NEW w \in Worker, NEW c \in Command, Claim(w, c)
    PROVE  LogRetellsStatus'
<1> DEFINE event == IF command[c].status = "running" THEN "reclaimed" ELSE "running"
           next == command[c].fence + 1
<1>1. next \in Nat /\ command[c].status \in {"queued", "running"}
  BY DEF TypeOK, Row, Claim
<1>2. /\ Record(c, event, next)
      /\ command'[c].status = "running"
      /\ \A d \in Command : d # c => command'[d] = command[d]
  BY DEF Claim, TypeOK
<1>3. /\ event # "progress" /\ Reached(event) = "running"
      /\ event \in (Status \union {"created", "reclaimed", "progress"})
      /\ "running" \in Status
  BY DEF Reached, Status
<1>4. "running" \in Transitions["queued"]
  BY DEF Transitions, Status
<1>5. Follows(command[c].status, event)
  BY <1>1, <1>4 DEF Follows, Reached
<1> HIDE DEF event, next
<1> QED BY <1>1, <1>2, <1>3, <1>5, RecordRetells

LEMMA EventRetells ==
    ASSUME TypeOK, LogRetellsStatus, NEW c \in Command, NEW fence \in {0, command[c].fence},
           Record(c, "progress", fence), command' = command
    PROVE  LogRetellsStatus'
<1>1. fence \in Nat /\ command[c].status \in Status
  BY DEF TypeOK, Row
<1> QED BY <1>1, RecordRetells

LEMMA LeaseRetells ==
    ASSUME TypeOK, LogRetellsStatus, NEW c \in Command, NEW live,
           command' = [command EXCEPT ![c] = [@ EXCEPT !.live = live]], log' = log
    PROVE  LogRetellsStatus'
<1>1. \A d \in Command : command'[d].status = command[d].status
  BY DEF TypeOK, Row
<1> QED BY <1>1, QuietRetells

LEMMA RetellStep == TypeOK /\ LogRetellsStatus /\ [Next]_ledger => LogRetellsStatus'
<1> SUFFICES ASSUME TypeOK, LogRetellsStatus, [Next]_ledger
             PROVE  LogRetellsStatus'
  OBVIOUS
<1>1. ASSUME NEW c \in Command, NEW status \in Status, Move(c, status) \/ Interrupt(c)
      PROVE  LogRetellsStatus'
  BY <1>1, EnterRetells DEF Move, Interrupt
<1>2. ASSUME NEW w \in Worker, NEW c \in Command, NEW status \in Status, Finish(w, c, status)
      PROVE  LogRetellsStatus'
  BY <1>2, EnterRetells DEF Finish
<1>3. ASSUME NEW c \in Command, Remark(c)
      PROVE  LogRetellsStatus'
  BY <1>3, EventRetells DEF Remark
<1>4. ASSUME NEW w \in Worker, NEW c \in Command, Report(w, c)
      PROVE  LogRetellsStatus'
  BY <1>4, EventRetells DEF Report
<1>5. ASSUME NEW c \in Command, LeaseLapses(c)
      PROVE  LogRetellsStatus'
  BY <1>5, LeaseRetells DEF LeaseLapses
<1>6. ASSUME NEW w \in Worker, NEW c \in Command, Abandon(w, c) \/ Renew(w, c)
      PROVE  LogRetellsStatus'
  BY <1>6, LeaseRetells DEF Abandon, Renew
<1>7. ASSUME UNCHANGED ledger \/ \E w \in Worker : Crash(w)
      PROVE  LogRetellsStatus'
  BY <1>7, QuietRetells DEF Crash, ledger
<1>8. \A c \in Command : Submit(c) => LogRetellsStatus'
  BY SubmitRetells
<1>9. \A w \in Worker, c \in Command : Claim(w, c) => LogRetellsStatus'
  BY ClaimRetells
<1>10. \A c \in Command : Interrupt(c) => LogRetellsStatus'
  <2>1. "queued" \in Status
    BY DEF Status
  <2> QED BY <1>1, <2>1
<1> QED BY <1>1, <1>2, <1>3, <1>4, <1>5, <1>6, <1>7, <1>8, <1>9, <1>10 DEF Next

LEMMA InitRetells == Init => LogRetellsStatus
<1> SUFFICES ASSUME Init
             PROVE  LogRetellsStatus
  OBVIOUS
<1>1. \A c \in Command : log[c] = << >>
  BY DEF Init
<1>2. DOMAIN << >> = 1..0 /\ 1..0 = {}
  <2>1. << >> \in Seq(Event) /\ Len(<< >>) = 0
    OBVIOUS
  <2> QED BY <2>1
<1>3. \A c \in Command : StatusEvents(c) = {}
  BY <1>1, <1>2 DEF StatusEvents
<1> QED BY <1>3 DEF LogRetellsStatus

-----------------------------------------------------------------------------
(* What a call that has begun knows: the checks it made on the row it read,  *)
(* and the claim it acts for.                                                *)
Backed(w, p) == p.seen.status = "running" /\ <<p.command, p.seen.fence>> \in token[w]

CallsInv ==
    /\ CallsOK
    /\ \A w \in Worker : pending[w] # NoCall =>
          /\ pending[w].op = "claim" => pending[w].seen.status \in {"queued", "running"}
          /\ pending[w].op = "move" =>
                /\ pending[w].seen.status # "running"
                /\ pending[w].status \in Transitions[pending[w].seen.status] \ {"running"}
          /\ pending[w].op = "finish" =>
                Backed(w, pending[w]) /\ pending[w].status \in {"succeeded", "failed", "cancelled"}
          /\ pending[w].op = "interrupt" =>
                pending[w].seen.status = "running" /\ pending[w].status = "interrupted"
          /\ pending[w].op \in {"report", "abandon", "renew"} => Backed(w, pending[w])
          /\ pending[w].op = "remark" => command[pending[w].command].status # "absent"

LedgerInv == AtomicInv /\ CallsInv

LEMMA InitCalls == LedgerInit => CallsInv
BY DEF LedgerInit, CallsInv, CallsOK

(* A submitted command never becomes absent again. *)
LEMMA StaysSubmitted ==
    ASSUME TypeOK, [Next]_ledger, NEW c \in Command, command[c].status # "absent"
    PROVE  command'[c].status # "absent"
<1> USE DEF TypeOK
<1>0. command[c].status \in Status /\ \A d \in Command : command[d].status \in Status
  BY DEF Row
<1>1. ASSUME NEW d \in Command, NEW status, NEW fence, Enter(d, status, fence)
      PROVE  command'[c].status # "absent"
  <2>1. status # "absent" /\ Released(command[d], status).status = status
    BY <1>0, <1>1, TransitionsOK DEF Enter, Released
  <2>2. command' = [command EXCEPT ![d] = Released(command[d], status)]
    BY <1>1 DEF Enter
  <2> QED BY <2>1, <2>2
<1>2. ASSUME NEW d \in Command, Submit(d)
      PROVE  command'[c].status # "absent"
  BY <1>2 DEF Submit
<1>3. ASSUME NEW d \in Command, NEW w \in Worker, Claim(w, d)
      PROVE  command'[c].status # "absent"
  <2> DEFINE row == [status |-> "running", owner |-> w, fence |-> command[d].fence + 1,
                     live |-> TRUE]
  <2>1. command' = [command EXCEPT ![d] = row] /\ row.status = "running"
    BY <1>3 DEF Claim
  <2> HIDE DEF row
  <2> QED BY <2>1
<1>4. ASSUME NEW d \in Command, NEW live,
             command' = [command EXCEPT ![d] = [@ EXCEPT !.live = live]]
      PROVE  command'[c].status # "absent"
  <2> DEFINE row == [command[d] EXCEPT !.live = live]
  <2>1. row.status = command[d].status /\ command' = [command EXCEPT ![d] = row]
    BY <1>4 DEF Row
  <2> HIDE DEF row
  <2> QED BY <2>1
<1>5. CASE command' = command
  BY <1>5
<1>6. ASSUME NEW d \in Command,
             \/ \E status \in Status : Move(d, status)
             \/ Interrupt(d) \/ Remark(d) \/ LeaseLapses(d)
      PROVE  command'[c].status # "absent"
  <2>1. CASE LeaseLapses(d)
    BY <1>4, <2>1 DEF LeaseLapses
  <2> QED BY <1>1, <1>5, <1>6, <2>1 DEF Move, Interrupt, Remark
<1>7. ASSUME NEW w \in Worker, NEW d \in Command,
             \/ \E status \in Status : Finish(w, d, status)
             \/ Report(w, d) \/ Abandon(w, d) \/ Renew(w, d)
      PROVE  command'[c].status # "absent"
  <2>1. CASE Abandon(w, d)
    BY <1>4, <2>1 DEF Abandon
  <2>2. CASE Renew(w, d)
    BY <1>4, <2>2 DEF Renew
  <2> QED BY <1>1, <1>5, <1>7, <2>1, <2>2 DEF Finish, Report
<1>8. CASE \E w \in Worker : Crash(w)
  BY <1>5, <1>8 DEF Crash
<1> QED BY <1>2, <1>3, <1>5, <1>6, <1>7, <1>8 DEF Next, ledger

(* Calls go on while others act: what they know of themselves stays true.    *)
LEMMA CallsStay ==
    ASSUME LedgerInv, [Next]_ledger,
           pending' \in [Worker -> Call \union {NoCall}],
           \A w \in Worker : \/ pending'[w] = NoCall
                             \/ pending'[w] = pending[w] /\ token[w] \subseteq token'[w]
    PROVE  CallsInv'
<1>1. \A c \in Command : command[c].status # "absent" => command'[c].status # "absent"
  BY StaysSubmitted DEF LedgerInv, AtomicInv
<1>2. \A w \in Worker : pending[w] # NoCall => pending[w].command \in Command
  BY DEF LedgerInv, CallsInv, CallsOK, Call
<1>3. SUFFICES ASSUME NEW w \in Worker, pending'[w] # NoCall
               PROVE  CallsInv!2!(w)'
  BY DEF CallsInv, CallsOK
<1>4. pending'[w] = pending[w] /\ token[w] \subseteq token'[w]
  BY <1>3
<1> QED BY <1>1, <1>2, <1>3, <1>4 DEF LedgerInv, CallsInv, Backed

Begins(w, c) ==
    \/ BeginClaim(w, c) \/ BeginMove(w, c) \/ BeginFinish(w, c) \/ BeginInterrupt(w, c)
    \/ BeginReport(w, c) \/ BeginRemark(w, c) \/ BeginAbandon(w, c) \/ BeginRenew(w, c)

(* A read is no step of the atomic ledger, and it leaves its checks behind.  *)
LEMMA BeginStep ==
    ASSUME LedgerInv, NEW w \in Worker, NEW c \in Command, Begins(w, c)
    PROVE  UNCHANGED ledger /\ CallsInv'
<1> USE DEF LedgerInv, CallsInv, CallsOK
<1>1. /\ command[c] \in Row /\ command[c].status \in Status
      /\ Transitions[command[c].status] \subseteq Status
  BY TransitionsOK DEF AtomicInv, TypeOK, Row
<1>2. PICK op \in Operation, status \in Status : Begin(w, c, op, status)
  BY <1>1 DEF Begins, BeginClaim, BeginMove, BeginFinish, BeginInterrupt, BeginReport,
              BeginRemark, BeginAbandon, BeginRenew, Operation, Status
<1> DEFINE call == [op |-> op, command |-> c, seen |-> command[c], status |-> status]
<1>3. /\ UNCHANGED ledger /\ pending[w] = NoCall
      /\ pending' = [pending EXCEPT ![w] = call]
  BY <1>2 DEF Begin
<1>4. call \in Call
  BY <1>1 DEF Call
<1>5. /\ CallsOK' /\ pending'[w] = call
      /\ \A v \in Worker : v # w => pending'[v] = pending[v]
  BY <1>3, <1>4
<1>6. command' = command /\ token' = token
  BY <1>3 DEF ledger
<1>7. \/ BeginClaim(w, c) /\ op = "claim"
      \/ /\ BeginMove(w, c) /\ op = "move"
         /\ status \in Transitions[command[c].status] \ {"running"}
      \/ BeginFinish(w, c) /\ op = "finish" /\ status \in {"succeeded", "failed", "cancelled"}
      \/ BeginInterrupt(w, c) /\ op = "interrupt" /\ status = "interrupted"
      \/ BeginReport(w, c) /\ op = "report"
      \/ BeginRemark(w, c) /\ op = "remark"
      \/ BeginAbandon(w, c) /\ op = "abandon"
      \/ BeginRenew(w, c) /\ op = "renew"
  <2>1. \A o, s : Begin(w, c, o, s) => o = op /\ s = status
    <3> SUFFICES ASSUME NEW o, NEW s, Begin(w, c, o, s)
                 PROVE  o = op /\ s = status
      OBVIOUS
    <3>1. pending'[w] = [op |-> o, command |-> c, seen |-> command[c], status |-> s]
      BY DEF Begin
    <3> QED BY <1>5, <3>1
  <2> QED BY <2>1 DEF Begins, BeginClaim, BeginMove, BeginFinish, BeginInterrupt,
                      BeginReport, BeginRemark, BeginAbandon, BeginRenew
<1>8. SUFFICES ASSUME NEW v \in Worker, pending'[v] # NoCall
               PROVE  CallsInv!2!(v)'
  BY <1>3, <1>5
<1>9. CASE v # w
  BY <1>5, <1>6, <1>8, <1>9 DEF Backed
<1>10. CASE v = w
  <2>1. /\ call.op = op /\ call.command = c /\ call.seen = command[c] /\ call.status = status
    OBVIOUS
  <2> HIDE DEF call
  <2>2. Leased(w, c) \/ (Running(c) /\ Holds(w, c)) => Backed(w, call)
    BY <1>6, <2>1 DEF Leased, Running, Holds, Backed
  <2>3. op = "claim" => BeginClaim(w, c)
    BY <1>7
  <2>4. op = "claim" => call.seen.status \in {"queued", "running"}
    BY <2>1, <2>3 DEF BeginClaim, Running
  <2>5. op = "move" => /\ call.seen.status # "running"
                       /\ call.status \in Transitions[call.seen.status] \ {"running"}
    BY <1>7, <2>1 DEF BeginMove, Running
  <2>6. op = "finish" => Backed(w, call) /\ call.status \in {"succeeded", "failed", "cancelled"}
    BY <1>7, <2>1, <2>2 DEF BeginFinish
  <2>7. op = "interrupt" => call.seen.status = "running" /\ call.status = "interrupted"
    BY <1>7, <2>1 DEF BeginInterrupt, Running
  <2>8. op \in {"report", "abandon", "renew"} => Backed(w, call)
    BY <1>7, <2>2 DEF BeginReport, BeginAbandon, BeginRenew
  <2>9. op = "remark" => command[c].status # "absent"
    BY <1>7 DEF BeginRemark
  <2> QED BY <1>5, <1>6, <1>10, <2>1, <2>4, <2>5, <2>6, <2>7, <2>8, <2>9 DEF Backed
<1> QED BY <1>9, <1>10

(* Every commit that matches is a step of the atomic ledger.                 *)
LEMMA CommitClaimStep ==
    ASSUME LedgerInv, NEW w \in Worker, CommitClaim(w)
    PROVE  \E c \in Command : Claim(w, c)
<1> USE DEF LedgerInv, CallsInv, CallsOK
<1> DEFINE c == pending[w].command
           seen == pending[w].seen
<1>1. /\ c \in Command /\ seen.status \in {"queued", "running"}
      /\ Matches(pending[w]) /\ pending[w].op = "claim"
  BY DEF CommitClaim, Call
<1>2. /\ command[c].status = seen.status /\ command[c].fence = seen.fence
      /\ seen.status = "running" => ~command[c].live
  BY <1>1 DEF Matches
<1>3. /\ command' = [command EXCEPT ![c] =
              [status |-> "running", owner |-> w, fence |-> seen.fence + 1, live |-> TRUE]]
      /\ Record(c, IF seen.status = "running" THEN "reclaimed" ELSE "running", seen.fence + 1)
      /\ token' = [token EXCEPT ![w] = @ \union {<<c, seen.fence + 1>>}]
  BY DEF CommitClaim
<1> HIDE DEF c, seen
<1>4. Claim(w, c)
  BY <1>1, <1>2, <1>3 DEF Claim
<1> QED BY <1>1, <1>4

LEMMA CommitStatusStep ==
    ASSUME LedgerInv, NEW w \in Worker, CommitStatus(w)
    PROVE  \E c \in Command : \/ Interrupt(c)
                              \/ \E s \in Status : Move(c, s) \/ Finish(w, c, s)
<1> USE DEF LedgerInv, CallsInv, CallsOK
<1> DEFINE p == pending[w]
           c == p.command
<1>1. /\ p # NoCall /\ p \in Call /\ p.op \in {"move", "finish", "interrupt"} /\ Matches(p)
      /\ command' = [command EXCEPT ![c] = Released(@, p.status)]
      /\ Record(c, p.status, IF p.op = "move" THEN 0 ELSE p.seen.fence)
      /\ token' = token
  BY DEF CommitStatus
<1>2. c \in Command /\ p.status \in Status
  BY <1>1 DEF Call
<1>3. /\ command[c].status = p.seen.status
      /\ command[c].status = "running" => command[c].fence = p.seen.fence
  BY <1>1 DEF Matches
<1>4. CASE p.op = "move"
  <2>1. command[c].status # "running" /\ p.status \in Transitions[command[c].status] \ {"running"}
    BY <1>1, <1>3, <1>4
  <2>2. Move(c, p.status)
    BY <1>1, <1>4, <2>1 DEF Move, Enter
  <2> QED BY <1>2, <2>2
<1>5. CASE p.op = "finish"
  <2>1. /\ p.status \in {"succeeded", "failed", "cancelled"} /\ Backed(w, p)
    BY <1>1, <1>5
  <2>2. Current(w, c)
    BY <1>3, <2>1 DEF Current, Backed
  <2>3. p.status \in Transitions[command[c].status] \ {"running"}
    BY <2>1, <2>2 DEF Current, Transitions, Status
  <2>4. Finish(w, c, p.status)
    BY <1>1, <1>3, <1>5, <2>1, <2>2, <2>3 DEF Finish, Enter, Current
  <2> QED BY <1>2, <2>4
<1>6. CASE p.op = "interrupt"
  <2>1. p.status = "interrupted" /\ command[c].status = "running"
    BY <1>1, <1>3, <1>6
  <2>2. "interrupted" \in Transitions[command[c].status] \ {"running"}
    BY <2>1 DEF Transitions, Status
  <2>3. Interrupt(c)
    BY <1>1, <1>3, <1>6, <2>1, <2>2 DEF Interrupt, Enter
  <2> QED BY <1>2, <2>3
<1> QED BY <1>1, <1>4, <1>5, <1>6

LEMMA CommitOtherStep ==
    ASSUME LedgerInv, NEW w \in Worker,
           CommitReport(w) \/ CommitRemark(w) \/ CommitLease(w)
    PROVE  \E c \in Command : Report(w, c) \/ Remark(c) \/ Abandon(w, c) \/ Renew(w, c)
<1> USE DEF LedgerInv, CallsInv, CallsOK
<1> DEFINE p == pending[w]
           c == p.command
<1>1. p # NoCall /\ p \in Call /\ c \in Command
  BY DEF CommitReport, CommitRemark, CommitLease, Call
<1>2. ASSUME Matches(p), Backed(w, p), p.op # "claim"
      PROVE  Current(w, c) /\ p.seen.fence = command[c].fence
  BY <1>2 DEF Matches, Backed, Current
<1>3. CASE CommitReport(w)
  <2>1. Current(w, c) /\ p.seen.fence = command[c].fence
    BY <1>1, <1>2, <1>3 DEF CommitReport
  <2> QED BY <1>1, <1>3, <2>1 DEF CommitReport, Report
<1>4. CASE CommitRemark(w)
  BY <1>1, <1>4 DEF CommitRemark, Remark
<1>5. CASE CommitLease(w)
  <2>1. /\ Current(w, c) /\ p.op \in {"abandon", "renew"} /\ UNCHANGED <<log, token>>
        /\ command' = [command EXCEPT ![c] = [@ EXCEPT !.live = p.op = "renew"]]
    BY <1>1, <1>2, <1>5 DEF CommitLease
  <2>2. CASE p.op = "abandon"
    BY <1>1, <2>1, <2>2 DEF Abandon
  <2>3. CASE p.op = "renew"
    BY <1>1, <2>1, <2>3 DEF Renew
  <2> QED BY <2>1, <2>2, <2>3
<1> QED BY <1>3, <1>4, <1>5

(* A step of LedgerNext is a step of the atomic ledger, or none.              *)
LEMMA LedgerStep ==
    LedgerInv /\ [LedgerNext]_vars => [Next]_ledger /\ LedgerInv'
<1> SUFFICES ASSUME LedgerInv, [LedgerNext]_vars
             PROVE  [Next]_ledger /\ CallsInv'
  BY AtomicStep DEF LedgerInv
<1>0. pending \in [Worker -> Call \union {NoCall}] /\ token \in [Worker -> SUBSET (Command \X Nat)]
  BY DEF LedgerInv, CallsInv, CallsOK, AtomicInv, TypeOK
<1>1. ASSUME NEW c \in Command, SubmitCall(c) \/ Lapse(c)
      PROVE  [Next]_ledger /\ CallsInv'
  <2>1. Next /\ UNCHANGED <<pending, token>>
    BY <1>1 DEF SubmitCall, Lapse, Next, Submit, LeaseLapses
  <2> QED BY <1>0, <2>1, CallsStay
<1>2. ASSUME NEW w \in Worker, NEW c \in Command, Begins(w, c)
      PROVE  [Next]_ledger /\ CallsInv'
  BY <1>2, BeginStep
<1>3. ASSUME NEW w \in Worker,
             \/ CommitClaim(w) \/ CommitStatus(w) \/ CommitReport(w)
             \/ CommitRemark(w) \/ CommitLease(w)
      PROVE  [Next]_ledger /\ CallsInv'
  <2>1. Next
    BY <1>3, CommitClaimStep, CommitStatusStep, CommitOtherStep DEF Next
  <2>2. Return(w)
    BY <1>3 DEF CommitClaim, CommitStatus, CommitReport, CommitRemark, CommitLease
  <2>3. \A v \in Worker : token[v] \subseteq token'[v]
    BY <1>0, <1>3 DEF CommitClaim, CommitStatus, CommitReport, CommitRemark, CommitLease
  <2> QED BY <1>0, <2>1, <2>2, <2>3, CallsStay DEF Return
<1>4. ASSUME NEW w \in Worker, CallFails(w)
      PROVE  [Next]_ledger /\ CallsInv'
  BY <1>0, <1>4, CallsStay DEF CallFails, Return, ledger
<1>5. ASSUME NEW w \in Worker, CrashWorker(w)
      PROVE  [Next]_ledger /\ CallsInv'
  <2>1. [Next]_ledger
    <3>1. CASE token[w] = {}
      BY <1>0, <1>5, <3>1 DEF CrashWorker, ledger
    <3>2. CASE token[w] # {}
      BY <1>5, <3>2 DEF CrashWorker, Crash, Next
    <3> QED BY <3>1, <3>2
  <2> QED BY <1>0, <1>5, <2>1, CallsStay DEF CrashWorker, Return
<1>6. ASSUME UNCHANGED vars
      PROVE  [Next]_ledger /\ CallsInv'
  BY <1>0, <1>6, CallsStay DEF vars, ledger
<1> QED BY <1>1, <1>2, <1>3, <1>4, <1>5, <1>6 DEF LedgerNext, Begins

THEOREM LedgerInvariant == LedgerSpec => []LedgerInv
<1>1. LedgerInit => LedgerInv
  BY InitAtomic, InitCalls DEF LedgerInit, LedgerInv
<1>2. LedgerInv /\ [LedgerNext]_vars => LedgerInv'
  BY LedgerStep
<1> QED BY <1>1, <1>2, PTL DEF LedgerSpec

(* The code's ledger, with its reads and writes apart, behaves like the      *)
(* atomic one (transition, finish, claim, append_event, abandon, renew).     *)
THEOREM LedgerIsAtomic == LedgerSpec => KeepsPromise
<1>1. LedgerInit => Init
  BY DEF LedgerInit
<1>2. LedgerInv /\ [LedgerNext]_vars => [Next]_ledger
  BY LedgerStep
<1> QED BY <1>1, <1>2, LedgerInvariant, PTL DEF LedgerSpec, KeepsPromise, Spec

(* Rows and events are well formed, and only a running row names an owner.   *)
THEOREM LedgerTypes == LedgerSpec => []TypeOK
BY LedgerInvariant, PTL DEF LedgerInv, AtomicInv

(* A running command has one holder, the one its row names (claim).          *)
THEOREM OneHolderOfACommand == LedgerSpec => []OneHolder
BY LedgerInvariant, PTL DEF LedgerInv, AtomicInv

(* claim gives every fence out once. *)
THEOREM FencesGivenOnce == LedgerSpec => []FencesAreUnique
<1>1. LedgerInv => FencesAreUnique
  BY DEF LedgerInv, AtomicInv, FencesIssued, FenceOfOne, FencesAreUnique
<1> QED BY <1>1, LedgerInvariant, PTL

(* After a reclaim the worker it was taken from leaves no event behind.      *)
THEOREM StaleWorkersSilent == LedgerSpec => []StaleWorkerIsSilent
BY LedgerInvariant, PTL DEF LedgerInv, AtomicInv

(* The events of a command retell its history: append_event in the unit of   *)
(* work of transition, claim and finish never announces a status the row did *)
(* not take, and never leaves one out.                                       *)
THEOREM HistoryIsRetold == LedgerSpec => []LogRetellsStatus
<1>1. Init => LogRetellsStatus
  BY InitRetells
<1>2. AtomicInv /\ LogRetellsStatus /\ [Next]_ledger => LogRetellsStatus'
  BY RetellStep DEF AtomicInv
<1>3. Spec => []LogRetellsStatus
  BY <1>1, <1>2, AtomicLedgerInvariant, PTL DEF Spec
<1> QED BY <1>3, LedgerIsAtomic, PTL DEF KeepsPromise

=============================================================================
