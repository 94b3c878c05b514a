------------------------------ MODULE CloudSync ------------------------------
(***************************************************************************)
(* The cloud's shared history: promotions of project versions, each a      *)
(* PostgreSQL transaction that appends an event and, with it, an outbox    *)
(* item (fairy_cloud/storage/postgres.py); the devices that follow the     *)
(* history by its cursor (event_routes.py, desktop/src/core/eventStream.ts)*)
(* and the workers that deliver the outbox (workers/outbox.py).  Every     *)
(* other event is appended by the same helper, in a transaction like that  *)
(* of a promotion that is retained.                                        *)
(*                                                                         *)
(* A request carries the id of the event it will append, so an event id    *)
(* stands for the request and all its repetitions.  Transactions run at    *)
(* READ COMMITTED: their statements are steps of their own, and others see *)
(* what they wrote once they commit.  A cursor is drawn from a sequence    *)
(* when the event is inserted, not when it becomes visible.                *)
(***************************************************************************)
EXTENDS Naturals, FiniteSets, FiniteSetsExt

CONSTANTS
    Event,          \* events, each of a promotion that a device requests
    VersionOf,      \* the version a promotion is for
    Bases,          \* what project revisions the requests may be based on
    Device,         \* devices that follow the history
    Worker,         \* outbox workers
    PageSize,       \* events of a page
    BatchSize,      \* outbox items of a claim
    CursorCap,      \* bound on the sequence
    None            \* no version, no worker

ASSUME SyncAssumption ==
    /\ IsFiniteSet(Event)
    /\ Bases \subseteq [Event -> Nat]
    /\ PageSize \in Nat \ {0}
    /\ BatchSize \in Nat \ {0}
    /\ CursorCap \in Nat
    /\ None \notin Worker

Version == {VersionOf[e] : e \in Event}

VARIABLES
    expected,       \* the project revision a request is based on
    project,        \* revision and active version of core_projects
    candidate,      \* version_candidates: the state of a version
    tx,             \* the open transaction of a request
    sequence,       \* the last cursor drawn
    log,            \* domain_events
    outbox,         \* outbox, a row per event of the log
    device,         \* a device's event delivery
    worker          \* the cycle of an outbox worker

vars == <<expected, project, candidate, tx, sequence, log, outbox, device, worker>>

NoTx == [stage |-> "idle", kind |-> "none", revision |-> 0, updates |-> FALSE, accepts |-> FALSE, cursor |-> 0]
NoEvent == [cursor |-> 0, kind |-> "none", revision |-> 0]
NewItem == [published |-> FALSE, holder |-> None, held |-> FALSE]
NoCycle == [stage |-> "idle", batch |-> {}]
NewDevice == [cursor |-> 0, page |-> {}, shown |-> {}, overtaken |-> {}]

Recorded(e) == log[e].cursor # 0
History == {e \in Event : Recorded(e)}

Init ==
    /\ expected \in Bases
    /\ project = [revision |-> 0, active |-> None]
    /\ candidate = [v \in Version |-> "none"]
    /\ tx = [e \in Event |-> NoTx]
    /\ sequence = 0
    /\ log = [e \in Event |-> NoEvent]
    /\ outbox = [e \in Event |-> NewItem]
    /\ device = [d \in Device |-> NewDevice]
    /\ worker = [w \in Worker |-> NoCycle]

-----------------------------------------------------------------------------
(* Transactions *)

(* The update of an open promotion holds the project's row.                  *)
RowIsFree == \A e \in Event : ~tx[e].updates

(* _append_event_in_transaction: every attempt draws a cursor.  A repeated   *)
(* event must be what the log has, or the transaction is rolled back.        *)
Append(e, kind, revision, updates) ==
    LET insert == [stage |-> "inserted", kind |-> kind, revision |-> revision, updates |-> updates,
                   accepts |-> updates /\ candidate[VersionOf[e]] # "none",
                   cursor |-> IF Recorded(e) THEN log[e].cursor ELSE sequence + 1]
        differs == Recorded(e) /\ ~(log[e].kind = kind /\ log[e].revision = revision)
    IN  /\ sequence < CursorCap
        /\ sequence' = sequence + 1
        /\ tx' = [tx EXCEPT ![e] = IF differs THEN NoTx ELSE insert]

(* promote_version moves the project on from the revision it expects.        *)
Promote(e) ==
    /\ tx[e].stage = "idle"
    /\ project.revision = expected[e]
    /\ RowIsFree
    /\ Append(e, "promoted", expected[e] + 1, TRUE)
    /\ UNCHANGED <<expected, project, candidate, log, outbox, device, worker>>

(* The update found no row of that revision; the next statement looks again. *)
Miss(e) ==
    /\ tx[e].stage = "idle"
    /\ project.revision # expected[e]
    /\ tx' = [tx EXCEPT ![e].stage = "missed"]
    /\ UNCHANGED <<expected, project, candidate, sequence, log, outbox, device, worker>>

FaultyIsRepeated(e) == project.revision = expected[e] + 1
(* The request has been carried out before, and nothing since.               *)
IsRepeated(e) == project.active = VersionOf[e] /\ project.revision = expected[e] + 1

LookAgain(e) ==
    /\ tx[e].stage = "missed"
    /\ Append(e, IF IsRepeated(e) THEN "promoted" ELSE "retained", project.revision, FALSE)
    /\ UNCHANGED <<expected, project, candidate, log, outbox, device, worker>>

(* What a promotion leaves in version_candidates.                            *)
Retained(e) ==
    LET state == candidate[VersionOf[e]]
    IN  CASE tx[e].accepts -> "accepted"
          [] tx[e].kind = "retained" /\ state = "none" -> "candidate"
          [] OTHER -> state

(* A device has read beyond a cursor: what becomes visible there is overtaken.*)
HasPassed(d, c) == c <= device[d].cursor \/ \E e \in device[d].page : c <= log[e].cursor

Commit(e) ==
    /\ tx[e].stage = "inserted"
    /\ project' = IF tx[e].updates THEN [revision |-> tx[e].revision, active |-> VersionOf[e]] ELSE project
    /\ candidate' = [candidate EXCEPT ![VersionOf[e]] = Retained(e)]
    /\ log' = [log EXCEPT ![e] =
          IF Recorded(e) THEN @
          ELSE [cursor |-> tx[e].cursor, kind |-> tx[e].kind, revision |-> tx[e].revision]]
    /\ device' = [d \in Device |-> [device[d] EXCEPT !.overtaken =
          IF ~Recorded(e) /\ HasPassed(d, tx[e].cursor) THEN @ \union {e} ELSE @]]
    /\ tx' = [tx EXCEPT ![e] = NoTx]
    /\ UNCHANGED <<expected, sequence, outbox, worker>>

(* The process or its connection dies. *)
Rollback(e) ==
    /\ tx[e].stage # "idle"
    /\ tx' = [tx EXCEPT ![e] = NoTx]
    /\ UNCHANGED <<expected, project, candidate, sequence, log, outbox, device, worker>>

-----------------------------------------------------------------------------
(* Devices: runEventDelivery *)

(* events_after: the next page of the history as it is now.                  *)
EventsAfter(c) ==
    {e \in History : /\ log[e].cursor > c
                     /\ Cardinality({f \in History : log[f].cursor \in (c + 1)..log[e].cursor}) <= PageSize}

Fetch(d) ==
    /\ device[d].page = {}
    /\ EventsAfter(device[d].cursor) # {}
    /\ device' = [device EXCEPT ![d].page = EventsAfter(device[d].cursor)]
    /\ UNCHANGED <<expected, project, candidate, tx, sequence, log, outbox, worker>>

(* Events of a page are shown in their order, each before its cursor is      *)
(* saved as the checkpoint; a device that stops in between reads it again.   *)
Show(d, saved) ==
    /\ \E next \in device[d].page :
          /\ \A e \in device[d].page : log[next].cursor <= log[e].cursor
          /\ device' = [device EXCEPT ![d].shown = @ \union {next},
                                     ![d].page = IF saved THEN @ \ {next} ELSE {},
                                     ![d].cursor = IF saved THEN log[next].cursor ELSE @]
    /\ UNCHANGED <<expected, project, candidate, tx, sequence, log, outbox, worker>>

Oldest == IF History = {} THEN 0 ELSE Min({log[e].cursor : e \in History})
Latest == IF History = {} THEN 0 ELSE Max({log[e].cursor : e \in History})

FaultyReconciled(c) == Latest
(* reconcileEventCheckpoint, within one ledger.                              *)
Reconciled(c) ==
    LET replay == IF Oldest > 0 THEN Oldest - 1 ELSE 0
    IN  IF c < replay \/ c > Latest THEN replay ELSE c

(* The stream breaks or the device restarts, and resumes from its checkpoint.*)
Reconnect(d) ==
    /\ device' = [device EXCEPT ![d].page = {}, ![d].cursor = Reconciled(@)]
    /\ UNCHANGED <<expected, project, candidate, tx, sequence, log, outbox, worker>>

-----------------------------------------------------------------------------
(* Outbox workers: run_once *)

FaultyClaimable(e) == Recorded(e) /\ ~outbox[e].published /\ outbox[e].holder = None
(* build_claim_outbox_statement. *)
Claimable(e) == Recorded(e) /\ ~outbox[e].published /\ ~outbox[e].held

(* The trigger numbers outbox items as the events are inserted.              *)
Batch ==
    {e \in Event : /\ Claimable(e)
                   /\ Cardinality({f \in Event : Claimable(f) /\ log[f].cursor <= log[e].cursor}) <= BatchSize}

ClaimOutbox(w) ==
    /\ worker[w].stage = "idle"
    /\ Batch # {}
    /\ outbox' = [e \in Event |->
          IF e \in Batch THEN [outbox[e] EXCEPT !.holder = w, !.held = TRUE] ELSE outbox[e]]
    /\ worker' = [worker EXCEPT ![w] = [stage |-> "claimed", batch |-> Batch]]
    /\ UNCHANGED <<expected, project, candidate, tx, sequence, log, device>>

(* One item after the other is handled; a failure is left for another claim. *)
(* A cycle that ends early is one that crashes after handling some.          *)
Handle(w, good) ==
    /\ worker[w].stage = "claimed"
    /\ good \subseteq worker[w].batch
    /\ worker' = [worker EXCEPT ![w].stage = "handled", ![w].batch = good]
    /\ UNCHANGED <<expected, project, candidate, tx, sequence, log, outbox, device>>

(* mark_outbox_published: items that have been claimed again are left alone. *)
MarkPublished(w) ==
    /\ worker[w].stage = "handled"
    /\ outbox' = [e \in Event |->
          IF e \in worker[w].batch /\ outbox[e].holder = w
          THEN [published |-> TRUE, holder |-> None, held |-> FALSE] ELSE outbox[e]]
    /\ worker' = [worker EXCEPT ![w] = NoCycle]
    /\ UNCHANGED <<expected, project, candidate, tx, sequence, log, device>>

WorkerCrashes(w) ==
    /\ worker[w].stage # "idle"
    /\ worker' = [worker EXCEPT ![w] = NoCycle]
    /\ UNCHANGED <<expected, project, candidate, tx, sequence, log, outbox, device>>

LeaseLapses(e) ==
    /\ outbox[e].held
    /\ outbox' = [outbox EXCEPT ![e].held = FALSE]
    /\ UNCHANGED <<expected, project, candidate, tx, sequence, log, device, worker>>

-----------------------------------------------------------------------------
Request(e) == Promote(e) \/ Miss(e) \/ LookAgain(e)

Next ==
    \/ \E e \in Event : Request(e) \/ Commit(e) \/ Rollback(e) \/ LeaseLapses(e)
    \/ \E d \in Device : Fetch(d) \/ Reconnect(d) \/ \E saved \in BOOLEAN : Show(d, saved)
    \/ \E w \in Worker :
          \/ ClaimOutbox(w) \/ MarkPublished(w) \/ WorkerCrashes(w)
          \/ \E good \in SUBSET Event : Handle(w, good)

Spec == Init /\ [][Next]_vars

(* The workers' loops poll for ever and leases lapse with time.  A handler   *)
(* does not fail for ever, and neither does every cycle crash or outlast its *)
(* lease.                                                                    *)
Publishes(w, e) == e \in worker[w].batch /\ outbox[e].holder = w /\ MarkPublished(w)

Fairness ==
    /\ \A e \in Event : WF_vars(LeaseLapses(e))
    /\ \A w \in Worker :
          /\ WF_vars(ClaimOutbox(w))
          /\ WF_vars(\E good \in SUBSET Event : Handle(w, good))
          /\ WF_vars(MarkPublished(w))
          /\ \A e \in Event :
                /\ SF_vars(\E good \in SUBSET Event : e \in good /\ Handle(w, good))
                /\ SF_vars(Publishes(w, e))

FairSpec == Spec /\ Fairness

-----------------------------------------------------------------------------
(* Properties *)

(* Every row, transaction, page and cycle has its type. *)
SyncTypeOK ==
    /\ expected \in Bases
    /\ project \in [revision : Nat, active : Version \union {None}]
    /\ candidate \in [Version -> {"none", "candidate", "accepted"}]
    /\ tx \in [Event -> [stage : {"idle", "missed", "inserted"},
                         kind : {"none", "promoted", "retained"},
                         revision : Nat, updates : BOOLEAN, accepts : BOOLEAN, cursor : Nat]]
    /\ sequence \in Nat
    /\ log \in [Event -> [cursor : Nat, kind : {"none", "promoted", "retained"}, revision : Nat]]
    /\ outbox \in [Event -> [published : BOOLEAN, holder : Worker \union {None}, held : BOOLEAN]]
    /\ device \in [Device -> [cursor : Nat, page : SUBSET Event,
                              shown : SUBSET Event, overtaken : SUBSET Event]]
    /\ worker \in [Worker -> [stage : {"idle", "claimed", "handled"}, batch : SUBSET Event]]

(* The history tells the truth about promotions, whoever else promotes,      *)
(* repeats or loses a request at the same time: the versions it calls        *)
(* promoted are the project's revisions, one after the other, and one it     *)
(* calls retained can be found among the candidates.                         *)
Promoted == {e \in Event : log[e].kind = "promoted"}

DecisionsAreTrue ==
    /\ \A e \in Promoted :
          /\ log[e].revision = expected[e] + 1
          /\ log[e].revision <= project.revision
          /\ log[e].revision = project.revision => project.active = VersionOf[e]
    /\ \A e, f \in Promoted : log[e].revision = log[f].revision => VersionOf[e] = VersionOf[f]
    /\ \A n \in 1..project.revision : \E e \in Promoted : log[e].revision = n
    /\ \A e \in Event : log[e].kind = "retained" => candidate[VersionOf[e]] # "none"

(* A device that has gone past an event has shown it, across broken streams  *)
(* and restarts, unless the event became visible only after the device had   *)
(* read beyond its cursor.                                                   *)
OnlyOvertakenEventsAreMissed ==
    \A d \in Device, e \in History :
        log[e].cursor <= device[d].cursor => e \in device[d].shown \union device[d].overtaken

(* Every event of the history, even one that a device has missed, is handled *)
(* by an outbox worker and marked as published.                              *)
EveryEventIsPublished ==
    \A e \in Event : Recorded(e) ~> outbox[e].published
=============================================================================
