--------------------------- MODULE CloudSyncProofs ---------------------------
(***************************************************************************)
(* The shared history tells the truth, and a device misses only what       *)
(* overtook it, for any number of requests, devices and workers, any page  *)
(* and batch size, and whatever revisions the requests are based on.       *)
(*                                                                         *)
(* DecisionsAreTrue must also hold of what open transactions are about to  *)
(* record: TxOK.  OnlyOvertakenEventsAreMissed needs that cursors are      *)
(* given once (CursorsOK) and that a page has no gaps (PagesOK).           *)
(***************************************************************************)
EXTENDS CloudSync, FiniteSetTheorems, WellFoundedInduction, TLAPS

LogOK == \A e \in Event : ~Recorded(e) => log[e].kind = "none"

(* What an open transaction that has inserted its event will record.         *)
TxOf(e) ==
    /\ tx[e].kind \in {"promoted", "retained"}
    /\ tx[e].accepts => tx[e].updates
    /\ tx[e].updates =>
          /\ tx[e].kind = "promoted"
          /\ tx[e].revision = expected[e] + 1
          /\ project.revision = expected[e]
          /\ ~Recorded(e)
    /\ tx[e].kind = "promoted" /\ ~tx[e].updates =>
          /\ tx[e].revision = expected[e] + 1
          /\ tx[e].revision <= project.revision
          /\ tx[e].revision = project.revision => project.active = VersionOf[e]
          /\ \A f \in Promoted : log[f].revision = tx[e].revision => VersionOf[f] = VersionOf[e]

(* A transaction that repeats a promotion. *)
Repeats(e) == tx[e].stage = "inserted" /\ tx[e].kind = "promoted" /\ ~tx[e].updates

TxOK ==
    /\ \A e \in Event : tx[e].stage = "inserted" => TxOf(e)
    /\ \A e \in Event : tx[e].updates => tx[e].stage = "inserted"
    /\ \A e, f \in Event : tx[e].updates /\ tx[f].updates => e = f
    /\ \A e, f \in Event : Repeats(e) /\ Repeats(f) /\ tx[e].revision = tx[f].revision
                              => VersionOf[e] = VersionOf[f]

HistoryInv == SyncTypeOK /\ LogOK /\ TxOK /\ DecisionsAreTrue

(* The cursor that an event has or will have once its transaction commits.   *)
CursorOf(e) == IF Recorded(e) THEN log[e].cursor ELSE IF tx[e].stage = "inserted" THEN tx[e].cursor ELSE 0

CursorsOK ==
    /\ \A e \in Event : CursorOf(e) <= sequence
    /\ \A e \in Event : ~Recorded(e) /\ tx[e].stage = "inserted" => tx[e].cursor > 0
    /\ \A e, f \in Event : CursorOf(e) # 0 /\ CursorOf(e) = CursorOf(f) => e = f

PagesOK ==
    \A d \in Device :
        /\ device[d].page \subseteq History
        /\ \A p \in device[d].page, e \in History :
              log[e].cursor <= log[p].cursor => e \in device[d].page \union device[d].shown \union device[d].overtaken

SyncInv == HistoryInv /\ CursorsOK /\ PagesOK /\ OnlyOvertakenEventsAreMissed

-----------------------------------------------------------------------------
(* Types *)

ProjectType == [revision : Nat, active : Version \union {None}]
TxType == [stage : {"idle", "missed", "inserted"}, kind : {"none", "promoted", "retained"},
           revision : Nat, updates : BOOLEAN, accepts : BOOLEAN, cursor : Nat]
EventType == [cursor : Nat, kind : {"none", "promoted", "retained"}, revision : Nat]
ItemType == [published : BOOLEAN, holder : Worker \union {None}, held : BOOLEAN]
DeviceType == [cursor : Nat, page : SUBSET Event, shown : SUBSET Event, overtaken : SUBSET Event]
CycleType == [stage : {"idle", "claimed", "handled"}, batch : SUBSET Event]

LEMMA TypeParts ==
    SyncTypeOK <=> /\ expected \in Bases
                   /\ project \in ProjectType
                   /\ candidate \in [Version -> {"none", "candidate", "accepted"}]
                   /\ tx \in [Event -> TxType]
                   /\ sequence \in Nat
                   /\ log \in [Event -> EventType]
                   /\ outbox \in [Event -> ItemType]
                   /\ device \in [Device -> DeviceType]
                   /\ worker \in [Worker -> CycleType]
BY DEF SyncTypeOK, ProjectType, TxType, EventType, ItemType, DeviceType, CycleType

LEMMA TypesNext ==
    ASSUME expected' \in Bases, project' \in ProjectType,
           candidate' \in [Version -> {"none", "candidate", "accepted"}], tx' \in [Event -> TxType],
           sequence' \in Nat, log' \in [Event -> EventType], outbox' \in [Event -> ItemType],
           device' \in [Device -> DeviceType], worker' \in [Worker -> CycleType]
    PROVE  SyncTypeOK'
BY DEF SyncTypeOK, ProjectType, TxType, EventType, ItemType, DeviceType, CycleType

LEMMA BasesAreNumbers == ASSUME SyncTypeOK, NEW e \in Event PROVE expected[e] \in Nat
BY SyncAssumption, TypeParts

LEMMA VersionsOfEvents == \A e \in Event : VersionOf[e] \in Version
BY DEF Version

LEMMA NoTxType == NoTx \in TxType /\ NoTx.stage = "idle" /\ ~NoTx.updates
BY DEF NoTx, TxType

LEMMA SyncInit == Init => SyncInv
<1> SUFFICES ASSUME Init PROVE SyncInv
  OBVIOUS
<1>1. SyncTypeOK
  <2>1. tx \in [Event -> TxType]
    BY NoTxType DEF Init
  <2>2. NoEvent \in EventType /\ NewItem \in ItemType /\ NewDevice \in DeviceType /\ NoCycle \in CycleType
    BY DEF NoEvent, NewItem, NewDevice, NoCycle, EventType, ItemType, DeviceType, CycleType
  <2>3. project \in ProjectType
    BY DEF Init, ProjectType
  <2> QED
    BY <2>1, <2>2, <2>3, TypeParts DEF Init
<1>2. \A e \in Event : tx[e].stage = "idle" /\ ~tx[e].updates
  BY NoTxType DEF Init
<1>3. \A e \in Event : ~Recorded(e) /\ log[e].kind = "none"
  BY DEF Init, NoEvent, Recorded
<1>4. project.revision = 0 /\ sequence = 0
  BY DEF Init
<1>5. LogOK /\ TxOK
  BY <1>2, <1>3 DEF LogOK, TxOK, Repeats
<1>6. DecisionsAreTrue
  BY <1>3, <1>4 DEF DecisionsAreTrue, Promoted
<1>7. CursorsOK
  BY <1>2, <1>3, <1>4 DEF CursorsOK, CursorOf
<1>8. PagesOK /\ OnlyOvertakenEventsAreMissed
  BY <1>3 DEF Init, NewDevice, PagesOK, OnlyOvertakenEventsAreMissed, History
<1> QED
  BY <1>1, <1>5, <1>6, <1>7, <1>8 DEF SyncInv, HistoryInv

-----------------------------------------------------------------------------
(* The history *)

(* A transaction begins, goes on or is given up; nothing is committed.       *)
LEMMA TxStep ==
    ASSUME SyncInv, NEW e \in Event, NEW t \in TxType,
           tx' = [tx EXCEPT ![e] = t],
           UNCHANGED <<expected, project, candidate, log, outbox, device, worker>>,
           sequence' \in {sequence, sequence + 1},
           t.updates => t.stage = "inserted" /\ RowIsFree,
           t.stage = "inserted" =>
              /\ t.kind \in {"promoted", "retained"}
              /\ t.accepts => t.updates
              /\ t.updates => /\ t.kind = "promoted" /\ t.revision = expected[e] + 1
                              /\ project.revision = expected[e] /\ ~Recorded(e)
              /\ t.kind = "promoted" /\ ~t.updates =>
                    /\ t.revision = expected[e] + 1 /\ t.revision = project.revision
                    /\ project.active = VersionOf[e]
              /\ ~Recorded(e) => sequence' = sequence + 1 /\ t.cursor = sequence + 1
    PROVE  SyncInv'
<1>1. /\ tx \in [Event -> TxType] /\ sequence \in Nat /\ project \in ProjectType /\ log \in [Event -> EventType]
  BY TypeParts DEF SyncInv, HistoryInv
<1>2. \A f \in Event : tx'[f] = IF f = e THEN t ELSE tx[f]
  BY <1>1
<1>3. SyncTypeOK'
  BY <1>1, TypeParts, TypesNext DEF SyncInv, HistoryInv
<1>4. LogOK' /\ DecisionsAreTrue' /\ (\A f \in Event : Recorded(f)' <=> Recorded(f)) /\ Promoted' = Promoted
  BY DEF SyncInv, HistoryInv, LogOK, DecisionsAreTrue, Recorded, Promoted
<1>5. \A f \in Event : tx'[f].stage = "inserted" => TxOf(f)'
  <2> SUFFICES ASSUME NEW f \in Event, tx'[f].stage = "inserted" PROVE TxOf(f)'
    OBVIOUS
  <2>1. CASE f # e
    BY <1>2, <1>4, <2>1 DEF SyncInv, HistoryInv, TxOK, TxOf
  <2>2. CASE f = e
    <3>1. \A g \in Promoted : log[g].revision = project.revision => VersionOf[g] = project.active
      BY DEF SyncInv, HistoryInv, DecisionsAreTrue
    <3>2. project.revision \in Nat
      BY <1>1 DEF ProjectType
    <3> QED
      BY <1>2, <1>4, <2>2, <3>1, <3>2 DEF TxOf
  <2> QED
    BY <2>1, <2>2
<1>6. TxOK'
  <2>1. \A f \in Event : tx'[f].updates => tx'[f].stage = "inserted"
    BY <1>2 DEF SyncInv, HistoryInv, TxOK
  <2>2. \A f, g \in Event : tx'[f].updates /\ tx'[g].updates => f = g
    BY <1>2 DEF SyncInv, HistoryInv, TxOK, RowIsFree
  <2>3. \A f \in Event : Repeats(f)' => /\ tx'[f].revision = project.revision => project.active = VersionOf[f]
                                        /\ f # e => Repeats(f)
                                        /\ f = e => tx'[f].revision = project.revision
    <3> SUFFICES ASSUME NEW f \in Event, Repeats(f)'
                 PROVE  /\ tx'[f].revision = project.revision => project.active = VersionOf[f]
                        /\ f # e => Repeats(f)
                        /\ f = e => tx'[f].revision = project.revision
      OBVIOUS
    <3>1. CASE f = e
      BY <1>2, <3>1 DEF Repeats
    <3>2. CASE f # e
      BY <1>2, <3>2 DEF Repeats, SyncInv, HistoryInv, TxOK, TxOf
    <3> QED
      BY <3>1, <3>2
  <2>4. \A f, g \in Event : Repeats(f)' /\ Repeats(g)' /\ tx'[f].revision = tx'[g].revision
                               => VersionOf[f] = VersionOf[g]
    <3> SUFFICES ASSUME NEW f \in Event, NEW g \in Event, Repeats(f)', Repeats(g)',
                        tx'[f].revision = tx'[g].revision
                 PROVE  VersionOf[f] = VersionOf[g]
      OBVIOUS
    <3>1. CASE f # e /\ g # e
      BY <1>2, <2>3, <3>1 DEF SyncInv, HistoryInv, TxOK
    <3>2. CASE f = e \/ g = e
      BY <2>3, <3>2
    <3> QED
      BY <3>1, <3>2
  <2> QED
    BY <1>5, <2>1, <2>2, <2>4 DEF TxOK
<1>7. CursorsOK'
  <2>1. \A f \in Event : f # e => CursorOf(f)' = CursorOf(f)
    BY <1>2, <1>4 DEF CursorOf
  <2>2. CursorOf(e)' = CursorOf(e) \/ CursorOf(e)' = 0 \/ (CursorOf(e)' = sequence + 1 /\ sequence' = sequence + 1)
    BY <1>2, <1>4 DEF CursorOf
  <2>3. \A f \in Event : CursorOf(f) \in Nat /\ CursorOf(f) <= sequence
    BY <1>1 DEF SyncInv, CursorsOK, CursorOf, TxType, EventType
  <2>4. \A f \in Event : CursorOf(f)' <= sequence'
    BY <1>1, <2>1, <2>2, <2>3
  <2>5. \A f \in Event : ~Recorded(f)' /\ tx'[f].stage = "inserted" => tx'[f].cursor > 0
    BY <1>1, <1>2, <1>4 DEF SyncInv, CursorsOK
  <2>6. \A f, g \in Event : CursorOf(f)' # 0 /\ CursorOf(f)' = CursorOf(g)' => f = g
    <3> SUFFICES ASSUME NEW f \in Event, NEW g \in Event, CursorOf(f)' # 0, CursorOf(f)' = CursorOf(g)'
                 PROVE  f = g
      OBVIOUS
    <3>1. CASE CursorOf(e)' \in {CursorOf(e), 0}
      BY <2>1, <3>1 DEF SyncInv, CursorsOK
    <3>2. CASE CursorOf(e)' = sequence + 1
      BY <1>1, <2>1, <2>3, <3>2 DEF SyncInv, CursorsOK
    <3> QED
      BY <2>2, <3>1, <3>2
  <2> QED
    BY <2>4, <2>5, <2>6 DEF CursorsOK
<1>8. PagesOK' /\ OnlyOvertakenEventsAreMissed'
  BY DEF SyncInv, PagesOK, OnlyOvertakenEventsAreMissed, History, Recorded
<1> QED
  BY <1>3, <1>4, <1>6, <1>7, <1>8 DEF SyncInv, HistoryInv

(* A repeated event that differs from the log rolls the transaction back.    *)
LEMMA PromoteStep == ASSUME SyncInv, NEW e \in Event, Promote(e) PROVE SyncInv'
<1> DEFINE insert == [stage |-> "inserted", kind |-> "promoted", revision |-> expected[e] + 1, updates |-> TRUE,
                      accepts |-> TRUE /\ candidate[VersionOf[e]] # "none",
                      cursor |-> IF Recorded(e) THEN log[e].cursor ELSE sequence + 1]
           differs == Recorded(e) /\ ~(log[e].kind = "promoted" /\ log[e].revision = expected[e] + 1)
<1>1. expected[e] \in Nat /\ log[e].cursor \in Nat /\ sequence \in Nat
  BY BasesAreNumbers, TypeParts DEF SyncInv, HistoryInv, EventType
<1>2. /\ project.revision = expected[e] /\ RowIsFree /\ sequence' = sequence + 1
      /\ tx' = [tx EXCEPT ![e] = IF differs THEN NoTx ELSE insert]
      /\ UNCHANGED <<expected, project, candidate, log, outbox, device, worker>>
  BY DEF Promote, Append
<1>3. Recorded(e) => differs
  BY <1>1, <1>2 DEF SyncInv, HistoryInv, DecisionsAreTrue, Promoted
<1>4. /\ insert \in TxType /\ insert.stage = "inserted" /\ insert.kind = "promoted"
      /\ insert.revision = expected[e] + 1 /\ insert.updates
      /\ ~Recorded(e) => insert.cursor = sequence + 1
  BY <1>1 DEF TxType
<1> HIDE DEF insert
<1>5. CASE differs
  BY <1>2, <1>5, NoTxType, TxStep
<1>6. CASE ~differs
  BY <1>2, <1>3, <1>4, <1>6, TxStep
<1> QED
  BY <1>5, <1>6

LEMMA LookAgainStep == ASSUME SyncInv, NEW e \in Event, LookAgain(e) PROVE SyncInv'
<1> DEFINE kind == IF IsRepeated(e) THEN "promoted" ELSE "retained"
           insert == [stage |-> "inserted", kind |-> kind, revision |-> project.revision, updates |-> FALSE,
                      accepts |-> FALSE /\ candidate[VersionOf[e]] # "none",
                      cursor |-> IF Recorded(e) THEN log[e].cursor ELSE sequence + 1]
           differs == Recorded(e) /\ ~(log[e].kind = kind /\ log[e].revision = project.revision)
<1>1. log[e].cursor \in Nat /\ sequence \in Nat /\ project.revision \in Nat
  BY TypeParts DEF SyncInv, HistoryInv, EventType, ProjectType
<1>2. /\ sequence' = sequence + 1
      /\ tx' = [tx EXCEPT ![e] = IF differs THEN NoTx ELSE insert]
      /\ UNCHANGED <<expected, project, candidate, log, outbox, device, worker>>
  BY DEF LookAgain, Append
<1>3. /\ kind \in {"promoted", "retained"}
      /\ kind = "promoted" => project.active = VersionOf[e] /\ project.revision = expected[e] + 1
  BY DEF IsRepeated
<1> HIDE DEF kind
<1>4. /\ insert \in TxType /\ insert.stage = "inserted" /\ insert.kind = kind
      /\ insert.revision = project.revision /\ ~insert.updates /\ ~insert.accepts
      /\ ~Recorded(e) => insert.cursor = sequence + 1
  <2>1. (IF Recorded(e) THEN log[e].cursor ELSE sequence + 1) \in Nat
    BY <1>1
  <2>2. (FALSE /\ candidate[VersionOf[e]] # "none") = FALSE
    OBVIOUS
  <2>3. insert \in TxType
    BY <1>1, <1>3, <2>1, <2>2 DEF TxType
  <2> QED
    BY <2>2, <2>3
<1> HIDE DEF insert
<1>5. CASE differs
  BY <1>2, <1>5, NoTxType, TxStep
<1>6. CASE ~differs
  BY <1>2, <1>3, <1>4, <1>6, TxStep
<1> QED
  BY <1>5, <1>6

LEMMA MissOrRollbackStep == ASSUME SyncInv, NEW e \in Event, Miss(e) \/ Rollback(e) PROVE SyncInv'
<1>1. tx[e] \in TxType
  BY TypeParts DEF SyncInv, HistoryInv
<1>2. CASE Rollback(e)
  BY <1>2, NoTxType, TxStep DEF Rollback
<1>3. CASE Miss(e)
  <2> DEFINE t == [tx[e] EXCEPT !.stage = "missed"]
  <2>1. ~tx[e].updates
    BY <1>3 DEF Miss, SyncInv, HistoryInv, TxOK
  <2>2. t \in TxType /\ t.stage = "missed" /\ ~t.updates
    BY <1>1, <2>1 DEF TxType
  <2>3. tx' = [tx EXCEPT ![e] = t] /\ UNCHANGED <<expected, project, candidate, sequence, log, outbox, device, worker>>
    BY <1>3 DEF Miss
  <2> HIDE DEF t
  <2> QED
    BY <2>2, <2>3, TxStep
<1> QED
  BY <1>2, <1>3

(* A transaction commits.                                                    *)
LEMMA CommitStep == ASSUME SyncInv, NEW e \in Event, Commit(e) PROVE SyncInv'
<1> DEFINE t == tx[e]
           new == [cursor |-> t.cursor, kind |-> t.kind, revision |-> t.revision]
<1>1. /\ tx \in [Event -> TxType] /\ log \in [Event -> EventType] /\ device \in [Device -> DeviceType]
      /\ candidate \in [Version -> {"none", "candidate", "accepted"}] /\ project \in ProjectType
      /\ t \in TxType /\ sequence \in Nat /\ expected[e] \in Nat /\ VersionOf[e] \in Version
  BY TypeParts, BasesAreNumbers, VersionsOfEvents DEF SyncInv, HistoryInv
<1>2. t.stage = "inserted" /\ TxOf(e)
  BY DEF Commit, SyncInv, HistoryInv, TxOK
<1>3. /\ new \in EventType /\ new.cursor = t.cursor /\ new.kind = t.kind /\ new.revision = t.revision
      /\ t.revision \in Nat /\ t.cursor \in Nat /\ project.revision \in Nat
  BY <1>1 DEF TxType, EventType, ProjectType
<1>4. /\ \A f \in Event : log'[f] = IF f = e /\ ~Recorded(e) THEN new ELSE log[f]
      /\ \A f \in Event : tx'[f] = IF f = e THEN NoTx ELSE tx[f]
      /\ UNCHANGED <<expected, sequence, outbox, worker>>
  BY <1>1 DEF Commit
<1>5. \/ t.updates /\ project'.revision = t.revision /\ project'.active = VersionOf[e] /\ project' \in ProjectType
      \/ ~t.updates /\ project' = project
  BY <1>1, <1>3 DEF Commit, ProjectType
<1>6. \A v \in Version : /\ candidate[v] # "none" => candidate'[v] # "none"
                         /\ t.kind = "retained" => candidate'[VersionOf[e]] # "none"
  BY <1>1, <1>2 DEF Commit, Retained, TxOf
<1>7. SyncTypeOK'
  <2>1. log' \in [Event -> EventType] /\ tx' \in [Event -> TxType]
    BY <1>1, <1>3, NoTxType DEF Commit
  <2>2. candidate' \in [Version -> {"none", "candidate", "accepted"}]
    BY <1>1 DEF Commit, Retained
  <2>3. device' \in [Device -> DeviceType]
    <3>1. \A d \in Device, o \in SUBSET Event : [device[d] EXCEPT !.overtaken = o] \in DeviceType
      BY <1>1 DEF DeviceType
    <3>2. \A d \in Device : device[d].overtaken \in SUBSET Event
      BY <1>1 DEF DeviceType
    <3>3. \A d \in Device : \E o \in SUBSET Event : device'[d] = [device[d] EXCEPT !.overtaken = o]
      BY <3>2 DEF Commit
    <3> QED
      BY <3>1, <3>3 DEF Commit
  <2>4. project' \in ProjectType
    BY <1>1, <1>5
  <2> QED
    BY <1>4, <2>1, <2>2, <2>3, <2>4, TypeParts, TypesNext DEF SyncInv, HistoryInv
<1> HIDE DEF t, new
<1>8. /\ ~Recorded(e) => t.cursor > 0
      /\ \A f \in Event : Recorded(f)' <=> Recorded(f) \/ f = e
  <2>1. ~Recorded(e) => t.cursor > 0
    BY <1>2 DEF SyncInv, CursorsOK, t
  <2> QED
    BY <1>3, <1>4, <2>1 DEF Recorded
<1>9. LogOK'
  BY <1>4, <1>8 DEF SyncInv, HistoryInv, LogOK
<1>10. /\ \A f \in Promoted' : f # e \/ Recorded(e) => f \in Promoted /\ log'[f] = log[f]
       /\ Promoted \subseteq Promoted' /\ \A f \in Promoted : log'[f] = log[f]
       /\ e \in Promoted' /\ ~Recorded(e) => log'[e].revision = t.revision /\ t.kind = "promoted"
       /\ ~Recorded(e) /\ t.kind = "promoted" => e \in Promoted' /\ log'[e].revision = t.revision
  BY <1>3, <1>4 DEF Promoted, SyncInv, HistoryInv, LogOK
<1>11. DecisionsAreTrue'
  <2>1. \A f \in Promoted' : /\ log'[f].revision = expected'[f] + 1
                             /\ log'[f].revision <= project'.revision
                             /\ log'[f].revision = project'.revision => project'.active = VersionOf[f]
    <3> SUFFICES ASSUME NEW f \in Promoted'
                 PROVE  /\ log'[f].revision = expected[f] + 1
                        /\ log'[f].revision <= project'.revision
                        /\ log'[f].revision = project'.revision => project'.active = VersionOf[f]
      BY <1>4
    <3>1. CASE f # e \/ Recorded(e)
      <4>1. /\ log'[f] = log[f] /\ log[f].revision = expected[f] + 1 /\ log[f].revision <= project.revision
            /\ log[f].revision = project.revision => project.active = VersionOf[f]
            /\ log[f].revision \in Nat
        BY <1>1, <1>10, <3>1 DEF SyncInv, HistoryInv, DecisionsAreTrue, Promoted, EventType
      <4>2. t.updates => project'.revision = project.revision + 1
        BY <1>2, <1>5 DEF TxOf, t
      <4> QED
        BY <1>3, <1>5, <4>1, <4>2
    <3>2. CASE f = e /\ ~Recorded(e)
      BY <1>2, <1>3, <1>5, <1>10, <3>2 DEF TxOf, t
    <3> QED
      BY <3>1, <3>2
  <2>2. \A f, g \in Promoted' : log'[f].revision = log'[g].revision => VersionOf[f] = VersionOf[g]
    <3> SUFFICES ASSUME NEW f \in Promoted', NEW g \in Promoted', log'[f].revision = log'[g].revision
                 PROVE  VersionOf[f] = VersionOf[g]
      OBVIOUS
    <3>1. CASE (f # e \/ Recorded(e)) /\ (g # e \/ Recorded(e))
      BY <1>10, <3>1 DEF SyncInv, HistoryInv, DecisionsAreTrue
    <3>2. ASSUME ~Recorded(e), e \in Promoted', NEW h \in Promoted, log[h].revision = t.revision
          PROVE  VersionOf[h] = VersionOf[e]
      <4>1. log[h].revision <= project.revision /\ log[h].revision \in Nat
        BY <1>1, <3>2 DEF SyncInv, HistoryInv, DecisionsAreTrue, Promoted, EventType
      <4>2. ~t.updates
        BY <1>2, <1>3, <3>2, <4>1 DEF TxOf, t
      <4> QED
        BY <1>2, <1>10, <3>2, <4>2 DEF TxOf, t
    <3>3. CASE f = e /\ ~Recorded(e) /\ g # e
      BY <1>10, <3>2, <3>3
    <3>4. CASE g = e /\ ~Recorded(e) /\ f # e
      BY <1>10, <3>2, <3>4
    <3> QED
      BY <3>1, <3>3, <3>4
  <2>3. \A n \in 1..project'.revision : \E f \in Promoted' : log'[f].revision = n
    <3> SUFFICES ASSUME NEW n \in 1..project'.revision PROVE \E f \in Promoted' : log'[f].revision = n
      OBVIOUS
    <3>1. CASE n \in 1..project.revision
      BY <1>10, <3>1 DEF SyncInv, HistoryInv, DecisionsAreTrue
    <3>2. CASE n \notin 1..project.revision
      <4>1. t.updates /\ n = t.revision
        BY <1>2, <1>3, <1>5, <3>2 DEF TxOf, t
      <4>2. ~Recorded(e) /\ t.kind = "promoted"
        BY <1>2, <4>1 DEF TxOf, t
      <4> QED
        BY <1>10, <4>1, <4>2
    <3> QED
      BY <3>1, <3>2
  <2>4. \A f \in Event : log'[f].kind = "retained" => candidate'[VersionOf[f]] # "none"
    BY <1>3, <1>4, <1>6, VersionsOfEvents DEF SyncInv, HistoryInv, DecisionsAreTrue
  <2> QED
    BY <2>1, <2>2, <2>3, <2>4 DEF DecisionsAreTrue
<1>12. TxOK'
  <2>1. ASSUME NEW f \in Event, tx'[f].stage = "inserted" PROVE f # e /\ tx'[f] = tx[f] /\ TxOf(f)
    BY <1>4, <2>1, NoTxType DEF SyncInv, HistoryInv, TxOK
  <2>2. ASSUME NEW f \in Event, tx'[f].stage = "inserted" PROVE TxOf(f)'
    <3>1. f # e /\ tx'[f] = tx[f] /\ TxOf(f) /\ tx[f].stage = "inserted" /\ tx[f].revision \in Nat
      BY <1>1, <2>1, <2>2 DEF TxType
    <3>2. tx[f].updates => ~t.updates /\ project' = project
      BY <1>5, <3>1 DEF SyncInv, HistoryInv, TxOK, t
    <3>3. t.updates => project'.revision = project.revision + 1
      BY <1>2, <1>5 DEF TxOf, t
    <3>4. ASSUME tx[f].kind = "promoted", ~tx[f].updates
          PROVE  /\ tx[f].revision <= project'.revision
                 /\ tx[f].revision = project'.revision => project'.active = VersionOf[f]
      BY <1>3, <1>5, <3>1, <3>3, <3>4 DEF TxOf
    <3>5. ASSUME tx[f].kind = "promoted", ~tx[f].updates, NEW g \in Promoted', log'[g].revision = tx[f].revision
          PROVE  VersionOf[g] = VersionOf[f]
      <4>1. CASE g # e \/ Recorded(e)
        BY <1>10, <3>1, <3>5, <4>1 DEF TxOf
      <4>2. CASE g = e /\ ~Recorded(e)
        <5>1. t.kind = "promoted" /\ t.revision = tx[f].revision
          BY <1>10, <3>5, <4>2
        <5>2. ~t.updates
          BY <1>2, <1>3, <3>1, <3>5, <5>1 DEF TxOf, t
        <5> QED
          BY <1>2, <3>1, <3>5, <4>2, <5>1, <5>2 DEF SyncInv, HistoryInv, TxOK, Repeats, t
      <4> QED
        BY <4>1, <4>2
    <3>6. Recorded(f)' <=> Recorded(f)
      BY <1>8, <3>1
    <3> QED
      BY <1>4, <3>1, <3>2, <3>4, <3>5, <3>6 DEF TxOf
  <2>3. \A f \in Event : tx'[f].updates => tx'[f] = tx[f] /\ tx[f].stage = "inserted"
    BY <1>4, NoTxType DEF SyncInv, HistoryInv, TxOK
  <2>4. \A f, g \in Event : tx'[f].updates /\ tx'[g].updates => f = g
    BY <2>3 DEF SyncInv, HistoryInv, TxOK
  <2>5. \A f, g \in Event : Repeats(f)' /\ Repeats(g)' /\ tx'[f].revision = tx'[g].revision
                               => VersionOf[f] = VersionOf[g]
    BY <2>1 DEF SyncInv, HistoryInv, TxOK, Repeats
  <2> QED
    BY <2>2, <2>3, <2>4, <2>5 DEF TxOK
<1>13. CursorsOK'
  <2>1. \A f \in Event : CursorOf(f)' = CursorOf(f)
    <3> SUFFICES ASSUME NEW f \in Event PROVE CursorOf(f)' = CursorOf(f)
      OBVIOUS
    <3>1. CASE f # e
      BY <1>4, <1>8, <3>1 DEF CursorOf
    <3>2. CASE f = e
      BY <1>2, <1>3, <1>4, <1>8, <3>2 DEF CursorOf, t
    <3> QED
      BY <3>1, <3>2
  <2>2. \A f \in Event : ~Recorded(f)' /\ tx'[f].stage = "inserted" => ~Recorded(f) /\ tx'[f] = tx[f]
    BY <1>4, <1>8
  <2> QED
    BY <1>4, <2>1, <2>2 DEF SyncInv, CursorsOK
<1>14. \A d \in Device : /\ device'[d].page = device[d].page /\ device'[d].shown = device[d].shown
                         /\ device'[d].cursor = device[d].cursor
                         /\ device[d].overtaken \subseteq device'[d].overtaken
                         /\ ~Recorded(e) /\ HasPassed(d, t.cursor) => e \in device'[d].overtaken
  BY <1>1 DEF Commit, DeviceType, t
<1>15. PagesOK' /\ OnlyOvertakenEventsAreMissed'
  <2>1. History' = History \union {e}
    BY <1>8 DEF History
  <2>2. \A f \in History : log'[f] = log[f]
    BY <1>4 DEF History
  <2>3. e \in History \/ (~Recorded(e) /\ log'[e].cursor = t.cursor)
    BY <1>3, <1>4 DEF History
  <2>4. PagesOK'
    <3> SUFFICES ASSUME NEW d \in Device
                 PROVE  /\ device'[d].page \subseteq History'
                        /\ \A p \in device'[d].page, f \in History' : log'[f].cursor <= log'[p].cursor
                              => f \in device'[d].page \union device'[d].shown \union device'[d].overtaken
      BY DEF PagesOK
    <3>1. device[d].page \subseteq History
      BY DEF SyncInv, PagesOK
    <3>2. ASSUME NEW p \in device[d].page, NEW f \in History', log'[f].cursor <= log'[p].cursor
          PROVE  f \in device'[d].page \union device'[d].shown \union device'[d].overtaken
      <4>1. CASE f \in History
        BY <1>14, <2>2, <3>1, <3>2, <4>1 DEF SyncInv, PagesOK
      <4>2. CASE f \notin History
        BY <1>14, <2>1, <2>2, <2>3, <3>1, <3>2, <4>2 DEF HasPassed
      <4> QED
        BY <4>1, <4>2
    <3> QED
      BY <1>14, <2>1, <3>1, <3>2
  <2>5. OnlyOvertakenEventsAreMissed'
    <3> SUFFICES ASSUME NEW d \in Device, NEW f \in History', log'[f].cursor <= device'[d].cursor
                 PROVE  f \in device'[d].shown \union device'[d].overtaken
      BY DEF OnlyOvertakenEventsAreMissed
    <3>1. CASE f \in History
      BY <1>14, <2>2, <3>1 DEF SyncInv, OnlyOvertakenEventsAreMissed
    <3>2. CASE f \notin History
      BY <1>14, <2>1, <2>3, <3>2 DEF HasPassed
    <3> QED
      BY <3>1, <3>2
  <2> QED
    BY <2>4, <2>5
<1> QED
  BY <1>7, <1>9, <1>11, <1>12, <1>13, <1>15 DEF SyncInv, HistoryInv

-----------------------------------------------------------------------------
(* Devices and workers leave the history alone. *)

LEMMA HistoryKept ==
    ASSUME SyncInv, UNCHANGED <<expected, project, candidate, tx, sequence, log>>
    PROVE  LogOK' /\ TxOK' /\ DecisionsAreTrue' /\ CursorsOK' /\ History' = History
BY DEF SyncInv, HistoryInv, LogOK, TxOK, TxOf, Repeats, DecisionsAreTrue, Promoted, CursorsOK, CursorOf,
       Recorded, History

LEMMA OutboxStep ==
    ASSUME SyncInv, UNCHANGED <<expected, project, candidate, tx, sequence, log, device>>,
           outbox' \in [Event -> ItemType], worker' \in [Worker -> CycleType]
    PROVE  SyncInv'
<1>1. SyncTypeOK'
  BY TypeParts, TypesNext DEF SyncInv, HistoryInv
<1>2. LogOK' /\ TxOK' /\ DecisionsAreTrue' /\ CursorsOK' /\ History' = History
  BY HistoryKept
<1>3. PagesOK' /\ OnlyOvertakenEventsAreMissed'
  BY <1>2 DEF SyncInv, PagesOK, OnlyOvertakenEventsAreMissed
<1> QED
  BY <1>1, <1>2, <1>3 DEF SyncInv, HistoryInv

LEMMA WorkerStep ==
    ASSUME SyncInv, NEW w \in Worker,
           ClaimOutbox(w) \/ MarkPublished(w) \/ WorkerCrashes(w) \/ \E good \in SUBSET Event : Handle(w, good)
    PROVE  SyncInv'
<1>1. outbox \in [Event -> ItemType] /\ worker \in [Worker -> CycleType]
  BY TypeParts DEF SyncInv, HistoryInv
<1>2. NoCycle \in CycleType
  BY DEF NoCycle, CycleType
<1>3. CASE ClaimOutbox(w)
  <2>1. Batch \in SUBSET Event
    BY DEF Batch
  <2>2. worker' \in [Worker -> CycleType]
    BY <1>1, <1>3, <2>1 DEF ClaimOutbox, CycleType
  <2>3. \A e \in Event : [outbox[e] EXCEPT !.holder = w, !.held = TRUE] \in ItemType
    BY <1>1 DEF ItemType
  <2>4. outbox' \in [Event -> ItemType]
    BY <1>1, <1>3, <2>3 DEF ClaimOutbox
  <2> QED
    BY <1>3, <2>2, <2>4, OutboxStep DEF ClaimOutbox
<1>4. CASE MarkPublished(w)
  <2>1. [published |-> TRUE, holder |-> None, held |-> FALSE] \in ItemType
    BY DEF ItemType
  <2>2. outbox' \in [Event -> ItemType]
    BY <1>1, <1>4, <2>1 DEF MarkPublished
  <2> QED
    BY <1>1, <1>2, <1>4, <2>2, OutboxStep DEF MarkPublished
<1>5. CASE WorkerCrashes(w)
  BY <1>1, <1>2, <1>5, OutboxStep DEF WorkerCrashes
<1>6. CASE \E good \in SUBSET Event : Handle(w, good)
  <2>1. PICK good \in SUBSET Event : Handle(w, good)
    BY <1>6
  <2>2. [worker[w] EXCEPT !.stage = "handled", !.batch = good] \in CycleType
    BY <1>1 DEF CycleType
  <2>3. worker' = [worker EXCEPT ![w] = [worker[w] EXCEPT !.stage = "handled", !.batch = good]]
    BY <1>1, <2>1 DEF Handle, CycleType
  <2>4. worker' \in [Worker -> CycleType]
    BY <1>1, <2>2, <2>3
  <2> QED
    BY <1>1, <2>1, <2>4, OutboxStep DEF Handle
<1> QED
  BY <1>3, <1>4, <1>5, <1>6

LEMMA LapseStep == ASSUME SyncInv, NEW e \in Event, LeaseLapses(e) PROVE SyncInv'
<1>1. outbox \in [Event -> ItemType] /\ worker \in [Worker -> CycleType]
  BY TypeParts DEF SyncInv, HistoryInv
<1>2. outbox' \in [Event -> ItemType]
  BY <1>1 DEF LeaseLapses, ItemType
<1> QED
  BY <1>1, <1>2, OutboxStep DEF LeaseLapses

(* A device's step is right if its new page has no gaps and its new cursor   *)
(* passes nothing that it has not shown.                                     *)
LEMMA DeviceStep ==
    ASSUME SyncInv, NEW d \in Device, NEW x \in DeviceType, device' = [device EXCEPT ![d] = x],
           UNCHANGED <<expected, project, candidate, tx, sequence, log, outbox, worker>>,
           x.page \subseteq History,
           \A p \in x.page, e \in History :
              log[e].cursor <= log[p].cursor => e \in x.page \union x.shown \union x.overtaken,
           \A e \in History : log[e].cursor <= x.cursor => e \in x.shown \union x.overtaken
    PROVE  SyncInv'
<1>1. device \in [Device -> DeviceType]
  BY TypeParts DEF SyncInv, HistoryInv
<1>2. \A c \in Device : device'[c] = IF c = d THEN x ELSE device[c]
  BY <1>1
<1>3. SyncTypeOK'
  BY <1>1, TypeParts, TypesNext DEF SyncInv, HistoryInv
<1>4. LogOK' /\ TxOK' /\ DecisionsAreTrue' /\ CursorsOK' /\ History' = History
  BY HistoryKept
<1>5. PagesOK'
  BY <1>2, <1>4 DEF SyncInv, PagesOK
<1>6. OnlyOvertakenEventsAreMissed'
  BY <1>2, <1>4 DEF SyncInv, OnlyOvertakenEventsAreMissed
<1> QED
  BY <1>3, <1>4, <1>5, <1>6 DEF SyncInv, HistoryInv

(* events_after leaves no gap: whatever lies between the cursor and an event *)
(* of the page is in the page.                                               *)
LEMMA PageHasNoGaps ==
    ASSUME SyncTypeOK, NEW c \in Nat, NEW p \in EventsAfter(c), NEW e \in History,
           log[e].cursor > c, log[e].cursor <= log[p].cursor
    PROVE  e \in EventsAfter(c)
<1> DEFINE UpTo(f) == {g \in History : log[g].cursor \in (c + 1)..log[f].cursor}
<1>1. p \in History /\ Cardinality(UpTo(p)) <= PageSize
  BY DEF EventsAfter
<1>2. \A g \in Event : log[g].cursor \in Nat
  BY TypeParts DEF EventType
<1>3. History \subseteq Event
  BY DEF History
<1>4. UpTo(e) \subseteq UpTo(p) /\ UpTo(p) \subseteq Event
  BY <1>1, <1>2, <1>3
<1>5. IsFiniteSet(Event) /\ PageSize \in Nat
  BY SyncAssumption
<1> HIDE DEF UpTo
<1>6. IsFiniteSet(UpTo(p))
  BY <1>4, <1>5, FS_Subset
<1>7. IsFiniteSet(UpTo(e)) /\ Cardinality(UpTo(e)) <= Cardinality(UpTo(p))
  BY <1>4, <1>6, FS_Subset
<1>8. Cardinality(UpTo(e)) \in Nat /\ Cardinality(UpTo(p)) \in Nat
  BY <1>6, <1>7, FS_CardinalityType
<1>9. Cardinality(UpTo(e)) <= PageSize
  BY <1>1, <1>5, <1>7, <1>8
<1> QED
  BY <1>9 DEF EventsAfter, UpTo

LEMMA FetchStep == ASSUME SyncInv, NEW d \in Device, Fetch(d) PROVE SyncInv'
<1> DEFINE page == EventsAfter(device[d].cursor)
           x == [device[d] EXCEPT !.page = page]
<1>1. device \in [Device -> DeviceType] /\ device[d] \in DeviceType /\ SyncTypeOK
  BY TypeParts DEF SyncInv, HistoryInv
<1>2. page \subseteq History /\ History \subseteq Event
  BY DEF EventsAfter, History
<1>3. device[d].cursor \in Nat /\ \A e \in Event : log[e].cursor \in Nat
  BY <1>1, TypeParts DEF DeviceType, EventType
<1>4. \A p \in page, e \in History : log[e].cursor <= log[p].cursor
         => e \in page \union device[d].shown \union device[d].overtaken
  <2> SUFFICES ASSUME NEW p \in page, NEW e \in History, log[e].cursor <= log[p].cursor
               PROVE  e \in page \union device[d].shown \union device[d].overtaken
    OBVIOUS
  <2>1. CASE log[e].cursor <= device[d].cursor
    BY <2>1 DEF SyncInv, OnlyOvertakenEventsAreMissed
  <2>2. CASE log[e].cursor > device[d].cursor
    BY <1>1, <1>3, <2>2, PageHasNoGaps
  <2> QED
    BY <1>2, <1>3, <2>1, <2>2
<1>5. /\ device' = [device EXCEPT ![d] = x]
      /\ UNCHANGED <<expected, project, candidate, tx, sequence, log, outbox, worker>>
  BY DEF Fetch
<1> HIDE DEF page
<1>6. /\ x \in DeviceType /\ x.page = page /\ x.shown = device[d].shown /\ x.overtaken = device[d].overtaken
      /\ x.cursor = device[d].cursor
  BY <1>1, <1>2 DEF DeviceType
<1>7. \A e \in History : log[e].cursor <= device[d].cursor => e \in device[d].shown \union device[d].overtaken
  BY DEF SyncInv, OnlyOvertakenEventsAreMissed
<1> HIDE DEF x
<1> QED
  BY <1>2, <1>4, <1>5, <1>6, <1>7, DeviceStep

LEMMA ShowStep == ASSUME SyncInv, NEW d \in Device, NEW saved \in BOOLEAN, Show(d, saved) PROVE SyncInv'
<1>1. PICK next \in device[d].page :
          /\ \A e \in device[d].page : log[next].cursor <= log[e].cursor
          /\ device' = [device EXCEPT ![d].shown = @ \union {next},
                                     ![d].page = IF saved THEN @ \ {next} ELSE {},
                                     ![d].cursor = IF saved THEN log[next].cursor ELSE @]
  BY DEF Show
<1> DEFINE x == [device[d] EXCEPT !.shown = @ \union {next},
                                  !.page = IF saved THEN @ \ {next} ELSE {},
                                  !.cursor = IF saved THEN log[next].cursor ELSE @]
<1>2. device \in [Device -> DeviceType] /\ device[d] \in DeviceType /\ \A e \in Event : log[e].cursor \in Nat
  BY TypeParts DEF SyncInv, HistoryInv, EventType
<1>3. device[d].page \subseteq History /\ History \subseteq Event
  BY DEF SyncInv, PagesOK, History
<1>4. /\ x \in DeviceType /\ x.shown = device[d].shown \union {next} /\ x.overtaken = device[d].overtaken
      /\ saved => x.page = device[d].page \ {next} /\ x.cursor = log[next].cursor
      /\ ~saved => x.page = {} /\ x.cursor = device[d].cursor
  BY <1>2, <1>3 DEF DeviceType
<1>5. /\ device' = [device EXCEPT ![d] = x]
      /\ UNCHANGED <<expected, project, candidate, tx, sequence, log, outbox, worker>>
  BY <1>1, <1>2 DEF Show, DeviceType
<1> HIDE DEF x
<1>6. \A e \in History : log[e].cursor <= log[next].cursor => e \in x.shown \union x.overtaken
  <2> SUFFICES ASSUME NEW e \in History, log[e].cursor <= log[next].cursor
               PROVE  e \in x.shown \union x.overtaken
    OBVIOUS
  <2>1. e \in device[d].page \union device[d].shown \union device[d].overtaken
    BY DEF SyncInv, PagesOK
  <2>2. CASE e \in device[d].page
    <3>1. log[e].cursor = log[next].cursor
      BY <1>1, <1>2, <1>3, <2>2
    <3>2. CursorOf(e) = log[e].cursor /\ CursorOf(next) = log[next].cursor /\ log[e].cursor # 0
      BY <1>3 DEF CursorOf, History, Recorded
    <3>3. e = next
      BY <1>3, <3>1, <3>2 DEF SyncInv, CursorsOK
    <3> QED
      BY <1>4, <3>3
  <2> QED
    BY <1>4, <2>1, <2>2
<1>7. \A p \in x.page, e \in History :
          log[e].cursor <= log[p].cursor => e \in x.page \union x.shown \union x.overtaken
  BY <1>4 DEF SyncInv, PagesOK
<1>8. \A e \in History : log[e].cursor <= x.cursor => e \in x.shown \union x.overtaken
  BY <1>4, <1>6 DEF SyncInv, OnlyOvertakenEventsAreMissed
<1>9. x.page \subseteq History
  BY <1>3, <1>4
<1> QED
  BY <1>4, <1>5, <1>7, <1>8, <1>9, DeviceStep

LEMMA LeastElement == ASSUME NEW S, S \subseteq Nat, S # {} PROVE \E x \in S : \A y \in S : x <= y
<1> DEFINE R == OpToRel(<, Nat)
<1>1. IsWellFoundedOn(R, Nat)
  BY NatLessThanWellFounded
<1> HIDE DEF R
<1>2. PICK x \in S : \A y \in S : ~(<<y, x>> \in R)
  BY <1>1, WFMin
<1>3. \A y \in S : <<y, x>> \in R <=> y < x
  BY DEF R, OpToRel
<1>4. \A y \in S : ~(y < x)
  BY <1>2, <1>3
<1>5. \A y \in S : x <= y
  BY <1>4
<1> QED
  BY <1>5

LEMMA ReconnectStep == ASSUME SyncInv, NEW d \in Device, Reconnect(d) PROVE SyncInv'
<1> DEFINE c == device[d].cursor
           replay == IF Oldest > 0 THEN Oldest - 1 ELSE 0
           x == [device[d] EXCEPT !.page = {}, !.cursor = Reconciled(c)]
<1>1. device \in [Device -> DeviceType] /\ device[d] \in DeviceType /\ \A e \in Event : log[e].cursor \in Nat
  BY TypeParts DEF SyncInv, HistoryInv, EventType
<1>2. Oldest \in Nat /\ \A e \in History : Oldest <= log[e].cursor
  <2> DEFINE S == {log[e].cursor : e \in History}
  <2>1. S \subseteq Nat
    BY <1>1 DEF History
  <2>2. CASE History = {}
    BY <2>2 DEF Oldest
  <2>3. CASE History # {}
    <3>1. S # {}
      BY <2>3
    <3> HIDE DEF S
    <3>2. Min(S) \in S /\ \A y \in S : Min(S) <= y
      BY <2>1, <3>1, LeastElement DEF Min
    <3>3. Oldest = Min(S)
      BY <2>3 DEF Oldest, S
    <3>4. \A e \in History : log[e].cursor \in S
      BY DEF S
    <3> QED
      BY <2>1, <3>2, <3>3, <3>4
  <2> QED
    BY <2>2, <2>3
<1>3. Reconciled(c) \in {c, replay}
  BY DEF Reconciled
<1>4. c \in Nat /\ replay \in Nat
  BY <1>1, <1>2 DEF DeviceType
<1>5. \A e \in History : ~(log[e].cursor <= replay)
  BY <1>1, <1>2 DEF History, Recorded
<1>6. /\ device' = [device EXCEPT ![d] = x]
      /\ UNCHANGED <<expected, project, candidate, tx, sequence, log, outbox, worker>>
  BY DEF Reconnect
<1>7. /\ x \in DeviceType /\ x.page = {} /\ x.cursor = Reconciled(c)
      /\ x.shown = device[d].shown /\ x.overtaken = device[d].overtaken
  BY <1>1, <1>3, <1>4 DEF DeviceType
<1>8. \A e \in History : log[e].cursor <= c => e \in device[d].shown \union device[d].overtaken
  BY DEF SyncInv, OnlyOvertakenEventsAreMissed
<1> HIDE DEF x, replay, c
<1> QED
  BY <1>3, <1>5, <1>6, <1>7, <1>8, DeviceStep

-----------------------------------------------------------------------------
LEMMA SyncStep == SyncInv /\ [Next]_vars => SyncInv'
<1> SUFFICES ASSUME SyncInv, [Next]_vars PROVE SyncInv'
  OBVIOUS
<1>1. ASSUME NEW e \in Event, Request(e) \/ Commit(e) \/ Rollback(e) \/ LeaseLapses(e) PROVE SyncInv'
  BY <1>1, PromoteStep, LookAgainStep, MissOrRollbackStep, CommitStep, LapseStep DEF Request
<1>2. ASSUME NEW d \in Device, Fetch(d) \/ Reconnect(d) \/ \E saved \in BOOLEAN : Show(d, saved)
      PROVE  SyncInv'
  BY <1>2, FetchStep, ReconnectStep, ShowStep
<1>3. ASSUME NEW w \in Worker,
             ClaimOutbox(w) \/ MarkPublished(w) \/ WorkerCrashes(w) \/ \E good \in SUBSET Event : Handle(w, good)
      PROVE  SyncInv'
  BY <1>3, WorkerStep
<1>4. CASE UNCHANGED vars
  <2>1. outbox \in [Event -> ItemType] /\ worker \in [Worker -> CycleType]
    BY TypeParts DEF SyncInv, HistoryInv
  <2>2. UNCHANGED <<expected, project, candidate, tx, sequence, log, device>> /\ outbox' = outbox /\ worker' = worker
    BY <1>4 DEF vars
  <2> QED
    BY <2>1, <2>2, OutboxStep
<1> QED
  BY <1>1, <1>2, <1>3, <1>4 DEF Next

(* The invariant holds in every behaviour of requests, devices and workers.  *)
THEOREM SyncInvariant == Spec => []SyncInv
BY SyncInit, SyncStep, PTL DEF Spec

(* Rows, open transactions, pages and cycles are well typed.                 *)
THEOREM SyncTypes == Spec => []SyncTypeOK
<1>1. SyncInv => SyncTypeOK
  BY DEF SyncInv, HistoryInv
<1> QED
  BY SyncInvariant, <1>1, PTL

(* What promote_version records is true, however requests compete, are       *)
(* repeated or lost: promoted versions are the project's revisions in order, *)
(* retained ones are candidates.                                             *)
THEOREM HistoryIsTrue == Spec => []DecisionsAreTrue
<1>1. SyncInv => DecisionsAreTrue
  BY DEF SyncInv, HistoryInv
<1> QED
  BY SyncInvariant, <1>1, PTL

(* A device that resumes from its checkpoint misses no event but one that    *)
(* was committed after the device had read past its cursor.                  *)
THEOREM MissedOnlyIfOvertaken == Spec => []OnlyOvertakenEventsAreMissed
<1>1. SyncInv => OnlyOvertakenEventsAreMissed
  BY DEF SyncInv
<1> QED
  BY SyncInvariant, <1>1, PTL
=============================================================================
