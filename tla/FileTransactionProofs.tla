------------------------ MODULE FileTransactionProofs ------------------------
(***************************************************************************)
(* Change sets are all or nothing, for every set of files and change sets, *)
(* and however often calls fail, processes die and journals survive.       *)
(*                                                                         *)
(* AllOrNothing is not inductive: it says nothing of the backups while the *)
(* files are still untouched.  JournalInv says what a journal is worth in  *)
(* any stage of its life, BackupInv, WriteInv, RollbackInv and CleanupInv  *)
(* what the call under way has done in each of its stages.                 *)
(***************************************************************************)
EXTENDS FileTransaction, TLAPS

(* What a journal on the disk says about the files.                          *)
JournalInv ==
    /\ ~journal.dir => journal = NoJournal
    /\ journal.manifest =>
          /\ \A f \in File \ journal.entries : files[f] = before[f] /\ after[f] = before[f]
          /\ \A f \in journal.entries : f \in journal.existed <=> before[f] # Absent
          /\ \A f \in journal.existed : journal.backup[f] \in {before[f], Absent}
    /\ journal.applied => marked /\ cleaned
    /\ ~cleaned /\ journal.manifest => \A f \in journal.existed : journal.backup[f] = before[f]
    /\ ~cleaned /\ ~journal.manifest => files = before

(* What the call under way has done. *)
BackupInv ==
    call.stage = "backup" =>
        /\ ~cleaned /\ ~marked /\ journal.dir /\ ~journal.manifest
        /\ call.todo \subseteq Touched(call.plan)
        /\ after = Result(call.plan)
        /\ \A f \in Touched(call.plan) \ call.todo : journal.backup[f] = files[f]

WriteInv ==
    call.stage = "write" =>
        /\ ~cleaned /\ ~marked /\ journal.dir /\ journal.manifest
        /\ call.todo \subseteq Touched(call.plan)
        /\ journal.entries = Touched(call.plan)
        /\ \A f \in Touched(call.plan) : after[f] = call.plan[f]
        /\ \A f \in Touched(call.plan) \ call.todo : files[f] = after[f]

RollbackInv ==
    call.stage = "rollback" =>
        /\ ~marked /\ journal.dir /\ journal.manifest /\ ~journal.applied
        /\ call.todo \subseteq journal.entries
        /\ \A f \in journal.entries \ call.todo : files[f] = before[f]

CleanupInv ==
    /\ call.stage = "cleanup" => cleaned /\ journal.dir /\ files \in {before, after} /\ (marked => files = after)
    /\ call.stage = "validate" => ~journal.dir

FileInv ==
    /\ FileTypeOK
    /\ AllOrNothing
    /\ MarkedIsKept
    /\ JournalInv
    /\ BackupInv
    /\ WriteInv
    /\ RollbackInv
    /\ CleanupInv

LEMMA FileInit == Init => FileInv
<1> SUFFICES ASSUME Init PROVE FileInv
  OBVIOUS
<1> USE DEF Init, NoJournal, NoCall, NoPlan, NoBackups, Value
<1>1. FileTypeOK
  BY DEF FileTypeOK
<1>2. JournalInv /\ AllOrNothing /\ MarkedIsKept
  BY DEF JournalInv, AllOrNothing, MarkedIsKept
<1>3. BackupInv /\ WriteInv /\ RollbackInv /\ CleanupInv
  BY DEF BackupInv, WriteInv, RollbackInv, CleanupInv
<1> QED
  BY <1>1, <1>2, <1>3 DEF FileInv

(* A call that ends or dies leaves files and journal as they are.            *)
LEMMA CallEnds ==
    ASSUME FileInv, call' = NoCall, UNCHANGED <<files, journal, before, after, marked, cleaned>>
    PROVE  FileInv'
<1>1. FileTypeOK'
  BY DEF FileInv, FileTypeOK, NoCall, NoPlan
<1>2. AllOrNothing' /\ MarkedIsKept' /\ JournalInv'
  BY DEF FileInv, AllOrNothing, MarkedIsKept, JournalInv, Restored
<1>3. BackupInv' /\ WriteInv' /\ RollbackInv' /\ CleanupInv'
  BY DEF BackupInv, WriteInv, RollbackInv, CleanupInv, NoCall
<1> QED
  BY <1>1, <1>2, <1>3 DEF FileInv

LEMMA BeginStep == ASSUME NEW plan \in Plans, FileInv, Begin(plan) PROVE FileInv'
<1> USE DEF Begin, NoCall, NoPlan
<1>1. FileTypeOK'
  <2>1. plan \in [File -> Value \union {Keep}]
    BY FileAssumption DEF Value
  <2> QED
    BY <2>1 DEF FileInv, FileTypeOK
<1>2. JournalInv'
  BY DEF FileInv, JournalInv, Restored
<1>3. AllOrNothing' /\ MarkedIsKept'
  BY <1>1, <1>2 DEF FileInv, AllOrNothing, MarkedIsKept, Restored
<1>4. BackupInv' /\ WriteInv'
  BY <1>1 DEF BackupInv, WriteInv, Touched
<1>5. RollbackInv' /\ CleanupInv'
  BY <1>1, <1>2 DEF RollbackInv, CleanupInv, Restored
<1> QED
  BY <1>1, <1>2, <1>3, <1>4, <1>5 DEF FileInv

LEMMA RecoverStep == ASSUME FileInv, Recover PROVE FileInv'
<1> USE DEF Recover, Undecided
<1>1. FileTypeOK'
  BY DEF FileInv, FileTypeOK
<1>2. JournalInv'
  BY DEF FileInv, JournalInv, Restored
<1>3. AllOrNothing' /\ MarkedIsKept'
  BY <1>1, <1>2 DEF FileInv, AllOrNothing, MarkedIsKept, Restored
<1>4. BackupInv' /\ WriteInv'
  BY <1>1 DEF FileTypeOK, BackupInv, WriteInv
<1>5. RollbackInv' /\ CleanupInv'
  BY <1>1, <1>2 DEF FileInv, FileTypeOK, RollbackInv, CleanupInv, AllOrNothing, MarkedIsKept
<1> QED
  BY <1>1, <1>2, <1>3, <1>4, <1>5 DEF FileInv

LEMMA ValidateStep == ASSUME NEW ok \in BOOLEAN, FileInv, Validate(ok) PROVE FileInv'
<1>1. CASE ~ok
  BY <1>1, CallEnds DEF Validate
<1>2. CASE ok
  <2>1. /\ call' = [call EXCEPT !.stage = "backup", !.todo = Touched(call.plan), !.recovering = FALSE]
        /\ journal' = [NoJournal EXCEPT !.dir = TRUE]
        /\ before' = files /\ after' = Result(call.plan) /\ files' = files
        /\ marked' = FALSE /\ cleaned' = FALSE
    BY <1>2 DEF Validate
  <2>2. Touched(call.plan) \subseteq File /\ Result(call.plan) \in [File -> Value]
    BY DEF FileInv, FileTypeOK, Touched, Result
  <2>3. journal' = [dir |-> TRUE, manifest |-> FALSE, applied |-> FALSE, entries |-> {}, existed |-> {},
                    backup |-> NoBackups]
    BY <2>1 DEF NoJournal
  <2>4. call'.stage = "backup" /\ call'.plan = call.plan /\ call'.todo = Touched(call.plan)
    BY <2>1 DEF FileInv, FileTypeOK
  <2>5. FileTypeOK'
    <3>1. call' \in [stage : {"idle", "recover", "validate", "backup", "write", "rollback", "cleanup"},
                     plan : [File -> Value \union {Keep}], todo : SUBSET File, recovering : BOOLEAN]
      BY <2>1, <2>2 DEF FileInv, FileTypeOK
    <3>2. journal' \in [dir : BOOLEAN, manifest : BOOLEAN, applied : BOOLEAN, entries : SUBSET File,
                        existed : SUBSET File, backup : [File -> Value]]
      BY <2>3 DEF NoBackups, Value
    <3> QED
      BY <2>1, <2>2, <3>1, <3>2 DEF FileInv, FileTypeOK
  <2>6. AllOrNothing' /\ MarkedIsKept' /\ JournalInv'
    BY <2>1, <2>3 DEF AllOrNothing, MarkedIsKept, JournalInv
  <2>7. BackupInv'
    BY <2>1, <2>3, <2>4 DEF BackupInv, Touched, Result
  <2>8. WriteInv' /\ RollbackInv' /\ CleanupInv'
    BY <2>4 DEF WriteInv, RollbackInv, CleanupInv
  <2> QED
    BY <2>5, <2>6, <2>7, <2>8 DEF FileInv
<1> QED
  BY <1>1, <1>2

LEMMA BackUpStep == ASSUME NEW f \in File, FileInv, BackUp(f) PROVE FileInv'
<1> USE DEF BackUp, Result
<1>1. FileTypeOK'
  BY FileAssumption DEF FileInv, FileTypeOK, Value
<1>2. JournalInv'
  BY DEF FileInv, JournalInv, BackupInv
<1>3. AllOrNothing' /\ MarkedIsKept'
  BY <1>1, <1>2 DEF FileInv, BackupInv, AllOrNothing, MarkedIsKept
<1>4. BackupInv' /\ WriteInv'
  BY <1>1 DEF FileInv, FileTypeOK, BackupInv, WriteInv
<1>5. RollbackInv' /\ CleanupInv'
  BY <1>1, <1>2 DEF RollbackInv, CleanupInv, Restored
<1> QED
  BY <1>1, <1>2, <1>3, <1>4, <1>5 DEF FileInv

LEMMA ManifestStep == ASSUME FileInv, WriteManifest PROVE FileInv'
<1> USE DEF WriteManifest, Existed, Result, Touched
<1>1. FileTypeOK'
  BY FileAssumption DEF FileInv, FileTypeOK, Value
<1>2. JournalInv'
  BY DEF FileInv, JournalInv, BackupInv
<1>3. AllOrNothing' /\ MarkedIsKept'
  BY <1>1, <1>2 DEF FileInv, BackupInv, AllOrNothing, MarkedIsKept
<1>4. BackupInv' /\ WriteInv'
  BY <1>1 DEF FileInv, BackupInv, WriteInv
<1>5. RollbackInv' /\ CleanupInv'
  BY <1>1, <1>2 DEF RollbackInv, CleanupInv, Restored
<1> QED
  BY <1>1, <1>2, <1>3, <1>4, <1>5 DEF FileInv

LEMMA WriteStep == ASSUME NEW f \in File, FileInv, Write(f) PROVE FileInv'
<1> USE DEF Write, Touched
<1>1. FileTypeOK'
  <2>1. call.plan[f] \in Value
    BY DEF FileInv, FileTypeOK, WriteInv
  <2>2. files' \in [File -> Value]
    BY <2>1 DEF FileInv, FileTypeOK
  <2>3. call' \in [stage : {"idle", "recover", "validate", "backup", "write", "rollback", "cleanup"},
                   plan : [File -> Value \union {Keep}], todo : SUBSET File, recovering : BOOLEAN]
    BY DEF FileInv, FileTypeOK
  <2> QED
    BY <2>2, <2>3 DEF FileInv, FileTypeOK
<1>2. JournalInv'
  <2>1. f \in journal.entries /\ journal.manifest
    BY DEF FileInv, WriteInv
  <2>2. \A g \in File \ journal.entries : files'[g] = files[g]
    BY <2>1 DEF FileInv, FileTypeOK
  <2> QED
    BY <2>1, <2>2 DEF FileInv, JournalInv
<1>3. AllOrNothing' /\ MarkedIsKept'
  BY <1>1, <1>2 DEF FileInv, FileTypeOK, JournalInv, WriteInv, AllOrNothing, MarkedIsKept, Restored
<1>4. BackupInv' /\ WriteInv'
  BY <1>1 DEF FileInv, FileTypeOK, BackupInv, WriteInv
<1>5. RollbackInv' /\ CleanupInv'
  BY <1>1, <1>2 DEF RollbackInv, CleanupInv, Restored
<1> QED
  BY <1>1, <1>2, <1>3, <1>4, <1>5 DEF FileInv

LEMMA MarkAppliedStep == ASSUME FileInv, MarkApplied PROVE FileInv'
<1> USE DEF MarkApplied, Touched
<1>1. FileTypeOK'
  BY FileAssumption DEF FileInv, FileTypeOK, Value
<1>2. JournalInv'
  BY DEF FileInv, JournalInv, WriteInv
<1>3. AllOrNothing' /\ MarkedIsKept'
  BY <1>1, <1>2 DEF FileInv, FileTypeOK, JournalInv, WriteInv, AllOrNothing, MarkedIsKept
<1>4. BackupInv' /\ WriteInv'
  BY <1>1 DEF BackupInv, WriteInv, Touched
<1>5. RollbackInv' /\ CleanupInv'
  BY <1>1, <1>2 DEF FileInv, FileTypeOK, JournalInv, WriteInv, RollbackInv, CleanupInv
<1> QED
  BY <1>1, <1>2, <1>3, <1>4, <1>5 DEF FileInv

LEMMA FailsStep == ASSUME FileInv, StepFails PROVE FileInv'
<1> USE DEF StepFails
<1>1. FileTypeOK'
  BY DEF FileInv, FileTypeOK
<1>2. JournalInv'
  BY DEF FileInv, JournalInv, Restored
<1>3. AllOrNothing' /\ MarkedIsKept'
  BY <1>1, <1>2 DEF FileInv, AllOrNothing, MarkedIsKept, Restored
<1>4. BackupInv' /\ WriteInv'
  BY <1>1 DEF FileTypeOK, BackupInv, WriteInv
<1>5. RollbackInv' /\ CleanupInv'
  <2>1. CASE call.stage = "backup"
    BY <2>1 DEF FileInv, FileTypeOK, JournalInv, BackupInv, RollbackInv, CleanupInv
  <2>2. CASE call.stage = "write"
    <3>1. call'.stage = "rollback" /\ call'.todo = journal.entries /\ UNCHANGED <<files, journal, marked, before>>
      BY <2>2 DEF FileInv, FileTypeOK
    <3>2. ~marked /\ journal.dir /\ journal.manifest /\ ~journal.applied
      BY <2>2 DEF FileInv, JournalInv, WriteInv
    <3> QED
      BY <3>1, <3>2 DEF RollbackInv, CleanupInv
  <2> QED
    BY <2>1, <2>2
<1> QED
  BY <1>1, <1>2, <1>3, <1>4, <1>5 DEF FileInv

LEMMA UndoStep == ASSUME NEW f \in File, FileInv, Undo(f) PROVE FileInv'
<1> USE DEF Undo, LostBackup
<1>1. FileTypeOK'
  BY FileAssumption DEF FileInv, FileTypeOK, Value
<1>2. JournalInv'
  BY DEF FileInv, JournalInv, BackupInv, RollbackInv, CleanupInv
<1>3. AllOrNothing' /\ MarkedIsKept'
  BY <1>1, <1>2 DEF FileInv, FileTypeOK, JournalInv, RollbackInv, AllOrNothing, MarkedIsKept, Restored
<1>4. BackupInv' /\ WriteInv'
  BY <1>1 DEF BackupInv, WriteInv, Touched
<1>5. RollbackInv' /\ CleanupInv'
  BY <1>1, <1>2 DEF FileInv, FileTypeOK, JournalInv, RollbackInv, CleanupInv
<1> QED
  BY <1>1, <1>2, <1>3, <1>4, <1>5 DEF FileInv

LEMMA RolledBackStep == ASSUME FileInv, RolledBack PROVE FileInv'
<1> USE DEF RolledBack
<1>1. FileTypeOK'
  BY FileAssumption DEF FileInv, FileTypeOK, Value
<1>2. JournalInv'
  BY DEF FileInv, JournalInv, Restored
<1>3. AllOrNothing' /\ MarkedIsKept'
  BY <1>1, <1>2 DEF FileInv, AllOrNothing, MarkedIsKept
<1>4. BackupInv' /\ WriteInv'
  BY <1>1 DEF BackupInv, WriteInv, Touched
<1>5. RollbackInv' /\ CleanupInv'
  BY <1>1, <1>2 DEF FileInv, FileTypeOK, JournalInv, RollbackInv, CleanupInv
<1> QED
  BY <1>1, <1>2, <1>3, <1>4, <1>5 DEF FileInv

LEMMA RemoveStep == ASSUME FileInv, Remove PROVE FileInv'
<1> USE DEF Remove
<1>1. FileTypeOK'
  <2>1. journal' \in [dir : BOOLEAN, manifest : BOOLEAN, applied : BOOLEAN, entries : SUBSET File,
                      existed : SUBSET File, backup : [File -> Value]]
    <3>1. CASE journal' = [journal EXCEPT !.applied = FALSE]
      BY <3>1 DEF FileInv, FileTypeOK
    <3>2. CASE journal' = [journal EXCEPT !.manifest = FALSE]
      BY <3>2 DEF FileInv, FileTypeOK
    <3>3. CASE \E f \in File : journal' = [journal EXCEPT !.backup[f] = Absent]
      BY <3>3 DEF FileInv, FileTypeOK, Value
    <3> QED
      BY <3>1, <3>2, <3>3
  <2> QED
    BY <2>1 DEF FileInv, FileTypeOK
<1>2. JournalInv'
  <2>1. /\ cleaned /\ journal.dir /\ UNCHANGED <<files, before, after, marked, cleaned>>
    BY DEF FileInv, CleanupInv
  <2>2. CASE journal' = [journal EXCEPT !.applied = FALSE]
    BY <2>1, <2>2 DEF FileInv, FileTypeOK, JournalInv
  <2>3. CASE journal' = [journal EXCEPT !.manifest = FALSE]
    BY <2>1, <2>3 DEF FileInv, FileTypeOK, JournalInv
  <2>4. CASE \E f \in File : journal' = [journal EXCEPT !.backup[f] = Absent]
    <3>1. /\ \A g \in File : journal'.backup[g] \in {journal.backup[g], Absent}
          /\ journal'.dir = journal.dir /\ journal'.manifest = journal.manifest
          /\ journal'.applied = journal.applied /\ journal'.entries = journal.entries
          /\ journal'.existed = journal.existed
      BY <2>4 DEF FileInv, FileTypeOK
    <3>2. journal.existed \subseteq File
      BY DEF FileInv, FileTypeOK
    <3> QED
      BY <2>1, <3>1, <3>2 DEF FileInv, JournalInv
  <2> QED
    BY <2>2, <2>3, <2>4
<1>3. AllOrNothing' /\ MarkedIsKept'
  BY <1>1, <1>2 DEF FileInv, CleanupInv, AllOrNothing, MarkedIsKept
<1>4. BackupInv' /\ WriteInv'
  BY <1>1 DEF BackupInv, WriteInv, Touched
<1>5. RollbackInv' /\ CleanupInv'
  BY <1>1, <1>2 DEF FileInv, FileTypeOK, JournalInv, RollbackInv, CleanupInv
<1> QED
  BY <1>1, <1>2, <1>3, <1>4, <1>5 DEF FileInv

LEMMA RemovedStep == ASSUME FileInv, Removed PROVE FileInv'
<1> USE DEF Removed, NoCall, NoPlan, NoJournal, NoBackups
<1>1. FileTypeOK'
  BY FileAssumption DEF FileInv, FileTypeOK, NoJournal
<1>2. JournalInv'
  BY DEF FileInv, JournalInv, Restored
<1>3. AllOrNothing' /\ MarkedIsKept'
  BY <1>1, <1>2 DEF FileInv, BackupInv, AllOrNothing, MarkedIsKept
<1>4. BackupInv' /\ WriteInv'
  BY <1>1 DEF BackupInv, WriteInv, Touched
<1>5. RollbackInv' /\ CleanupInv'
  BY <1>1, <1>2 DEF RollbackInv, CleanupInv, AllOrNothing, MarkedIsKept, Restored
<1> QED
  BY <1>1, <1>2, <1>3, <1>4, <1>5 DEF FileInv

LEMMA StutterStep == ASSUME FileInv, UNCHANGED vars PROVE FileInv'
<1> USE DEF vars
<1>1. FileTypeOK'
  BY FileAssumption DEF FileInv, FileTypeOK, Value
<1>2. JournalInv'
  BY DEF FileInv, JournalInv, Restored
<1>3. AllOrNothing' /\ MarkedIsKept'
  BY <1>1, <1>2 DEF FileInv, AllOrNothing, MarkedIsKept, Restored
<1>4. BackupInv' /\ WriteInv'
  BY <1>1 DEF FileInv, BackupInv, WriteInv, Result
<1>5. RollbackInv' /\ CleanupInv'
  BY <1>1, <1>2 DEF FileInv, RollbackInv, CleanupInv, AllOrNothing, MarkedIsKept, Restored
<1> QED
  BY <1>1, <1>2, <1>3, <1>4, <1>5 DEF FileInv

-----------------------------------------------------------------------------
LEMMA FileStep == FileInv /\ [Next]_vars => FileInv'
<1> SUFFICES ASSUME FileInv, [Next]_vars PROVE FileInv'
  OBVIOUS
<1>1. CASE \E plan \in Plans : Begin(plan)
  BY <1>1, BeginStep
<1>2. CASE Recover
  BY <1>2, RecoverStep
<1>3. CASE \E ok \in BOOLEAN : Validate(ok)
  BY <1>3, ValidateStep
<1>4. CASE \E f \in File : BackUp(f) \/ Write(f) \/ Undo(f)
  BY <1>4, BackUpStep, WriteStep, UndoStep
<1>5. CASE WriteManifest \/ MarkApplied \/ StepFails
  BY <1>5, ManifestStep, MarkAppliedStep, FailsStep
<1>6. CASE RolledBack
  BY <1>6, RolledBackStep
<1>7. CASE Remove \/ Removed
  BY <1>7, RemoveStep, RemovedStep
<1>8. CASE RollbackFails \/ NotRemoved \/ Crash
  BY <1>8, CallEnds DEF RollbackFails, NotRemoved, Crash
<1>9. CASE UNCHANGED vars
  BY <1>9, StutterStep
<1> QED
  BY <1>1, <1>2, <1>3, <1>4, <1>5, <1>6, <1>7, <1>8, <1>9 DEF Next

(* The invariant holds in every behaviour: apply_changeset, recover,         *)
(* rollback and cleanup, with failures and deaths of the process anywhere.   *)
THEOREM FileInvariant == Spec => []FileInv
<1>1. FileInv /\ [Next]_vars => FileInv'
  BY FileStep
<1> QED
  BY FileInit, <1>1, PTL DEF Spec

(* Files, journal and call have their types in every behaviour.              *)
THEOREM FileTypes == Spec => []FileTypeOK
<1>1. FileInv => FileTypeOK
  BY DEF FileInv
<1> QED
  BY FileInvariant, <1>1, PTL

(* A change set of any size is applied as a whole or can be undone as a      *)
(* whole, wherever apply_changeset fails or the process dies, unless the     *)
(* journal was itself half removed.                                          *)
THEOREM ChangesetsAllOrNothing == Spec => []AllOrNothing
<1>1. FileInv => AllOrNothing
  BY DEF FileInv
<1> QED
  BY FileInvariant, <1>1, PTL

(* Once mark_applied has run, no recovery undoes the change set, unless the  *)
(* mark was removed before the manifest.                                     *)
THEOREM MarkedChangesetsKept == Spec => []MarkedIsKept
<1>1. FileInv => MarkedIsKept
  BY DEF FileInv
<1> QED
  BY FileInvariant, <1>1, PTL
=============================================================================
