--------------------------- MODULE FileTransaction ---------------------------
(***************************************************************************)
(* Change sets on the files of a project version: apply_changeset          *)
(* (workspace/filesystem.py) and its journal (workspace/                   *)
(* file_transaction.py) in a core that may die at any point.  Writing and  *)
(* removing a file are atomic; a version lock admits one call at a time.   *)
(* The journal is a directory with a backup of each file that existed, a   *)
(* manifest that lists the files, and at last a mark that all were written.*)
(* It is removed file by file, in an order that the file system chooses.   *)
(***************************************************************************)
EXTENDS Naturals, FiniteSets

CONSTANTS
    File,           \* paths of the version
    Content,        \* what a file may hold
    Absent,         \* of a file that does not exist, or has no backup
    Keep,           \* of a file that a change set does not name
    Plans           \* change sets: what each file is to hold

ASSUME FileAssumption ==
    /\ Absent \notin Content
    /\ Keep \notin Content \union {Absent}
    /\ Plans \subseteq [File -> Content \union {Absent, Keep}]

VARIABLES
    files,          \* the version's files
    journal,        \* the transaction directory
    call,           \* the call of apply_changeset under way
    before, after,  \* the files before and after the last change set
    marked,         \* it has been marked as applied, and not undone
    cleaned         \* its journal has begun to be removed

vars == <<files, journal, call, before, after, marked, cleaned>>

Value == Content \union {Absent}
Touched(plan) == {f \in File : plan[f] # Keep}
Result(plan) == [f \in File |-> IF plan[f] = Keep THEN files[f] ELSE plan[f]]

NoBackups == [f \in File |-> Absent]
NoJournal == [dir |-> FALSE, manifest |-> FALSE, applied |-> FALSE, entries |-> {}, existed |-> {},
              backup |-> NoBackups]
NoPlan == [f \in File |-> Keep]
NoCall == [stage |-> "idle", plan |-> NoPlan, todo |-> {}, recovering |-> FALSE]

(* The files, the journal and the call have their types. *)
FileTypeOK ==
    /\ files \in [File -> Value]
    /\ journal \in [dir : BOOLEAN, manifest : BOOLEAN, applied : BOOLEAN, entries : SUBSET File,
                    existed : SUBSET File, backup : [File -> Value]]
    /\ call \in [stage : {"idle", "recover", "validate", "backup", "write", "rollback", "cleanup"},
                 plan : [File -> Value \union {Keep}], todo : SUBSET File, recovering : BOOLEAN]
    /\ before \in [File -> Value]
    /\ after \in [File -> Value]
    /\ marked \in BOOLEAN
    /\ cleaned \in BOOLEAN

Init ==
    /\ files \in [File -> Value]
    /\ before = files
    /\ after = files
    /\ journal = NoJournal
    /\ call = NoCall
    /\ marked = FALSE
    /\ cleaned = FALSE

-----------------------------------------------------------------------------
(* Recovery comes first: recover *)

Begin(plan) ==
    /\ call.stage = "idle"
    /\ call' = [NoCall EXCEPT !.stage = "recover", !.plan = plan, !.recovering = TRUE]
    /\ UNCHANGED <<files, journal, before, after, marked, cleaned>>

FaultyUndecided == journal.manifest
(* A journal that says what to undo, and not that it has all been done.      *)
Undecided == journal.manifest /\ ~journal.applied

Recover ==
    /\ call.stage = "recover"
    /\ \/ /\ ~journal.dir
          /\ call' = [call EXCEPT !.stage = "validate"]
          /\ UNCHANGED <<marked, cleaned>>
       \/ /\ journal.dir /\ ~Undecided
          /\ call' = [call EXCEPT !.stage = "cleanup"]
          /\ cleaned' = TRUE
          /\ UNCHANGED marked
       \/ /\ journal.dir /\ Undecided
          /\ call' = [call EXCEPT !.stage = "rollback", !.todo = journal.entries]
          /\ marked' = (marked /\ journal.applied)
          /\ UNCHANGED cleaned
    /\ UNCHANGED <<files, journal, before, after>>

(* The current files must be the ones the change set was made for.           *)
Validate(ok) ==
    /\ call.stage = "validate"
    /\ IF ok
       THEN /\ call' = [call EXCEPT !.stage = "backup", !.todo = Touched(call.plan), !.recovering = FALSE]
            /\ journal' = [NoJournal EXCEPT !.dir = TRUE]
            /\ before' = files
            /\ after' = Result(call.plan)
            /\ marked' = FALSE
            /\ cleaned' = FALSE
       ELSE /\ call' = NoCall
            /\ UNCHANGED <<journal, before, after, marked, cleaned>>
    /\ UNCHANGED files

-----------------------------------------------------------------------------
(* prepare, the writes, and mark_applied *)

BackUp(f) ==
    /\ call.stage = "backup"
    /\ f \in call.todo
    /\ journal' = [journal EXCEPT !.backup[f] = files[f]]
    /\ call' = [call EXCEPT !.todo = @ \ {f}]
    /\ UNCHANGED <<files, before, after, marked, cleaned>>

FaultyExisted == {}
(* The entries that had a file to back up. *)
Existed == {f \in Touched(call.plan) : journal.backup[f] # Absent}

WriteManifest ==
    /\ call.stage = "backup"
    /\ call.todo = {}
    /\ journal' = [journal EXCEPT !.manifest = TRUE, !.entries = Touched(call.plan), !.existed = Existed]
    /\ call' = [call EXCEPT !.stage = "write", !.todo = Touched(call.plan)]
    /\ UNCHANGED <<files, before, after, marked, cleaned>>

(* atomic_write_scoped or unlink_scoped; a rename is one of each.            *)
Write(f) ==
    /\ call.stage = "write"
    /\ f \in call.todo
    /\ files' = [files EXCEPT ![f] = call.plan[f]]
    /\ call' = [call EXCEPT !.todo = @ \ {f}]
    /\ UNCHANGED <<journal, before, after, marked, cleaned>>

MarkApplied ==
    /\ call.stage = "write"
    /\ call.todo = {}
    /\ journal' = [journal EXCEPT !.applied = TRUE]
    /\ call' = [call EXCEPT !.stage = "cleanup"]
    /\ marked' = TRUE
    /\ cleaned' = TRUE
    /\ UNCHANGED <<files, before, after>>

(* A step fails: before the manifest is written the journal is given up,     *)
(* after that what has been written is rolled back.                          *)
StepFails ==
    /\ \/ /\ call.stage = "backup"
          /\ call' = [call EXCEPT !.stage = "cleanup"]
          /\ cleaned' = TRUE
       \/ /\ call.stage = "write"
          /\ call' = [call EXCEPT !.stage = "rollback", !.todo = journal.entries]
          /\ UNCHANGED cleaned
    /\ UNCHANGED <<files, journal, before, after, marked>>

-----------------------------------------------------------------------------
(* rollback and cleanup *)

LostBackup(f) == f \in journal.existed /\ journal.backup[f] = Absent

Undo(f) ==
    /\ call.stage = "rollback"
    /\ f \in call.todo
    /\ ~LostBackup(f)
    /\ files' = [files EXCEPT ![f] = IF f \in journal.existed THEN journal.backup[f] ELSE Absent]
    /\ call' = [call EXCEPT !.todo = @ \ {f}]
    /\ UNCHANGED <<journal, before, after, marked, cleaned>>

(* A missing backup or a failing write ends the call, the journal stays.     *)
RollbackFails ==
    /\ call.stage = "rollback"
    /\ call' = NoCall
    /\ UNCHANGED <<files, journal, before, after, marked, cleaned>>

RolledBack ==
    /\ call.stage = "rollback"
    /\ call.todo = {}
    /\ call' = [call EXCEPT !.stage = "cleanup"]
    /\ cleaned' = TRUE
    /\ UNCHANGED <<files, journal, before, after, marked>>

(* rmtree removes one file after the other.                                  *)
Remove ==
    /\ call.stage = "cleanup"
    /\ \/ journal.applied /\ journal' = [journal EXCEPT !.applied = FALSE]
       \/ journal.manifest /\ journal' = [journal EXCEPT !.manifest = FALSE]
       \/ \E f \in File : journal.backup[f] # Absent /\ journal' = [journal EXCEPT !.backup[f] = Absent]
    /\ UNCHANGED <<files, call, before, after, marked, cleaned>>

(* The directory is gone.  Recovery goes on, every other call returns.       *)
Removed ==
    /\ call.stage = "cleanup"
    /\ ~journal.applied /\ ~journal.manifest /\ journal.backup = NoBackups
    /\ journal' = NoJournal
    /\ call' = IF call.recovering THEN [call EXCEPT !.stage = "validate"] ELSE NoCall
    /\ UNCHANGED <<files, before, after, marked, cleaned>>

(* Something could not be removed.  Recovery fails; every other call returns *)
(* all the same (ignore_errors).                                             *)
NotRemoved ==
    /\ call.stage = "cleanup"
    /\ call' = NoCall
    /\ UNCHANGED <<files, journal, before, after, marked, cleaned>>

(* The process dies. *)
Crash ==
    /\ call.stage # "idle"
    /\ call' = NoCall
    /\ UNCHANGED <<files, journal, before, after, marked, cleaned>>

Next ==
    \/ \E plan \in Plans : Begin(plan)
    \/ Recover
    \/ \E ok \in BOOLEAN : Validate(ok)
    \/ \E f \in File : BackUp(f) \/ Write(f) \/ Undo(f)
    \/ WriteManifest
    \/ MarkApplied
    \/ StepFails
    \/ RollbackFails
    \/ RolledBack
    \/ Remove
    \/ Removed
    \/ NotRemoved
    \/ Crash

Spec == Init /\ [][Next]_vars

-----------------------------------------------------------------------------
(* Properties *)

(* What the files become if the journal is rolled back. *)
Restored ==
    [f \in File |-> IF f \notin journal.entries THEN files[f]
                    ELSE IF f \in journal.existed THEN journal.backup[f] ELSE Absent]

(* Whatever fails and wherever the process dies, also while it recovers, the *)
(* files are those before or those after a change set; or there is a journal *)
(* from which the next call restores them, unless a removal of that journal  *)
(* that did not complete has taken its backups.                              *)
AllOrNothing ==
    \/ files \in {before, after}
    \/ journal.manifest /\ ~journal.applied /\ (cleaned \/ Restored = before)

(* A change set that has been marked as applied is not undone by a later     *)
(* recovery, unless its journal was removed only in part and lost the mark   *)
(* before the manifest.                                                      *)
MarkedIsKept == marked => files = after \/ (journal.manifest /\ ~journal.applied)
=============================================================================
