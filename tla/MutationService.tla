-------------------------- MODULE MutationService --------------------------
(***************************************************************************)
(* MutationService (services/mutation.ts): approved multi-file changes are *)
(* applied, undone and recovered through a write-ahead journal and atomic  *)
(* renames.  serializeOperation runs the public operations one at a time,  *)
(* so `op` holds at most one of them; it awaits the file system between    *)
(* any two steps, and there another program may edit a file, the run may   *)
(* be cancelled, a call may fail or the process may die.                   *)
(*                                                                         *)
(* An image stands for the (sha256, mode) pair the code compares.  Files   *)
(* of one action are visited in any order where the code goes in path      *)
(* order.  Temporary files, path resolution, sizes and symbolic links are  *)
(* left out.                                                               *)
(***************************************************************************)
EXTENDS Naturals, FiniteSets

CONSTANTS Paths, Images, Absent, NoPath,
          MaxPrepared,  \* MAX_PREPARED_ACTIONS
          MaxJournals,  \* bound on the journals of the workspace
          MaxEdits,     \* bound on edits by other programs
          MaxFaults,    \* bound on file-system calls that fail
          MaxCrashes    \* bound on process deaths

ASSUME AbsentAssumption == Absent \notin Images
ASSUME NoPathAssumption == NoPath \notin Paths
ASSUME BoundsAssumption == /\ MaxPrepared \in Nat \ {0}
                           /\ MaxJournals \in Nat /\ MaxEdits \in Nat
                           /\ MaxFaults \in Nat /\ MaxCrashes \in Nat

Img == Images \cup {Absent}
Jids == 1 .. MaxJournals
NoImages == [p \in Paths |-> Absent]
Action == [before : [Paths -> Img], after : [Paths -> Img]]
NoAction == [before |-> NoImages, after |-> NoImages]
Changed(a) == {p \in Paths : a.before[p] # a.after[p]}

\* The file-name suffix of a journal; "none" when no such file exists.
Statuses == {"none", "pending", "applied", "undoPending", "undone"}
Kinds == {"none", "apply", "undo", "recover"}
Steps == {"idle", "select", "check", "journal", "stage", "mark", "commit", "swap",
          "install", "verify", "finalize", "cleanup",
          "rollback", "rbUnlink", "rbAbsent", "rbRestore", "unmark"}

VARIABLES
  disk,      \* workspace files
  status,    \* journal number -> file-name suffix; a newer journal has a larger number
  entry,     \* journal number -> the recorded before- and after-images
  prepared,  \* preparedActions, in memory
  op,        \* the operation serializeOperation is running, in memory
  raced,     \* ghost: files edited by others since op last inspected them
  edits, faults, crashes  \* ghost: how much of each bound is used

vars == <<disk, status, entry, prepared, op, raced, edits, faults, crashes>>
bounds == <<edits, faults, crashes>>

\* from/to: CommitPlan.expectedHash and newContent; plan: the planned files;
\* recs, backed, installed: the AppliedCommit records, those with a
\* backupPath, those with the installed flag; backup: what a backup file holds.
Operation ==
  [kind : Kinds, pc : Steps, jid : Jids \cup {0}, from : [Paths -> Img], to : [Paths -> Img],
   plan : SUBSET Paths, todo : SUBSET Paths, cur : Paths \cup {NoPath},
   recs : SUBSET Paths, backed : SUBSET Paths, installed : SUBSET Paths,
   backup : [Paths -> Img], rbFailed : BOOLEAN, aborted : BOOLEAN]

NoOp ==
  [kind |-> "none", pc |-> "idle", jid |-> 0, from |-> NoImages, to |-> NoImages,
   plan |-> {}, todo |-> {}, cur |-> NoPath, recs |-> {}, backed |-> {}, installed |-> {},
   backup |-> NoImages, rbFailed |-> FALSE, aborted |-> FALSE]

TypeOK == /\ disk \in [Paths -> Img]
          /\ status \in [Jids -> Statuses]
          /\ entry \in [Jids -> Action]
          /\ prepared \subseteq Action
          /\ op \in Operation
          /\ raced \subseteq Paths
          /\ edits \in 0 .. MaxEdits /\ faults \in 0 .. MaxFaults /\ crashes \in 0 .. MaxCrashes

Init == /\ disk \in [Paths -> Img]
        /\ status = [j \in Jids |-> "none"]
        /\ entry = [j \in Jids |-> NoAction]
        /\ prepared = {} /\ op = NoOp /\ raced = {}
        /\ edits = 0 /\ faults = 0 /\ crashes = 0

-----------------------------------------------------------------------------
(* Helpers *)

Pending(j) == status[j] \in {"pending", "undoPending"}
PendingExists == \E j \in Jids : Pending(j)

\* writeJournal's next sequence number: newer than every journal on disk.
IsNext(j) == /\ \A k \in Jids : k >= j => status[k] = "none"
             /\ j > 1 => status[j - 1] # "none"

\* readLatestJournal: the newest journal that is neither pending nor undone.
IsLatestApplied(j) == /\ status[j] = "applied"
                      /\ \A k \in Jids : k > j => status[k] # "applied"

Idle == op.pc = "idle"
At(kinds, pc) == op.kind \in kinds /\ op.pc = pc
MayFail == faults < MaxFaults
Failed == faults' = faults + 1

\* The operation answers or throws: nothing of it stays in memory.
Finish == op' = NoOp /\ raced' = {}

\* The catch block starts: rollbackAppliedCommits over the records pushed so far.
RollBack(o) == [o EXCEPT !.pc = "rollback", !.todo = o.recs, !.cur = NoPath, !.rbFailed = FALSE]

\* A throw outside the try block just ends the operation; inside it, rolls back.
Throw == IF \/ op.pc \in {"check", "journal", "mark"}
            \/ op.pc = "stage" /\ op.kind # "apply"
         THEN Finish
         ELSE op' = RollBack(op) /\ UNCHANGED raced

\* Why a step throws: a condition it tests, or the file system.
Throws(condition) == \/ condition /\ UNCHANGED faults
                     \/ MayFail /\ Failed

-----------------------------------------------------------------------------
(* prepare and preparePatch: bind an action to the current images, and keep *)
(* at most MaxPrepared of them, dropping an older one.  One step, since     *)
(* apply checks every image again.                                          *)

Prepare ==
  /\ Idle /\ ~PendingExists
  /\ \E P \in SUBSET Paths \ {{}} : \E next \in [P -> Img] :
       LET a == [before |-> [p \in Paths |-> IF p \in P THEN disk[p] ELSE Absent],
                 after  |-> [p \in Paths |-> IF p \in P THEN next[p] ELSE Absent]]
           all == prepared \cup {a}
       IN /\ \A p \in P : next[p] # disk[p]
          /\ IF Cardinality(all) <= MaxPrepared
             THEN prepared' = all
             ELSE \E old \in all \ {a} : prepared' = all \ {old}
  /\ UNCHANGED <<disk, status, entry, op, raced, bounds>>

(* apply *)

\* The action is consumed before the first await, whatever happens next.
ApplyBegin(a) ==
  /\ Idle /\ a \in prepared
  /\ \E j \in Jids : IsNext(j)  \* bound: a journal number is left
  /\ prepared' = prepared \ {a}
  /\ op' = IF PendingExists THEN op
           ELSE [NoOp EXCEPT !.kind = "apply", !.pc = "check", !.from = a.before,
                             !.to = a.after, !.plan = Changed(a), !.todo = Changed(a)]
  /\ UNCHANGED <<disk, status, entry, raced, bounds>>

\* apply and undo look at every file before they write anything.
CheckFile(p) ==
  /\ At({"apply", "undo"}, "check") /\ ~op.aborted
  /\ p \in op.todo /\ disk[p] = op.from[p]
  /\ op' = [op EXCEPT !.todo = @ \ {p},
                      !.pc = IF op.todo # {p} THEN "check"
                             ELSE IF op.kind = "apply" THEN "journal" ELSE "stage"]
  /\ UNCHANGED <<disk, status, entry, prepared, raced, bounds>>

CheckFails ==
  /\ At({"apply", "undo"}, "check")
  /\ Throws(op.aborted \/ \E p \in op.todo : disk[p] # op.from[p]) /\ Throw
  /\ UNCHANGED <<disk, status, entry, prepared, edits, crashes>>

\* writeJournal(pending = true)
WriteJournal ==
  /\ At({"apply"}, "journal")
  /\ \E j \in Jids :
       /\ IsNext(j)
       /\ status' = [status EXCEPT ![j] = "pending"]
       /\ entry' = [entry EXCEPT ![j] = [before |-> op.from, after |-> op.to]]
       /\ op' = [op EXCEPT !.pc = "stage", !.jid = j]
  /\ UNCHANGED <<disk, prepared, raced, bounds>>

\* It is called outside the try block: a failure ends the operation, and when
\* the cleanup after a failed directory sync fails too, the marker stays.
WriteJournalFails ==
  /\ At({"apply"}, "journal")
  /\ MayFail /\ Failed
  /\ \/ UNCHANGED <<status, entry>>
     \/ \E j \in Jids : /\ IsNext(j)
                        /\ status' = [status EXCEPT ![j] = "pending"]
                        /\ entry' = [entry EXCEPT ![j] = [before |-> op.from, after |-> op.to]]
  /\ Throw
  /\ UNCHANGED <<disk, prepared, edits, crashes>>

(* undoLast *)

UndoBegin ==
  /\ Idle /\ ~PendingExists
  /\ \E j \in Jids :
       /\ IsLatestApplied(j)
       /\ op' = [NoOp EXCEPT !.kind = "undo", !.pc = "check", !.jid = j,
                             !.from = entry[j].after, !.to = entry[j].before,
                             !.plan = Changed(entry[j]), !.todo = Changed(entry[j])]
  /\ UNCHANGED <<disk, status, entry, prepared, raced, bounds>>

\* Mutant of MarkUndo: the journal is renamed only when the undo is complete.
MarkUndoLater ==
  /\ At({"undo"}, "mark")
  /\ op' = [op EXCEPT !.pc = "commit"]
  /\ UNCHANGED <<disk, status, entry, prepared, raced, bounds>>

\* The journal becomes the undo-pending marker before the first file is touched.
MarkUndo ==
  /\ At({"undo"}, "mark")
  /\ status' = [status EXCEPT ![op.jid] = "undoPending"]
  /\ op' = [op EXCEPT !.pc = "commit"]
  /\ UNCHANGED <<disk, entry, prepared, raced, bounds>>

\* The rename fails, or it succeeds and the directory sync fails.
MarkUndoFails ==
  /\ At({"undo"}, "mark") /\ MayFail /\ Failed
  /\ \/ Throw /\ UNCHANGED status
     \/ /\ status' = [status EXCEPT ![op.jid] = "undoPending"]
        /\ op' = RollBack(op) /\ UNCHANGED raced
  /\ UNCHANGED <<disk, entry, prepared, edits, crashes>>

(* recoverPending *)

RecoverBegin ==
  /\ Idle /\ PendingExists
  /\ op' = [NoOp EXCEPT !.kind = "recover", !.pc = "select"]
  /\ UNCHANGED <<disk, status, entry, prepared, raced, bounds>>

\* The next pending journal, newest first.
SelectPending ==
  /\ At({"recover"}, "select")
  /\ \E j \in Jids :
       /\ Pending(j) /\ \A k \in Jids : k > j => ~Pending(k)
       /\ op' = [NoOp EXCEPT !.kind = "recover", !.jid = j, !.to = entry[j].before,
                             !.todo = Changed(entry[j]), !.pc = "check"]
  /\ UNCHANGED <<disk, status, entry, prepared, raced, bounds>>

RecoverEnds ==
  /\ At({"recover"}, "select") /\ Finish
  /\ \/ ~PendingExists /\ UNCHANGED faults
     \/ MayFail /\ Failed
  /\ UNCHANGED <<disk, status, entry, prepared, edits, crashes>>

\* Mutant of KnownImage: the missing file in the middle of a replacement is forgotten.
KnownImageOnlyAfter(p, a) == disk[p] = a.after[p]

\* A file recovery knows how to bring back: it has the recorded after-image, or
\* it is missing as in the middle of a replacement.
KnownImage(p, a) == \/ disk[p] = a.after[p]
                    \/ disk[p] = Absent /\ a.before[p] # Absent /\ a.after[p] # Absent

ClassifyFile(p) ==
  /\ At({"recover"}, "check") /\ p \in op.todo
  /\ LET a == entry[op.jid] IN
       /\ disk[p] = a.before[p] \/ KnownImage(p, a)
       /\ op' = [op EXCEPT !.todo = @ \ {p},
                           !.plan = IF disk[p] = a.before[p] THEN @ ELSE @ \cup {p},
                           !.from = IF disk[p] = a.before[p] THEN @ ELSE [@ EXCEPT ![p] = disk[p]],
                           !.pc = IF op.todo = {p} THEN "stage" ELSE "check"]
  /\ UNCHANGED <<disk, status, entry, prepared, raced, bounds>>

ClassifyFails ==
  /\ At({"recover"}, "check")
  /\ LET a == entry[op.jid] IN
       Throws(\E p \in op.todo : disk[p] # a.before[p] /\ ~KnownImage(p, a))
  /\ Throw
  /\ UNCHANGED <<disk, status, entry, prepared, edits, crashes>>

-----------------------------------------------------------------------------
(* stageCommitPlans, commitPlans, verifyPostimages: shared by the three *)

Stage ==
  /\ op.pc = "stage" /\ ~op.aborted
  /\ op' = [op EXCEPT !.pc = IF op.kind = "undo" THEN "mark" ELSE "commit", !.todo = op.plan]
  /\ UNCHANGED <<disk, status, entry, prepared, raced, bounds>>

StageFails ==
  /\ op.pc = "stage" /\ Throws(op.aborted) /\ Throw
  /\ UNCHANGED <<disk, status, entry, prepared, edits, crashes>>

\* Mutant of CommitInspect: the second comparison with the expected image is dropped.
CommitWithoutCompare(p) ==
  /\ op.pc = "commit" /\ ~op.aborted
  /\ p \in op.todo
  /\ op' = [op EXCEPT !.cur = p, !.recs = @ \cup {p},
                      !.backed = IF disk[p] = Absent THEN @ ELSE @ \cup {p},
                      !.pc = IF disk[p] # Absent THEN "swap" ELSE "install"]
  /\ raced' = raced \ {p}
  /\ UNCHANGED <<disk, status, entry, prepared, bounds>>

\* Inspect the file once more, push its record and name its backup, all before
\* the rename: no backup for a file that is missing.
CommitInspect(p) ==
  /\ op.pc = "commit" /\ ~op.aborted
  /\ p \in op.todo /\ disk[p] = op.from[p]
  /\ op' = [op EXCEPT !.cur = p, !.recs = @ \cup {p},
                      !.backed = IF disk[p] = Absent THEN @ ELSE @ \cup {p},
                      !.pc = IF disk[p] # Absent THEN "swap" ELSE "install"]
  /\ raced' = raced \ {p}
  /\ UNCHANGED <<disk, status, entry, prepared, bounds>>

CommitFails ==
  /\ op.pc = "commit" /\ Throws(op.aborted \/ \E p \in op.todo : disk[p] # op.from[p]) /\ Throw
  /\ UNCHANGED <<disk, status, entry, prepared, edits, crashes>>

\* rename(target, backup), and for a deletion the directory sync that may fail.
Swap ==
  /\ op.pc = "swap" /\ disk[op.cur] # Absent
  /\ disk' = [disk EXCEPT ![op.cur] = Absent]
  /\ LET moved == [op EXCEPT !.backup[op.cur] = disk[op.cur]]
         removed == [moved EXCEPT !.todo = @ \ {op.cur}, !.cur = NoPath, !.pc = "commit"]
     IN IF op.to[op.cur] # Absent
        THEN op' = [moved EXCEPT !.pc = "install"] /\ UNCHANGED faults
        ELSE \/ op' = removed /\ UNCHANGED faults
             \/ op' = RollBack(moved) /\ MayFail /\ Failed
  /\ UNCHANGED <<status, entry, prepared, raced, edits, crashes>>

SwapFails ==
  /\ op.pc = "swap" /\ Throws(disk[op.cur] = Absent) /\ Throw
  /\ UNCHANGED <<disk, status, entry, prepared, edits, crashes>>

\* rename(temporary, target) replaces whatever is there; then the directory sync.
Install ==
  /\ op.pc = "install"
  /\ disk' = [disk EXCEPT ![op.cur] = op.to[op.cur]]
  /\ LET done == [op EXCEPT !.installed = @ \cup {op.cur}]
     IN \/ /\ op' = [done EXCEPT !.todo = @ \ {op.cur}, !.cur = NoPath, !.pc = "commit"]
           /\ UNCHANGED faults
        \/ op' = RollBack(done) /\ MayFail /\ Failed
  /\ UNCHANGED <<status, entry, prepared, raced, edits, crashes>>

InstallFails ==
  /\ op.pc = "install" /\ MayFail /\ Failed /\ Throw
  /\ UNCHANGED <<disk, status, entry, prepared, edits, crashes>>

\* Every file is renamed: look at all the files of the action again.
CommitDone ==
  /\ op.pc = "commit" /\ op.todo = {} /\ ~op.aborted
  /\ op' = [op EXCEPT !.pc = "verify", !.todo = Changed(entry[op.jid])]
  /\ UNCHANGED <<disk, status, entry, prepared, raced, bounds>>

VerifyFile(p) ==
  /\ op.pc = "verify" /\ ~op.aborted
  /\ p \in op.todo /\ disk[p] = op.to[p]
  /\ op' = [op EXCEPT !.todo = @ \ {p},
                      !.pc = IF op.todo # {p} THEN "verify"
                             ELSE IF op.kind = "recover" THEN "cleanup" ELSE "finalize"]
  /\ UNCHANGED <<disk, status, entry, prepared, raced, bounds>>

VerifyFails ==
  /\ op.pc = "verify" /\ Throws(op.aborted \/ \E p \in op.todo : disk[p] # op.to[p]) /\ Throw
  /\ UNCHANGED <<disk, status, entry, prepared, edits, crashes>>

-----------------------------------------------------------------------------
(* The journal leaves the pending state, the backups are deleted: in this   *)
(* order for apply and undo, in the other for recovery, whose loop goes on. *)

\* Mutant of Finalize: recovery leaves the journal pending.
FinalizeKeepsMarker ==
  /\ op.pc = "finalize"
  /\ status' = [status EXCEPT ![op.jid] =
                  CASE op.kind = "apply" -> "applied" [] op.kind = "undo" -> "undone" [] OTHER -> @]
  /\ op' = IF op.kind = "recover" THEN NoOp ELSE [op EXCEPT !.pc = "cleanup"]
  /\ UNCHANGED <<disk, entry, prepared, raced, bounds>>

Finalize ==
  /\ op.pc = "finalize"
  /\ status' = [status EXCEPT ![op.jid] =
                  CASE op.kind = "apply" -> "applied"
                    [] op.kind = "undo"  -> "undone"
                    [] OTHER             -> IF @ = "undoPending" THEN "undone" ELSE "none"]
  /\ op' = [op EXCEPT !.pc = IF op.kind = "recover" THEN "select" ELSE "cleanup"]
  /\ UNCHANGED <<disk, entry, prepared, raced, bounds>>

FinalizeFails ==
  /\ op.pc = "finalize" /\ MayFail /\ Failed
  /\ IF op.kind = "recover" THEN Finish ELSE Throw
  /\ UNCHANGED <<disk, status, entry, prepared, edits, crashes>>

\* finalizeAppliedCommits: a backup that cannot be deleted is only left behind.
Cleanup ==
  /\ op.pc = "cleanup"
  /\ IF op.kind = "recover"
     THEN /\ op' = [op EXCEPT !.pc = "finalize", !.recs = {}, !.backed = {}, !.installed = {},
                              !.backup = NoImages]
          /\ UNCHANGED raced
     ELSE Finish
  /\ UNCHANGED <<disk, status, entry, prepared, bounds>>

-----------------------------------------------------------------------------
(* rollbackAppliedCommits, and what the catch blocks do after it *)

\* Take back record p: remove the installed file only if it still is ours, and
\* rename the backup only over a missing file.
RollbackFile(p) ==
  /\ op.pc = "rollback" /\ p \in op.todo
  /\ \/ /\ p \in op.installed /\ disk[p] = op.to[p]
        /\ op' = [op EXCEPT !.cur = p, !.pc = "rbUnlink"]
        /\ raced' = raced \ {p}
     \/ /\ p \in op.backed \ op.installed
        /\ op' = [op EXCEPT !.cur = p, !.pc = "rbAbsent"]
        /\ UNCHANGED raced
     \/ /\ p \notin op.backed \cup op.installed
        /\ op' = [op EXCEPT !.todo = @ \ {p}, !.recs = @ \ {p}]
        /\ UNCHANGED raced
  /\ UNCHANGED <<disk, status, entry, prepared, bounds>>

RollbackUnlink ==
  /\ op.pc = "rbUnlink"
  /\ disk' = [disk EXCEPT ![op.cur] = Absent]
  /\ LET gone == [op EXCEPT !.installed = @ \ {op.cur}]
     IN op' = IF op.cur \in op.backed THEN [gone EXCEPT !.pc = "rbAbsent"]
              ELSE [gone EXCEPT !.todo = @ \ {op.cur}, !.recs = @ \ {op.cur}, !.cur = NoPath,
                                !.pc = "rollback"]
  /\ UNCHANGED <<status, entry, prepared, raced, bounds>>

RollbackCheckAbsent ==
  /\ op.pc = "rbAbsent" /\ disk[op.cur] = Absent
  /\ op' = [op EXCEPT !.pc = "rbRestore"]
  /\ raced' = raced \ {op.cur}
  /\ UNCHANGED <<disk, status, entry, prepared, bounds>>

\* The backup exists unless the rename that should have made it failed.
RollbackRestore ==
  /\ op.pc = "rbRestore" /\ op.backup[op.cur] # Absent
  /\ disk' = [disk EXCEPT ![op.cur] = op.backup[op.cur]]
  /\ op' = [op EXCEPT !.backup[op.cur] = Absent, !.backed = @ \ {op.cur},
                      !.todo = @ \ {op.cur}, !.recs = @ \ {op.cur}, !.cur = NoPath,
                      !.pc = "rollback"]
  /\ UNCHANGED <<status, entry, prepared, raced, bounds>>

\* A record that cannot be taken back stays, and the others are still tried.
RollbackFileFails(p) ==
  /\ op.pc \in {"rollback", "rbUnlink", "rbAbsent", "rbRestore"}
  /\ p \in op.todo /\ (op.pc # "rollback" => p = op.cur)
  /\ \/ /\ \/ op.pc = "rollback" /\ p \in op.installed /\ disk[p] # op.to[p]
           \/ op.pc = "rbAbsent" /\ disk[p] # Absent
           \/ op.pc = "rbRestore" /\ op.backup[p] = Absent
        /\ UNCHANGED faults
     \/ MayFail /\ Failed
  /\ op' = [op EXCEPT !.todo = @ \ {p}, !.rbFailed = TRUE, !.cur = NoPath, !.pc = "rollback"]
  /\ UNCHANGED <<disk, status, entry, prepared, raced, edits, crashes>>

\* Mutant of RollbackDone: the marker goes even when a file could not be taken back.
RollbackDoneUnmarks ==
  /\ op.pc = "rollback" /\ op.todo = {}
  /\ IF op.kind = "recover" THEN Finish
     ELSE op' = [op EXCEPT !.pc = "unmark"] /\ UNCHANGED raced
  /\ UNCHANGED <<disk, status, entry, prepared, bounds>>

\* A complete rollback of apply or undo takes the marker back; an incomplete
\* one, and every failed recovery, keeps it.
RollbackDone ==
  /\ op.pc = "rollback" /\ op.todo = {}
  /\ IF op.rbFailed \/ op.kind = "recover" THEN Finish
     ELSE op' = [op EXCEPT !.pc = "unmark"] /\ UNCHANGED raced
  /\ UNCHANGED <<disk, status, entry, prepared, bounds>>

Unmark ==
  /\ op.pc = "unmark" /\ Finish
  /\ \/ /\ status' = [status EXCEPT ![op.jid] = IF op.kind = "apply" THEN "none" ELSE "applied"]
        /\ UNCHANGED faults
     \/ MayFail /\ Failed /\ UNCHANGED status
  /\ UNCHANGED <<disk, entry, prepared, edits, crashes>>

-----------------------------------------------------------------------------
(* The environment *)

\* The run that asked for the change is cancelled; undo and recovery have no signal.
Abort ==
  /\ op.kind = "apply" /\ ~op.aborted
  /\ op' = [op EXCEPT !.aborted = TRUE]
  /\ UNCHANGED <<disk, status, entry, prepared, raced, bounds>>

\* Another program creates, changes or deletes a file.
ExternalEdit(p) ==
  /\ edits < MaxEdits /\ edits' = edits + 1
  /\ \E image \in Img \ {disk[p]} : disk' = [disk EXCEPT ![p] = image]
  /\ raced' = IF Idle THEN raced ELSE raced \cup {p}
  /\ UNCHANGED <<status, entry, prepared, op, faults, crashes>>

\* The process dies and starts again, which recovers the workspace before
\* anything else (recoverWorkspaceMutations, index.ts).
CrashAndRestart ==
  /\ crashes < MaxCrashes /\ crashes' = crashes + 1
  /\ prepared' = {} /\ raced' = {}
  /\ op' = [NoOp EXCEPT !.kind = "recover", !.pc = "select"]
  /\ UNCHANGED <<disk, status, entry, edits, faults>>

-----------------------------------------------------------------------------
OperationStep ==
  \/ CheckFails \/ WriteJournal \/ WriteJournalFails \/ MarkUndo \/ MarkUndoFails
  \/ SelectPending \/ RecoverEnds \/ ClassifyFails \/ Stage \/ StageFails \/ CommitFails
  \/ Swap \/ SwapFails \/ Install \/ InstallFails \/ CommitDone \/ VerifyFails
  \/ Finalize \/ FinalizeFails \/ Cleanup
  \/ RollbackUnlink \/ RollbackCheckAbsent \/ RollbackRestore \/ RollbackDone \/ Unmark
  \/ \E p \in Paths : \/ CheckFile(p) \/ ClassifyFile(p) \/ CommitInspect(p) \/ VerifyFile(p)
                      \/ RollbackFile(p) \/ RollbackFileFails(p)

Next ==
  \/ OperationStep
  \/ Prepare \/ UndoBegin \/ RecoverBegin
  \/ \E a \in prepared : ApplyBegin(a)
  \/ Abort \/ CrashAndRestart
  \/ \E p \in Paths : ExternalEdit(p)

Spec == Init /\ [][Next]_vars

\* An operation that was started is carried on by the event loop, and a
\* workspace that needs recovery is opened again sooner or later.
Fairness == WF_vars(OperationStep) /\ WF_vars(RecoverBegin)

FairSpec == Spec /\ Fairness
-----------------------------------------------------------------------------
(* Properties *)

\* At most one journal is pending, and none is newer: every operation but
\* recovery refuses to start while a marker is on disk, so recovery never has
\* to order two of them and never undoes below an applied action.
PendingIsLatest ==
  \A j, k \in Jids : Pending(j) /\ k > j => status[k] \in {"none", "undone"}

\* What the service does alone it can always take back: with no edit by another
\* program, each file of a pending journal has an image that recovery accepts,
\* however often the process died or a call failed in the middle of applying,
\* undoing, rolling back or recovering.
RecoveryNeverRefused ==
  edits = 0 =>
    \A j \in Jids : Pending(j) =>
      \A p \in Changed(entry[j]) : disk[p] = entry[j].before[p] \/ KnownImage(p, entry[j])

ServiceStep == edits' = edits

\* The write-ahead rule: the service touches a file only while a pending journal
\* that records the file's images is on disk.
WriteAhead ==
  [][\A p \in Paths : ServiceStep /\ disk'[p] # disk[p] =>
       \E j \in Jids : Pending(j) /\ p \in Changed(entry[j])]_vars

\* A journal on disk knows the image, so undo or recovery can bring it back.
Recorded(p, image) ==
  \/ image = Absent
  \/ \E j \in Jids : /\ status[j] # "none" /\ p \in Changed(entry[j])
                     /\ image \in {entry[j].before[p], entry[j].after[p]}

\* An image some other program wrote is neither overwritten nor dropped with a
\* backup, unless it was written between the service's last look at the file and
\* the rename that follows it, the window the documentation leaves open.
NeverDropsUnseenEdit ==
  [][\A p \in Paths \ raced : ServiceStep =>
       /\ disk'[p] # disk[p] => Recorded(p, disk[p])
       /\ op.pc = "cleanup" => Recorded(p, op.backup[p])]_vars

\* With nobody else editing, a workspace never stays in need of recovery.
PendingResolved == PendingExists ~> (~PendingExists \/ edits > 0)

\* While a journal is pending its action has not happened yet (apply) or has not
\* been undone yet (undo); everything else is as on disk.
LogicalImage(p) ==
  LET open == {j \in Jids : Pending(j) /\ p \in Changed(entry[j])}
  IN IF open = {} THEN disk[p]
     ELSE LET j == CHOOSE k \in open : TRUE
          IN IF status[j] = "pending" THEN entry[j].before[p] ELSE entry[j].after[p]

Abstract == INSTANCE AtomicWorkspace WITH
  files  <- [p \in Paths |-> LogicalImage(p)],
  log    <- [j \in Jids |-> CASE status[j] \in {"none", "pending"} -> "free"
                              [] status[j] \in {"applied", "undoPending"} -> "applied"
                              [] status[j] = "undone" -> "undone"],
  action <- [j \in Jids |-> IF status[j] \in {"none", "pending"} THEN NoAction ELSE entry[j]]

\* The service implements the all-or-nothing workspace (with MaxEdits = 0).
ImplementsAtomicWorkspace == Abstract!Spec
=============================================================================
