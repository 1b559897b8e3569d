----------------------- MODULE MutationServiceProofs -----------------------
(***************************************************************************)
(* The journalled file changes of the mutation service, for every number   *)
(* of files, journals, edits, failures and crashes.                        *)
(*                                                                         *)
(* IInv ties what the operation holds in memory to the journal on disk:    *)
(* before the marker is written nothing is pending, and from the marker on *)
(* the operation works only on files the pending journal records.  AllInv  *)
(* adds which images those files, the backups and the journals hold, what  *)
(* the operation still knows about a file it looked at, and, while nobody  *)
(* else edits, that every file is in a state recovery accepts.  From it    *)
(* follow the safety properties of the service and that it implements      *)
(* AtomicWorkspace, whose log can always be undone newest first.           *)
(***************************************************************************)
EXTENDS MutationService, TLAPS

\* The operation is in the middle of file op.cur.
AtFile == op.pc \in {"swap", "install", "rbUnlink", "rbAbsent", "rbRestore"}

RollbackSteps == {"rollback", "rbUnlink", "rbAbsent", "rbRestore"}

\* Steps of the operation that come before its marker, and those under it.
BeforeMarker == \/ op.kind = "apply" /\ op.pc \in {"check", "journal"}
                \/ op.kind = "undo" /\ op.pc \in {"check", "stage", "mark"}
UnderMarker ==
  \/ op.pc \in {"commit", "swap", "install", "verify", "finalize", "unmark"} \cup RollbackSteps
  \/ op.pc = "stage" /\ op.kind # "undo"
  \/ op.kind = "recover" /\ op.pc \in {"check", "cleanup"}

StepsOfKind ==
  \/ op.kind = "none" /\ op.pc = "idle"
  \/ op.kind = "apply" /\ op.pc \notin {"idle", "select", "mark"}
  \/ op.kind = "undo" /\ op.pc \notin {"idle", "select", "journal"}
  \/ op.kind = "recover" /\ op.pc \notin {"idle", "journal", "mark", "unmark"}

WorksOn(S) == op.plan \subseteq S /\ op.todo \subseteq S /\ op.recs \subseteq S

BeforeInv ==
  /\ ~PendingExists
  /\ op.recs = {}
  /\ op.kind = "apply" => WorksOn(Changed([before |-> op.from, after |-> op.to]))
  /\ op.kind = "undo" => /\ op.jid \in Jids /\ status[op.jid] = "applied"
                         /\ \A k \in Jids : k > op.jid => status[k] \in {"none", "undone"}
                         /\ WorksOn(Changed(entry[op.jid]))

UnderInv ==
  /\ op.jid \in Jids /\ Pending(op.jid)
  /\ WorksOn(Changed(entry[op.jid]))
  /\ AtFile => op.cur \in Changed(entry[op.jid])

OpInv == /\ StepsOfKind
         /\ BeforeMarker => BeforeInv
         /\ UnderMarker => UnderInv

IInv == TypeOK /\ PendingIsLatest /\ OpInv

-----------------------------------------------------------------------------
(* Types *)

LEMMA NoOpType == NoOp \in Operation
BY NoPathAssumption DEF NoOp, Operation, Kinds, Steps, NoImages, Img

LEMMA InitType == Init => TypeOK
BY NoOpType, BoundsAssumption DEF Init, TypeOK, Action, NoAction, NoImages, Img, Statuses

LEMMA RollBackType == \A o \in Operation : RollBack(o) \in Operation
BY DEF RollBack, Operation, Steps

LEMMA ThrowType ==
  ASSUME TypeOK, Throw \/ Finish
  PROVE  op' \in Operation /\ raced' \subseteq Paths
BY NoOpType, RollBackType DEF Throw, Finish, TypeOK

\* A step of an operation uses at most one of the failures.
FaultStep == /\ \/ UNCHANGED faults
                \/ MayFail /\ Failed
             /\ UNCHANGED <<edits, crashes>>

BoundsOK == edits \in 0 .. MaxEdits /\ faults \in 0 .. MaxFaults /\ crashes \in 0 .. MaxCrashes

LEMMA FaultStepType == BoundsOK /\ FaultStep => BoundsOK'
BY BoundsAssumption DEF BoundsOK, FaultStep, MayFail, Failed

LEMMA OperationFaultStep == OperationStep => FaultStep
<1> USE DEF FaultStep, Throws, MayFail, Failed, bounds
<1>1. CheckFails \/ WriteJournal \/ WriteJournalFails \/ MarkUndo \/ MarkUndoFails \/ SelectPending
      => FaultStep
  BY DEF CheckFails, WriteJournal, WriteJournalFails, MarkUndo, MarkUndoFails, SelectPending
<1>2. RecoverEnds \/ ClassifyFails \/ Stage \/ StageFails \/ CommitFails \/ Swap
      => FaultStep
  BY DEF RecoverEnds, ClassifyFails, Stage, StageFails, CommitFails, Swap
<1>3. SwapFails \/ Install \/ InstallFails \/ CommitDone \/ VerifyFails
      => FaultStep
  BY DEF SwapFails, Install, InstallFails, CommitDone, VerifyFails
<1>4. Finalize \/ FinalizeFails \/ Cleanup \/ RollbackUnlink \/ RollbackCheckAbsent \/ RollbackRestore \/ RollbackDone \/ Unmark
      => FaultStep
  BY DEF Finalize, FinalizeFails, Cleanup, RollbackUnlink, RollbackCheckAbsent, RollbackRestore, RollbackDone, Unmark
<1>5. ASSUME NEW p \in Paths
      PROVE  CheckFile(p) \/ ClassifyFile(p) \/ CommitInspect(p) \/ VerifyFile(p) \/ RollbackFile(p) \/ RollbackFileFails(p)
             => FaultStep
  BY DEF CheckFile, ClassifyFile, CommitInspect, VerifyFile, RollbackFile, RollbackFileFails
<1>6. QED BY <1>1, <1>2, <1>3, <1>4, <1>5 DEF OperationStep

LEMMA OperationStepType ==
  ASSUME TypeOK, OperationStep, AtFile => op.cur \in Paths
  PROVE  TypeOK'
<1> DEFINE Rest == /\ disk' \in [Paths -> Img] /\ status' \in [Jids -> Statuses]
                   /\ entry' \in [Jids -> Action] /\ prepared' \subseteq Action
<1>0. BoundsOK'
  BY FaultStepType, OperationFaultStep DEF TypeOK, BoundsOK
<1> SUFFICES Rest /\ op' \in Operation /\ raced' \subseteq Paths
  BY <1>0 DEF TypeOK, BoundsOK
<1> USE DEF TypeOK, At
<1>1. CASE CheckFails
  BY <1>1, ThrowType DEF CheckFails
<1>2. CASE WriteJournal
  <2>1. PICK j \in Jids : /\ status' = [status EXCEPT ![j] = "pending"]
                          /\ entry' = [entry EXCEPT ![j] = [before |-> op.from, after |-> op.to]]
                          /\ op' = [op EXCEPT !.pc = "stage", !.jid = j]
    BY <1>2 DEF WriteJournal
  <2>2. op' \in Operation
    BY <2>1 DEF Operation, Steps
  <2>3. [before |-> op.from, after |-> op.to] \in Action
    BY DEF Operation, Action
  <2>4. QED BY <1>2, <2>1, <2>2, <2>3 DEF WriteJournal, Statuses
<1>3. CASE WriteJournalFails
  <2>1. [before |-> op.from, after |-> op.to] \in Action
    BY DEF Operation, Action
  <2>2. QED BY <1>3, <2>1, ThrowType DEF WriteJournalFails, Statuses
<1>4. CASE MarkUndo
  BY <1>4, NoOpType, ThrowType DEF MarkUndo, Statuses, Action, Operation, Kinds, Steps, Img, Jids
<1>5. CASE MarkUndoFails
  BY <1>5, ThrowType, RollBackType DEF MarkUndoFails, Statuses, Operation, Kinds, Steps, Img, Jids
<1>6. CASE SelectPending
  <2>1. PICK j \in Jids :
          op' = [NoOp EXCEPT !.kind = "recover", !.jid = j, !.to = entry[j].before,
                             !.todo = Changed(entry[j]), !.pc = "check"]
    BY <1>6 DEF SelectPending
  <2>2. entry[j].before \in [Paths -> Img] /\ Changed(entry[j]) \subseteq Paths
    BY DEF Action, Changed
  <2>3. op' \in Operation
    BY <2>1, <2>2, NoOpType DEF Operation, Kinds, Steps
  <2>4. QED BY <1>6, <2>3 DEF SelectPending, bounds
<1>7. CASE RecoverEnds
  BY <1>7, ThrowType DEF RecoverEnds
<1>8. CASE ClassifyFails
  BY <1>8, ThrowType DEF ClassifyFails
<1>9. CASE Stage
  BY <1>9, NoOpType, ThrowType DEF Stage, Statuses, Action, Operation, Kinds, Steps, Img, Jids
<1>10. CASE StageFails
  BY <1>10, ThrowType DEF StageFails
<1>11. CASE CommitFails
  BY <1>11, ThrowType DEF CommitFails
<1>12. CASE Swap
  <2> DEFINE moved == [op EXCEPT !.backup[op.cur] = disk[op.cur]]
             removed == [moved EXCEPT !.todo = @ \ {op.cur}, !.cur = NoPath, !.pc = "commit"]
  <2>1. disk' \in [Paths -> Img]
    BY <1>12 DEF Swap, Img
  <2>2. [op.backup EXCEPT ![op.cur] = disk[op.cur]] \in [Paths -> Img]
    <3>1. CASE op.cur \in Paths
      BY <3>1 DEF Operation
    <3>2. CASE op.cur \notin Paths
      BY <3>2 DEF Operation
    <3>3. QED BY <3>1, <3>2
  <2>3. moved \in Operation
    BY <2>2 DEF Operation
  <2>4. removed \in Operation /\ [moved EXCEPT !.pc = "install"] \in Operation
    BY <2>3 DEF Operation, Steps
  <2>5. op' = removed \/ op' = [moved EXCEPT !.pc = "install"] \/ op' = RollBack(moved)
    BY <1>12 DEF Swap
  <2>6. op' \in Operation
    BY <2>3, <2>4, <2>5, RollBackType
  <2>7. QED BY <1>12, <2>1, <2>6 DEF Swap
<1>13. CASE SwapFails
  BY <1>13, ThrowType DEF SwapFails
<1>14. CASE Install
  <2> DEFINE done == [op EXCEPT !.installed = @ \cup {op.cur}]
  <2>1. op.cur \in Paths
    BY <1>14 DEF Install, AtFile
  <2>2. disk' \in [Paths -> Img]
    BY <1>14, <2>1 DEF Install, Operation
  <2>3. done \in Operation
    BY <2>1 DEF Operation
  <2>4. [done EXCEPT !.todo = @ \ {op.cur}, !.cur = NoPath, !.pc = "commit"] \in Operation
    BY <2>3 DEF Operation, Steps
  <2>5. op' \in Operation
    BY <1>14, <2>3, <2>4, RollBackType DEF Install
  <2>6. QED BY <1>14, <2>2, <2>5 DEF Install
<1>15. CASE InstallFails
  BY <1>15, ThrowType DEF InstallFails
<1>16. CASE CommitDone
  <2>1. Changed(entry[op.jid]) \subseteq Paths
    BY DEF Changed
  <2>2. QED BY <1>16, <2>1 DEF CommitDone, Operation, Steps, bounds
<1>17. CASE VerifyFails
  BY <1>17, ThrowType DEF VerifyFails
<1>18. CASE Finalize
  BY <1>18, NoOpType, ThrowType DEF Finalize, Statuses, Action, Operation, Kinds, Steps, Img, Jids
<1>19. CASE FinalizeFails
  BY <1>19, ThrowType DEF FinalizeFails
<1>20. CASE Cleanup
  <2>1. CASE op.kind = "recover"
    <3>1. op' \in Operation
      <4>1. NoImages \in [Paths -> Img]
        BY DEF NoImages, Img
      <4>2. op' = [op EXCEPT !.pc = "finalize", !.recs = {}, !.backed = {}, !.installed = {},
                             !.backup = NoImages]
        BY <1>20, <2>1 DEF Cleanup
      <4>3. QED BY <4>1, <4>2 DEF Operation, Steps
    <3>2. QED BY <1>20, <2>1, <3>1 DEF Cleanup
  <2>2. CASE op.kind # "recover"
    BY <1>20, <2>2, ThrowType DEF Cleanup
  <2>3. QED BY <2>1, <2>2
<1>21. CASE RollbackUnlink
  BY <1>21, NoOpType, ThrowType DEF RollbackUnlink, Statuses, Action, Operation, Kinds, Steps, Img, Jids
<1>22. CASE RollbackCheckAbsent
  BY <1>22, NoOpType, ThrowType DEF RollbackCheckAbsent, Statuses, Action, Operation, Kinds, Steps, Img, Jids
<1>23. CASE RollbackRestore
  BY <1>23, NoOpType, ThrowType DEF RollbackRestore, Statuses, Action, Operation, Kinds, Steps, Img, Jids
<1>24. CASE RollbackDone
  BY <1>24, ThrowType, RollBackType DEF RollbackDone, Statuses, Operation, Kinds, Steps, Img, Jids
<1>25. CASE Unmark
  BY <1>25, ThrowType, RollBackType DEF Unmark, Statuses, Operation, Kinds, Steps, Img, Jids
<1>26. ASSUME NEW p \in Paths, CheckFile(p) PROVE Rest /\ op' \in Operation /\ raced' \subseteq Paths
  BY <1>26 DEF CheckFile, Operation, Kinds, Steps, Img, Jids
<1>27. ASSUME NEW p \in Paths, ClassifyFile(p) PROVE Rest /\ op' \in Operation /\ raced' \subseteq Paths
  BY <1>27 DEF ClassifyFile, Operation, Kinds, Steps, Img, Jids
<1>28. ASSUME NEW p \in Paths, CommitInspect(p) PROVE Rest /\ op' \in Operation /\ raced' \subseteq Paths
  BY <1>28 DEF CommitInspect, Operation, Kinds, Steps, Img, Jids
<1>29. ASSUME NEW p \in Paths, VerifyFile(p) PROVE Rest /\ op' \in Operation /\ raced' \subseteq Paths
  BY <1>29 DEF VerifyFile, Operation, Kinds, Steps, Img, Jids
<1>30. ASSUME NEW p \in Paths, RollbackFile(p) PROVE Rest /\ op' \in Operation /\ raced' \subseteq Paths
  <2>1. CASE op' = [op EXCEPT !.cur = p, !.pc = "rbUnlink"]
    BY <1>30, <2>1 DEF RollbackFile, Operation, Steps
  <2>2. CASE op' = [op EXCEPT !.cur = p, !.pc = "rbAbsent"]
    BY <1>30, <2>2 DEF RollbackFile, Operation, Steps
  <2>3. CASE op' = [op EXCEPT !.todo = @ \ {p}, !.recs = @ \ {p}]
    BY <1>30, <2>3 DEF RollbackFile, Operation
  <2>4. QED BY <1>30, <2>1, <2>2, <2>3 DEF RollbackFile
<1>31. ASSUME NEW p \in Paths, RollbackFileFails(p) PROVE Rest /\ op' \in Operation /\ raced' \subseteq Paths
  BY <1>31 DEF RollbackFileFails, Operation, Kinds, Steps, Img, Jids
<1>32. QED BY <1>1, <1>2, <1>3, <1>4, <1>5, <1>6, <1>7, <1>8, <1>9, <1>10, <1>11, <1>12, <1>13, <1>14, <1>15, <1>16, <1>17, <1>18, <1>19, <1>20, <1>21, <1>22, <1>23, <1>24, <1>25, <1>26, <1>27, <1>28, <1>29, <1>30, <1>31 DEF OperationStep

-----------------------------------------------------------------------------
(* The journal *)

LEMMA NoOpInv == op' = NoOp => OpInv'
BY DEF NoOp, OpInv, StepsOfKind, BeforeMarker, UnderMarker, RollbackSteps

LEMMA RollBackInv ==
  ASSUME TypeOK, OpInv, UnderMarker, op' = RollBack(op), UNCHANGED <<status, entry>>,
         op.pc \notin {"check", "cleanup"}
  PROVE  OpInv'
<1>1. /\ op'.kind = op.kind /\ op'.jid = op.jid /\ op'.plan = op.plan /\ op'.recs = op.recs
      /\ op'.todo = op.recs /\ op'.pc = "rollback"
  BY DEF RollBack, TypeOK, Operation
<1>2. UnderInv'
  BY <1>1 DEF OpInv, UnderInv, WorksOn, AtFile, Pending
<1>3. StepsOfKind' /\ ~BeforeMarker'
  BY <1>1 DEF OpInv, StepsOfKind, BeforeMarker, UnderMarker, RollbackSteps
<1>4. QED BY <1>2, <1>3 DEF OpInv

LEMMA ThrowInv ==
  ASSUME TypeOK, OpInv, Throw, UNCHANGED <<status, entry>>,
         op.pc \in {"check", "journal", "mark", "stage", "commit", "swap", "install", "verify", "finalize"}
  PROVE  OpInv'
<1>1. CASE op' = NoOp
  BY <1>1, NoOpInv
<1>2. CASE op' # NoOp
  BY <1>2, RollBackInv DEF Throw, Finish, UnderMarker
<1>3. QED BY <1>1, <1>2

\* A step that leaves the journals alone keeps the pending one the newest.
LEMMA SameJournal == PendingIsLatest /\ UNCHANGED status => PendingIsLatest'
BY DEF PendingIsLatest, Pending

LEMMA OperationStepOpInv ==
  ASSUME IInv, OperationStep
  PROVE  OpInv' /\ PendingIsLatest'
<1> USE DEF IInv
<1>1. CASE CheckFails
  BY <1>1, ThrowInv, SameJournal DEF CheckFails, At
<1>2. CASE ClassifyFails
  BY <1>2, ThrowInv, SameJournal DEF ClassifyFails, At
<1>3. CASE StageFails
  BY <1>3, ThrowInv, SameJournal DEF StageFails, At
<1>4. CASE CommitFails
  BY <1>4, ThrowInv, SameJournal DEF CommitFails, At
<1>5. CASE SwapFails
  BY <1>5, ThrowInv, SameJournal DEF SwapFails, At
<1>6. CASE InstallFails
  BY <1>6, ThrowInv, SameJournal DEF InstallFails, At
<1>7. CASE VerifyFails
  BY <1>7, ThrowInv, SameJournal DEF VerifyFails, At
<1>8. CASE RecoverEnds \/ FinalizeFails
  BY <1>8, NoOpInv, ThrowInv, SameJournal DEF RecoverEnds, FinalizeFails, Finish
<1>9. CASE SelectPending
  <2>1. PICK j \in Jids :
          /\ Pending(j)
          /\ op' = [NoOp EXCEPT !.kind = "recover", !.jid = j, !.to = entry[j].before,
                                !.todo = Changed(entry[j]), !.pc = "check"]
    BY <1>9 DEF SelectPending
  <2>2. /\ op'.kind = "recover" /\ op'.jid = j /\ op'.pc = "check"
        /\ op'.plan = {} /\ op'.recs = {} /\ op'.todo = Changed(entry[j])
    BY <2>1 DEF NoOp
  <2>3. UnderInv'
    BY <1>9, <2>1, <2>2 DEF SelectPending, UnderInv, WorksOn, AtFile, Pending
  <2>4. StepsOfKind' /\ ~BeforeMarker'
    BY <2>2 DEF StepsOfKind, BeforeMarker
  <2>5. QED BY <1>9, <2>3, <2>4, SameJournal DEF SelectPending, OpInv
<1>10. CASE Stage
  BY <1>10, NoOpInv, RollBackInv, SameJournal DEF Stage, Finish, bounds,
          OpInv, StepsOfKind, BeforeMarker, UnderMarker, BeforeInv, UnderInv, WorksOn, AtFile,
          RollbackSteps, Pending, PendingExists, TypeOK, Operation, At
<1>11. CASE Swap
  <2>1. UnderMarker /\ UnderInv /\ op.pc \notin {"check", "cleanup"}
    BY <1>11 DEF Swap, UnderMarker, OpInv
  <2>2. /\ op'.kind = op.kind /\ op'.jid = op.jid /\ op'.plan = op.plan /\ op'.recs = op.recs
        /\ \/ op'.pc = "commit" /\ op'.todo \subseteq op.todo
           \/ op'.pc = "install" /\ op'.todo = op.todo /\ op'.cur = op.cur
           \/ op'.pc = "rollback" /\ op'.todo = op.recs
    <3> DEFINE moved == [op EXCEPT !.backup[op.cur] = disk[op.cur]]
               removed == [moved EXCEPT !.todo = @ \ {op.cur}, !.cur = NoPath, !.pc = "commit"]
    <3>1. /\ moved.kind = op.kind /\ moved.jid = op.jid /\ moved.plan = op.plan
          /\ moved.recs = op.recs /\ moved.todo = op.todo /\ moved.cur = op.cur
          /\ DOMAIN moved = DOMAIN op /\ moved = [f \in DOMAIN moved |-> moved[f]]
      BY DEF TypeOK, Operation
    <3>2. op' = removed \/ op' = [moved EXCEPT !.pc = "install"] \/ op' = RollBack(moved)
      BY <1>11 DEF Swap
    <3> HIDE DEF moved
    <3>3. QED BY <3>1, <3>2 DEF RollBack, TypeOK, Operation
  <2>3. UNCHANGED <<status, entry>>
    BY <1>11 DEF Swap
  <2>4. UnderInv'
    BY <1>11, <2>1, <2>2, <2>3 DEF Swap, UnderInv, WorksOn, AtFile, Pending
  <2>5. StepsOfKind' /\ ~BeforeMarker'
    BY <2>1, <2>2 DEF OpInv, StepsOfKind, BeforeMarker, UnderMarker, RollbackSteps
  <2>6. QED BY <2>3, <2>4, <2>5, SameJournal DEF OpInv
<1>12. CASE Install
  <2>1. UnderMarker /\ UnderInv /\ op.pc \notin {"check", "cleanup"}
    BY <1>12 DEF Install, UnderMarker, OpInv
  <2>2. /\ op'.kind = op.kind /\ op'.jid = op.jid /\ op'.plan = op.plan /\ op'.recs = op.recs
        /\ \/ op'.pc = "commit" /\ op'.todo \subseteq op.todo
           \/ op'.pc = "install" /\ op'.todo = op.todo /\ op'.cur = op.cur
           \/ op'.pc = "rollback" /\ op'.todo = op.recs
    <3> DEFINE done == [op EXCEPT !.installed = @ \cup {op.cur}]
               next == [done EXCEPT !.todo = @ \ {op.cur}, !.cur = NoPath, !.pc = "commit"]
    <3>1. /\ done.kind = op.kind /\ done.jid = op.jid /\ done.plan = op.plan
          /\ done.recs = op.recs /\ done.todo = op.todo /\ done.cur = op.cur
          /\ DOMAIN done = DOMAIN op /\ done = [f \in DOMAIN done |-> done[f]]
      BY DEF TypeOK, Operation
    <3>2. op' = next \/ op' = RollBack(done)
      BY <1>12 DEF Install
    <3> HIDE DEF done
    <3>3. QED BY <3>1, <3>2 DEF RollBack, TypeOK, Operation
  <2>3. UNCHANGED <<status, entry>>
    BY <1>12 DEF Install
  <2>4. UnderInv'
    BY <1>12, <2>1, <2>2, <2>3 DEF Install, UnderInv, WorksOn, AtFile, Pending
  <2>5. StepsOfKind' /\ ~BeforeMarker'
    BY <2>1, <2>2 DEF OpInv, StepsOfKind, BeforeMarker, UnderMarker, RollbackSteps
  <2>6. QED BY <2>3, <2>4, <2>5, SameJournal DEF OpInv
<1>13. CASE CommitDone
  BY <1>13, NoOpInv, RollBackInv, SameJournal DEF CommitDone, Finish, bounds,
          OpInv, StepsOfKind, BeforeMarker, UnderMarker, BeforeInv, UnderInv, WorksOn, AtFile,
          RollbackSteps, Pending, PendingExists, TypeOK, Operation, At
<1>14. CASE Cleanup
  BY <1>14, NoOpInv, RollBackInv, SameJournal DEF Cleanup, Finish, bounds,
          OpInv, StepsOfKind, BeforeMarker, UnderMarker, BeforeInv, UnderInv, WorksOn, AtFile,
          RollbackSteps, Pending, PendingExists, TypeOK, Operation, At
<1>15. CASE RollbackUnlink
  BY <1>15, NoOpInv, RollBackInv, SameJournal DEF RollbackUnlink, Finish, bounds,
          OpInv, StepsOfKind, BeforeMarker, UnderMarker, BeforeInv, UnderInv, WorksOn, AtFile,
          RollbackSteps, Pending, PendingExists, TypeOK, Operation, At
<1>16. CASE RollbackCheckAbsent
  BY <1>16, NoOpInv, RollBackInv, SameJournal DEF RollbackCheckAbsent, Finish, bounds,
          OpInv, StepsOfKind, BeforeMarker, UnderMarker, BeforeInv, UnderInv, WorksOn, AtFile,
          RollbackSteps, Pending, PendingExists, TypeOK, Operation, At
<1>17. CASE RollbackRestore
  BY <1>17, NoOpInv, RollBackInv, SameJournal DEF RollbackRestore, Finish, bounds,
          OpInv, StepsOfKind, BeforeMarker, UnderMarker, BeforeInv, UnderInv, WorksOn, AtFile,
          RollbackSteps, Pending, PendingExists, TypeOK, Operation, At
<1>18. CASE RollbackDone
  BY <1>18, NoOpInv, RollBackInv, SameJournal DEF RollbackDone, Finish, bounds,
          OpInv, StepsOfKind, BeforeMarker, UnderMarker, BeforeInv, UnderInv, WorksOn, AtFile,
          RollbackSteps, Pending, PendingExists, TypeOK, Operation, At
<1>19. ASSUME NEW p \in Paths, CheckFile(p) PROVE OpInv' /\ PendingIsLatest'
  BY <1>19, SameJournal DEF CheckFile, bounds,
          OpInv, StepsOfKind, BeforeMarker, UnderMarker, BeforeInv, UnderInv, WorksOn, AtFile,
          RollbackSteps, Pending, PendingExists, TypeOK, Operation, At
<1>20. ASSUME NEW p \in Paths, ClassifyFile(p) PROVE OpInv' /\ PendingIsLatest'
  BY <1>20, SameJournal DEF ClassifyFile, bounds,
          OpInv, StepsOfKind, BeforeMarker, UnderMarker, BeforeInv, UnderInv, WorksOn, AtFile,
          RollbackSteps, Pending, PendingExists, TypeOK, Operation, At
<1>21. ASSUME NEW p \in Paths, CommitInspect(p) PROVE OpInv' /\ PendingIsLatest'
  BY <1>21, SameJournal DEF CommitInspect, bounds,
          OpInv, StepsOfKind, BeforeMarker, UnderMarker, BeforeInv, UnderInv, WorksOn, AtFile,
          RollbackSteps, Pending, PendingExists, TypeOK, Operation, At
<1>22. ASSUME NEW p \in Paths, VerifyFile(p) PROVE OpInv' /\ PendingIsLatest'
  BY <1>22, SameJournal DEF VerifyFile, bounds,
          OpInv, StepsOfKind, BeforeMarker, UnderMarker, BeforeInv, UnderInv, WorksOn, AtFile,
          RollbackSteps, Pending, PendingExists, TypeOK, Operation, At
<1>23. ASSUME NEW p \in Paths, RollbackFile(p) PROVE OpInv' /\ PendingIsLatest'
  <2>1. UnderMarker /\ UnderInv
    BY <1>23 DEF RollbackFile, UnderMarker, RollbackSteps, OpInv
  <2>2. /\ op'.kind = op.kind /\ op'.jid = op.jid /\ op'.plan = op.plan
        /\ \/ op'.pc \in {"rbUnlink", "rbAbsent"} /\ op'.cur = p /\ op'.todo = op.todo /\ op'.recs = op.recs
           \/ op'.pc = "rollback" /\ op'.todo \subseteq op.todo /\ op'.recs \subseteq op.recs
    <3>1. CASE op' = [op EXCEPT !.cur = p, !.pc = "rbUnlink"]
      BY <3>1 DEF TypeOK, Operation
    <3>2. CASE op' = [op EXCEPT !.cur = p, !.pc = "rbAbsent"]
      BY <3>2 DEF TypeOK, Operation
    <3>3. CASE op' = [op EXCEPT !.todo = @ \ {p}, !.recs = @ \ {p}]
      BY <1>23, <3>3 DEF RollbackFile, TypeOK, Operation
    <3>4. QED BY <1>23, <3>1, <3>2, <3>3 DEF RollbackFile
  <2>3. UnderInv' /\ UNCHANGED <<status, entry>>
    BY <1>23, <2>1, <2>2 DEF RollbackFile, UnderInv, WorksOn, AtFile, Pending
  <2>4. StepsOfKind' /\ ~BeforeMarker'
    BY <1>23, <2>2 DEF RollbackFile, OpInv, StepsOfKind, BeforeMarker
  <2>5. QED BY <2>3, <2>4, SameJournal DEF OpInv
<1>24. ASSUME NEW p \in Paths, RollbackFileFails(p) PROVE OpInv' /\ PendingIsLatest'
  BY <1>24, SameJournal DEF RollbackFileFails, bounds,
          OpInv, StepsOfKind, BeforeMarker, UnderMarker, BeforeInv, UnderInv, WorksOn, AtFile,
          RollbackSteps, Pending, PendingExists, TypeOK, Operation, At
<1>25. CASE WriteJournal
  <2>1. PICK j \in Jids : /\ IsNext(j)
                          /\ status' = [status EXCEPT ![j] = "pending"]
                          /\ entry' = [entry EXCEPT ![j] = [before |-> op.from, after |-> op.to]]
                          /\ op' = [op EXCEPT !.pc = "stage", !.jid = j]
    BY <1>25 DEF WriteJournal
  <2>2. ~PendingExists /\ op.kind = "apply" /\ WorksOn(Changed([before |-> op.from, after |-> op.to]))
    BY <1>25 DEF WriteJournal, At, OpInv, BeforeMarker, BeforeInv
  <2>3. status'[j] = "pending" /\ entry'[j] = [before |-> op.from, after |-> op.to]
    BY <2>1 DEF TypeOK
  <2>4. /\ op'.kind = "apply" /\ op'.jid = j /\ op'.plan = op.plan /\ op'.recs = op.recs
        /\ op'.todo = op.todo /\ op'.pc = "stage"
    BY <2>1, <2>2 DEF TypeOK, Operation
  <2>5. OpInv'
    BY <2>2, <2>3, <2>4 DEF OpInv, StepsOfKind, BeforeMarker, UnderInv, WorksOn, AtFile, Pending
  <2>6. PendingIsLatest'
    BY <2>1, <2>2 DEF PendingIsLatest, PendingExists, Pending, IsNext, TypeOK, Jids
  <2>7. QED BY <2>5, <2>6
<1>26. CASE WriteJournalFails
  <2>1. ~PendingExists /\ op' = NoOp
    BY <1>26 DEF WriteJournalFails, At, OpInv, BeforeMarker, BeforeInv, Throw, Finish
  <2>2. \/ status' = status
        \/ \E j \in Jids : IsNext(j) /\ status' = [status EXCEPT ![j] = "pending"]
    BY <1>26 DEF WriteJournalFails
  <2>3. CASE status' = status
    BY <2>1, <2>3, NoOpInv, SameJournal
  <2>4. ASSUME NEW j \in Jids, IsNext(j), status' = [status EXCEPT ![j] = "pending"]
        PROVE  PendingIsLatest'
    BY <2>1, <2>4 DEF PendingIsLatest, PendingExists, Pending, IsNext, TypeOK, Jids
  <2>5. QED BY <2>1, <2>2, <2>3, <2>4, NoOpInv
<1>27. CASE MarkUndo
  BY <1>27, NoOpInv, ThrowInv, SameJournal DEF MarkUndo, Finish, bounds, PendingIsLatest, IsNext, Statuses,
          OpInv, StepsOfKind, BeforeMarker, UnderMarker, BeforeInv, UnderInv, WorksOn, AtFile,
          RollbackSteps, Pending, PendingExists, TypeOK, Operation, At
<1>28. CASE MarkUndoFails
  <2>0. BeforeMarker /\ BeforeInv /\ op.kind = "undo" /\ op.pc = "mark"
    BY <1>28 DEF MarkUndoFails, At, OpInv, BeforeMarker
  <2>1. CASE Throw /\ UNCHANGED status
    BY <1>28, <2>0, <2>1, NoOpInv, SameJournal DEF Throw, Finish
  <2>2. CASE status' = [status EXCEPT ![op.jid] = "undoPending"] /\ op' = RollBack(op)
    <3>1. /\ op'.kind = "undo" /\ op'.jid = op.jid /\ op'.plan = op.plan /\ op'.recs = op.recs
          /\ op'.todo = op.recs /\ op'.pc = "rollback"
      BY <2>0, <2>2 DEF RollBack, TypeOK, Operation
    <3>2. op.jid \in Jids /\ status'[op.jid] = "undoPending" /\ entry' = entry
      BY <1>28, <2>0, <2>2 DEF BeforeInv, TypeOK, MarkUndoFails
    <3>3. OpInv'
      BY <2>0, <3>1, <3>2 DEF OpInv, StepsOfKind, BeforeMarker, BeforeInv, UnderInv, WorksOn, AtFile,
            Pending
    <3>4. PendingIsLatest'
      BY <2>0, <2>2 DEF PendingIsLatest, BeforeInv, PendingExists, Pending, TypeOK, Jids
    <3>5. QED BY <3>3, <3>4
  <2>3. QED BY <1>28, <2>1, <2>2 DEF MarkUndoFails
<1>29. CASE Finalize
  BY <1>29, NoOpInv, ThrowInv, SameJournal DEF Finalize, Finish, bounds, PendingIsLatest, IsNext, Statuses,
          OpInv, StepsOfKind, BeforeMarker, UnderMarker, BeforeInv, UnderInv, WorksOn, AtFile,
          RollbackSteps, Pending, PendingExists, TypeOK, Operation, At
<1>30. CASE Unmark
  BY <1>30, NoOpInv, ThrowInv, SameJournal DEF Unmark, Finish, bounds, PendingIsLatest, IsNext, Statuses,
          OpInv, StepsOfKind, BeforeMarker, UnderMarker, BeforeInv, UnderInv, WorksOn, AtFile,
          RollbackSteps, Pending, PendingExists, TypeOK, Operation, At
<1>31. QED BY <1>1, <1>2, <1>3, <1>4, <1>5, <1>6, <1>7, <1>8, <1>9, <1>10, <1>11, <1>12, <1>13, <1>14, <1>15, <1>16, <1>17, <1>18, <1>19, <1>20, <1>21, <1>22, <1>23, <1>24, <1>25, <1>26, <1>27, <1>28, <1>29, <1>30
       DEF OperationStep

-----------------------------------------------------------------------------
(* The other steps, and the theorems *)

LEMMA AtFileUnderMarker ==
  ASSUME OpInv, AtFile
  PROVE  /\ op.jid \in Jids /\ Pending(op.jid)
         /\ op.cur \in Changed(entry[op.jid]) /\ op.cur \in Paths
BY DEF OpInv, AtFile, UnderMarker, UnderInv, RollbackSteps, Changed

LEMMA PrepareInv == IInv /\ Prepare => IInv'
<1> SUFFICES ASSUME IInv, Prepare PROVE IInv'
  OBVIOUS
<1>1. PICK P \in SUBSET Paths : \E next \in [P -> Img] :
        LET a == [before |-> [p \in Paths |-> IF p \in P THEN disk[p] ELSE Absent],
                  after  |-> [p \in Paths |-> IF p \in P THEN next[p] ELSE Absent]]
        IN prepared' \subseteq prepared \cup {a}
  BY DEF Prepare
<1>2. prepared' \subseteq Action
  BY <1>1 DEF IInv, TypeOK, Action, Img
<1>3. UNCHANGED <<disk, status, entry, op, raced, edits, faults, crashes>>
  BY DEF Prepare, bounds
<1>4. QED BY <1>2, <1>3 DEF IInv, TypeOK, PendingIsLatest, Pending, OpInv, StepsOfKind, BeforeMarker,
        UnderMarker, BeforeInv, UnderInv, WorksOn, AtFile, RollbackSteps, PendingExists

LEMMA ApplyBeginInv == ASSUME IInv, NEW a \in prepared, ApplyBegin(a) PROVE IInv'
<1>1. a \in Action /\ UNCHANGED <<disk, status, entry, raced, edits, faults, crashes>>
  BY DEF ApplyBegin, IInv, TypeOK, bounds
<1>2. CASE op' = op
  BY <1>1, <1>2 DEF ApplyBegin, IInv, TypeOK, PendingIsLatest, Pending, OpInv, StepsOfKind, BeforeMarker,
        UnderMarker, BeforeInv, UnderInv, WorksOn, AtFile, RollbackSteps, PendingExists
<1>3. CASE op' # op
  <2>1. /\ ~PendingExists
        /\ op' = [NoOp EXCEPT !.kind = "apply", !.pc = "check", !.from = a.before,
                              !.to = a.after, !.plan = Changed(a), !.todo = Changed(a)]
    BY <1>3 DEF ApplyBegin
  <2>2. Changed(a) \subseteq Paths /\ a.before \in [Paths -> Img] /\ a.after \in [Paths -> Img]
    BY <1>1 DEF Changed, Action
  <2>3. op' \in Operation
    BY <2>1, <2>2, NoOpType DEF Operation, Kinds, Steps
  <2>4. /\ op'.kind = "apply" /\ op'.pc = "check" /\ op'.from = a.before /\ op'.to = a.after
        /\ op'.plan = Changed(a) /\ op'.todo = Changed(a) /\ op'.recs = {}
    BY <2>1 DEF NoOp
  <2>5. WorksOn(Changed([before |-> op.from, after |-> op.to]))'
    BY <2>4 DEF WorksOn, Changed
  <2>6. OpInv'
    BY <1>1, <2>1, <2>4, <2>5 DEF OpInv, StepsOfKind, BeforeMarker, UnderMarker, BeforeInv, RollbackSteps,
          PendingExists, Pending
  <2>7. TypeOK'
    BY <1>1, <2>3 DEF ApplyBegin, IInv, TypeOK
  <2>8. QED BY <1>1, <2>6, <2>7, SameJournal DEF IInv
<1>4. QED BY <1>2, <1>3

LEMMA UndoBeginInv == IInv /\ UndoBegin => IInv'
<1> SUFFICES ASSUME IInv, UndoBegin PROVE IInv'
  OBVIOUS
<1>1. PICK j \in Jids :
        /\ IsLatestApplied(j)
        /\ op' = [NoOp EXCEPT !.kind = "undo", !.pc = "check", !.jid = j,
                              !.from = entry[j].after, !.to = entry[j].before,
                              !.plan = Changed(entry[j]), !.todo = Changed(entry[j])]
  BY DEF UndoBegin
<1>2. ~PendingExists /\ UNCHANGED <<disk, status, entry, prepared, raced, edits, faults, crashes>>
  BY DEF UndoBegin, bounds
<1>3. /\ Changed(entry[j]) \subseteq Paths
      /\ entry[j].before \in [Paths -> Img] /\ entry[j].after \in [Paths -> Img]
  BY DEF Changed, Action, IInv, TypeOK
<1>4. op' \in Operation
  BY <1>1, <1>3, NoOpType DEF Operation, Kinds, Steps
<1>5. /\ op'.kind = "undo" /\ op'.pc = "check" /\ op'.jid = j
      /\ op'.plan = Changed(entry[j]) /\ op'.todo = Changed(entry[j]) /\ op'.recs = {}
  BY <1>1 DEF NoOp
<1>6. \A k \in Jids : k > j => status[k] \in {"none", "undone"}
  BY <1>1, <1>2 DEF IsLatestApplied, PendingExists, Pending, IInv, TypeOK, Statuses
<1>7. OpInv'
  BY <1>1, <1>2, <1>5, <1>6 DEF OpInv, StepsOfKind, BeforeMarker, UnderMarker, BeforeInv, RollbackSteps,
        PendingExists, Pending, WorksOn, IsLatestApplied
<1>8. QED BY <1>2, <1>4, <1>7, SameJournal DEF IInv, TypeOK

\* Recovery starts with nothing in memory, at restart or on request.
LEMMA RecoverStartInv ==
  ASSUME IInv, op' = [NoOp EXCEPT !.kind = "recover", !.pc = "select"],
         UNCHANGED <<disk, status, entry>>, prepared' \subseteq prepared, raced' \subseteq raced, BoundsOK'
  PROVE  IInv'
<1>1. op' \in Operation
  BY NoOpType DEF Operation, Kinds, Steps
<1>2. op'.kind = "recover" /\ op'.pc = "select"
  BY DEF NoOp
<1>3. OpInv'
  BY <1>2 DEF OpInv, StepsOfKind, BeforeMarker, UnderMarker, RollbackSteps
<1>4. QED BY <1>1, <1>3, SameJournal DEF IInv, TypeOK, BoundsOK

LEMMA AbortInv == IInv /\ Abort => IInv'
<1> SUFFICES ASSUME IInv, Abort PROVE IInv'
  OBVIOUS
<1>1. op' = [op EXCEPT !.aborted = TRUE] /\ UNCHANGED <<disk, status, entry, prepared, raced, edits, faults, crashes>>
  BY DEF Abort, bounds
<1>2. /\ op' \in Operation
      /\ op'.kind = op.kind /\ op'.pc = op.pc /\ op'.jid = op.jid /\ op'.from = op.from /\ op'.to = op.to
      /\ op'.plan = op.plan /\ op'.todo = op.todo /\ op'.recs = op.recs /\ op'.cur = op.cur
  BY <1>1 DEF IInv, TypeOK, Operation
<1>3. OpInv'
  BY <1>1, <1>2 DEF IInv, OpInv, StepsOfKind, BeforeMarker, UnderMarker, BeforeInv, UnderInv, WorksOn,
        AtFile, RollbackSteps, Pending, PendingExists
<1>4. QED BY <1>1, <1>2, <1>3, SameJournal DEF IInv, TypeOK

LEMMA ExternalEditInv == ASSUME IInv, NEW p \in Paths, ExternalEdit(p) PROVE IInv'
<1>1. UNCHANGED <<status, entry, prepared, op, faults, crashes>>
  BY DEF ExternalEdit
<1>2. disk' \in [Paths -> Img] /\ raced' \subseteq Paths /\ edits' \in 0 .. MaxEdits
  BY BoundsAssumption DEF ExternalEdit, IInv, TypeOK
<1>3. QED BY <1>1, <1>2, SameJournal DEF IInv, TypeOK, OpInv, StepsOfKind, BeforeMarker, UnderMarker,
        BeforeInv, UnderInv, WorksOn, AtFile, RollbackSteps, Pending, PendingExists

LEMMA InitIInv == Init => IInv
<1> SUFFICES ASSUME Init PROVE IInv
  OBVIOUS
<1>1. op.kind = "none" /\ op.pc = "idle"
  BY DEF Init, NoOp
<1>2. QED BY <1>1, InitType DEF Init, IInv, PendingIsLatest, Pending, OpInv, StepsOfKind, BeforeMarker,
        UnderMarker, RollbackSteps

LEMMA IInvHolds == Spec => []IInv
<1>1. IInv /\ [Next]_vars => IInv'
  <2> SUFFICES ASSUME IInv, [Next]_vars PROVE IInv'
    OBVIOUS
  <2>1. CASE OperationStep
    BY <2>1, OperationStepType, OperationStepOpInv, AtFileUnderMarker DEF IInv
  <2>2. CASE Prepare \/ UndoBegin \/ Abort
    BY <2>2, PrepareInv, UndoBeginInv, AbortInv
  <2>3. CASE RecoverBegin
    BY <2>3, RecoverStartInv DEF RecoverBegin, bounds, IInv, TypeOK, BoundsOK
  <2>4. ASSUME NEW a \in prepared, ApplyBegin(a) PROVE IInv'
    BY <2>4, ApplyBeginInv
  <2>5. CASE CrashAndRestart
    <3>1. BoundsOK'
      BY <2>5, BoundsAssumption DEF CrashAndRestart, IInv, TypeOK, BoundsOK
    <3>2. QED BY <2>5, <3>1, RecoverStartInv DEF CrashAndRestart
  <2>6. ASSUME NEW p \in Paths, ExternalEdit(p) PROVE IInv'
    BY <2>6, ExternalEditInv
  <2>7. CASE UNCHANGED vars
    BY <2>7 DEF vars, IInv, TypeOK, PendingIsLatest, Pending, OpInv, StepsOfKind, BeforeMarker,
          UnderMarker, BeforeInv, UnderInv, WorksOn, AtFile, RollbackSteps, PendingExists
  <2>8. QED BY <2>1, <2>2, <2>3, <2>4, <2>5, <2>6, <2>7 DEF Next
<1>2. QED BY InitIInv, <1>1, PTL DEF Spec

\* Every variable keeps its type, for any number of crashes, failures and edits.
THEOREM TypeCorrect == Spec => []TypeOK
<1>1. IInv => TypeOK
  BY DEF IInv
<1>2. QED BY IInvHolds, <1>1, PTL

\* Never two pending journals, never an applied one above a pending one
\* (assertNoPendingJournals before every apply and undo, mutation.ts).
THEOREM OnePendingJournal == Spec => []PendingIsLatest
<1>1. IInv => PendingIsLatest
  BY DEF IInv
<1>2. QED BY IInvHolds, <1>1, PTL

\* Only the four renames and removals write, and only the file they are at.
LEMMA OnlyRenamesWrite ==
  ASSUME IInv, [Next]_vars, NEW p \in Paths, edits' = edits, disk'[p] # disk[p]
  PROVE  /\ Swap \/ Install \/ RollbackUnlink \/ RollbackRestore
         /\ AtFile /\ p = op.cur
<1>1. ~Prepare /\ ~UndoBegin /\ ~RecoverBegin /\ ~Abort /\ ~CrashAndRestart /\ ~UNCHANGED vars
  BY DEF Prepare, UndoBegin, RecoverBegin, Abort, CrashAndRestart, vars
<1>2. ~\E a \in prepared : ApplyBegin(a)
  BY DEF ApplyBegin
<1>3. ~\E q \in Paths : ExternalEdit(q)
  BY DEF ExternalEdit, IInv, TypeOK
<1>4. CASE Swap \/ Install \/ RollbackUnlink \/ RollbackRestore
  <2>1. AtFile /\ disk' = [disk EXCEPT ![op.cur] = disk'[op.cur]]
    BY <1>4 DEF Swap, Install, RollbackUnlink, RollbackRestore, AtFile, IInv, TypeOK
  <2>2. p = op.cur
    BY <2>1 DEF IInv, TypeOK
  <2>3. QED BY <1>4, <2>1, <2>2
<1>5. CASE OperationStep /\ ~(Swap \/ Install \/ RollbackUnlink \/ RollbackRestore)
  BY <1>5 DEF OperationStep, CheckFails, WriteJournal, WriteJournalFails, MarkUndo, MarkUndoFails,
     SelectPending, RecoverEnds, ClassifyFails, Stage, StageFails, CommitFails, SwapFails, InstallFails,
     CommitDone, VerifyFails, Finalize, FinalizeFails, Cleanup, RollbackCheckAbsent, RollbackDone, Unmark,
     CheckFile, ClassifyFile, CommitInspect, VerifyFile, RollbackFile, RollbackFileFails
<1>6. QED BY <1>1, <1>2, <1>3, <1>4, <1>5 DEF Next

\* The write-ahead rule: a file changes only while a pending journal on disk
\* records its images, whatever fails, dies or is edited in between.
THEOREM WriteAheadRule == Spec => WriteAhead
<1> DEFINE Covered == \A p \in Paths : ServiceStep /\ disk'[p] # disk[p] =>
                        \E j \in Jids : Pending(j) /\ p \in Changed(entry[j])
<1>1. IInv /\ [Next]_vars => Covered
  <2> SUFFICES ASSUME IInv, [Next]_vars, NEW p \in Paths, edits' = edits, disk'[p] # disk[p]
               PROVE  \E j \in Jids : Pending(j) /\ p \in Changed(entry[j])
    BY DEF ServiceStep
  <2>1. AtFile /\ p = op.cur
    BY OnlyRenamesWrite
  <2>2. QED BY <2>1, AtFileUnderMarker DEF IInv
<1>2. QED BY IInvHolds, <1>1, PTL DEF Spec, WriteAhead

-----------------------------------------------------------------------------
(* Images: what the operation holds in memory, its journal on disk and the  *)
(* files themselves.                                                        *)

\* The journal of op was written and names the files op may have touched.
Marked == UnderMarker \/ op.pc = "cleanup"

\* Nothing is committed yet.
Clean == op.recs = {} /\ op.backup = NoImages

\* The images the operation starts from and leads to are those of its journal.
ImagesInv ==
  /\ op.pc \in {"check", "journal", "stage", "mark"} => Clean
  /\ BeforeMarker /\ op.kind = "undo" => op.from = entry[op.jid].after /\ op.to = entry[op.jid].before
  /\ Marked =>
       /\ op.jid \in Jids /\ status[op.jid] # "none"
       /\ op.kind = "apply" => op.from = entry[op.jid].before /\ op.to = entry[op.jid].after
       /\ op.kind = "undo" => op.from = entry[op.jid].after /\ op.to = entry[op.jid].before
       /\ op.kind = "recover" => /\ op.to = entry[op.jid].before
                                 /\ \A p \in Paths : op.from[p] \in {Absent, entry[op.jid].after[p]}
       /\ \A p \in Paths \ Changed(entry[op.jid]) : op.backup[p] = Absent

\* What the operation saw when it last looked at a file is still there, unless
\* another program wrote it since; a backup holds the image the file had.
Ahead == {"commit", "swap", "install", "verify", "finalize", "cleanup"}

SeenInv ==
  /\ AtFile /\ op.cur \notin raced =>
       /\ op.pc = "swap" => disk[op.cur] = op.from[op.cur]
       /\ op.pc \in {"install", "rbRestore"} => disk[op.cur] = Absent
       /\ op.pc = "rbUnlink" => disk[op.cur] = op.to[op.cur]
  /\ op.pc \in Ahead => \A p \in Paths \ raced : op.backup[p] \in {Absent, op.from[p]}
  /\ op.pc \in {"commit", "swap", "install"} =>
       /\ \A p \in op.todo : op.backup[p] = Absent \/ (op.pc = "install" /\ p = op.cur)
       /\ op.pc \in {"swap", "install"} => op.cur \in op.todo

\* A journal that is still being applied is the newest of all.
NewestInv == \A j, k \in Jids : status[j] = "pending" /\ k > j => status[k] = "none"

TraceInv == IInv /\ ImagesInv /\ SeenInv /\ NewestInv

\* What holds while no other program edits.
Known(p, a) == disk[p] \in {a.before[p], a.after[p], Absent}

\* The files op changes, those it has not compared yet, and its records that
\* are not taken back.
Files == Changed([before |-> op.from, after |-> op.to])
Unseen == IF op.pc \in {"check", "verify"} THEN op.todo ELSE {}
Taken == IF op.pc \in RollbackSteps \cup {"unmark"} THEN op.todo ELSE op.recs

CheckedInv == BeforeMarker => \A p \in Files \ Unseen : disk[p] = op.from[p]

\* Apply and undo can take back everything they did, until that failed.
ReversibleInv ==
  UnderMarker /\ op.kind \in {"apply", "undo"} /\ ~(op.pc \in RollbackSteps /\ op.rbFailed) =>
    \A p \in Changed(entry[op.jid]) :
      IF p \in Taken
      THEN IF p \in op.backed THEN op.backup[p] \in {Absent, op.from[p]}
           ELSE op.from[p] = Absent /\ (p \notin op.installed => disk[p] = Absent)
      ELSE disk[p] = op.from[p]

KnownInv ==
  /\ \A j \in Jids : Pending(j) => \A p \in Changed(entry[j]) : Known(p, entry[j])
  /\ Marked => \A p \in Changed(entry[op.jid]) :
                 op.backup[p] \in {entry[op.jid].before[p], entry[op.jid].after[p], Absent}

VerifiedInv ==
  op.pc \in {"verify", "finalize", "cleanup"} =>
    \A p \in Changed(entry[op.jid]) \ Unseen : disk[p] = op.to[p]

WhereInv ==
  /\ op.pc \in {"swap", "install"} => op.cur \in op.recs
  /\ op.pc = "swap" => op.cur \in op.backed
  /\ op.pc \in {"rbUnlink", "rbAbsent", "rbRestore"} => op.cur \in op.todo
  /\ op.pc \in {"rbAbsent", "rbRestore"} => op.cur \in op.backed
  /\ op.pc = "unmark" => op.todo = {}
  /\ UnderMarker => /\ op.kind = "apply" => status[op.jid] = "pending"
                    /\ op.kind = "undo" => status[op.jid] = "undoPending"

QuietInv == edits = 0 =>
  raced = {} /\ CheckedInv /\ ReversibleInv /\ KnownInv /\ VerifiedInv

AllInv == TraceInv /\ WhereInv /\ QuietInv

\* The fields of the operation that a step leaves as they are.
OpFields == {"kind", "pc", "jid", "from", "to", "plan", "todo", "cur", "recs", "backed", "installed",
             "backup", "rbFailed", "aborted"}
OnlySets(S) == \A f \in OpFields \ S : op'[f] = op[f]

-----------------------------------------------------------------------------
(* Every step keeps it *)

LEMMA OnePending ==
  ASSUME PendingIsLatest, NEW j \in Jids, NEW k \in Jids, Pending(j), Pending(k)
  PROVE  j = k
BY DEF PendingIsLatest, Pending, Jids

\* An image the journal knows is put where the operation is.
LEMMA KnownStep ==
  ASSUME IInv, KnownInv, AtFile, UNCHANGED <<status, entry>>,
         NEW image, disk' = [disk EXCEPT ![op.cur] = image],
         image \in {entry[op.jid].before[op.cur], entry[op.jid].after[op.cur], Absent}
  PROVE  \A j \in Jids : Pending(j)' => \A p \in Changed(entry[j])' : Known(p, entry[j])'
<1>1. op.jid \in Jids /\ Pending(op.jid) /\ op.cur \in Changed(entry[op.jid]) /\ op.cur \in Paths
  BY AtFileUnderMarker DEF IInv
<1>2. ASSUME NEW j \in Jids, Pending(j), NEW p \in Changed(entry[j])
      PROVE  disk'[p] \in {entry[j].before[p], entry[j].after[p], Absent}
  <2>1. j = op.jid
    BY <1>1, <1>2, OnePending DEF IInv
  <2>2. disk'[p] = disk[p] \/ (p = op.cur /\ disk'[p] = image)
    BY <1>1 DEF IInv, TypeOK
  <2>3. QED BY <1>2, <2>1, <2>2 DEF KnownInv, Known
<1>3. QED BY <1>2 DEF Known, Pending, Changed

\* No operation is in memory: only the files and the journals matter.
LEMMA NoOperation ==
  ASSUME AllInv, IInv', op'.pc \in {"idle", "select"}, raced' \subseteq raced, edits' = edits, NewestInv',
         edits = 0 => \A j \in Jids : Pending(j)' => \A p \in Changed(entry[j])' : Known(p, entry[j])'
  PROVE  AllInv'
<1>1. ~BeforeMarker' /\ ~UnderMarker' /\ ~Marked' /\ ~AtFile'
  BY DEF IInv, OpInv, StepsOfKind, BeforeMarker, UnderMarker, RollbackSteps, Marked, AtFile
<1>2. ImagesInv' /\ SeenInv' /\ WhereInv'
  BY <1>1 DEF AllInv, TraceInv, ImagesInv, SeenInv, Ahead, WhereInv
<1>3. QuietInv'
  BY <1>1 DEF AllInv, QuietInv, CheckedInv, ReversibleInv, KnownInv, VerifiedInv
<1>4. QED BY <1>2, <1>3 DEF AllInv, TraceInv

LEMMA NothingInMemory ==
  ASSUME AllInv, IInv', op'.pc \in {"idle", "select"}, raced' \subseteq raced,
         UNCHANGED <<disk, status, entry, edits>>
  PROVE  AllInv'
<1>1. NewestInv'
  BY DEF AllInv, TraceInv, NewestInv
<1>2. edits = 0 => \A j \in Jids : Pending(j)' => \A p \in Changed(entry[j])' : Known(p, entry[j])'
  BY DEF AllInv, QuietInv, KnownInv, Known, Pending, Changed
<1>3. QED BY <1>1, <1>2, NoOperation

LEMMA SameOperation ==
  ASSUME AllInv, IInv', OnlySets({"aborted"}), UNCHANGED <<disk, status, entry, raced, edits>>
  PROVE  AllInv'
<1>1. /\ op'.kind = op.kind /\ op'.pc = op.pc
  BY DEF AllInv, TraceInv, IInv, TypeOK, Operation, OnlySets, OpFields, bounds, At
<1> USE <1>1 DEF AllInv, TraceInv, QuietInv, OnlySets, OpFields, IInv, OpInv, StepsOfKind,
           UnderMarker, BeforeMarker, Marked, RollbackSteps
<1>2. ImagesInv'
  BY DEF ImagesInv, Clean, BeforeInv, UnderInv, Changed
<1>3. SeenInv'
  BY DEF SeenInv, AtFile, Ahead, TypeOK, ImagesInv, Clean, NoImages
<1>4. NewestInv' /\ WhereInv'
  BY DEF NewestInv, WhereInv
<1>5. edits' = 0 => raced' = {} /\ CheckedInv'
  BY DEF CheckedInv, Files, Unseen, Changed
<1>6. edits' = 0 => ReversibleInv'
  BY DEF ReversibleInv, Taken, CheckedInv, Files, Unseen, Changed, ImagesInv, Clean, WhereInv,
      TypeOK
<1>7. edits' = 0 => KnownInv'
  BY DEF KnownInv, Known, Pending, ImagesInv, Clean, Changed, TypeOK, UnderInv
<1>8. edits' = 0 => VerifiedInv'
  BY DEF VerifiedInv, Unseen, TypeOK, ImagesInv
<1>9. QED BY <1>2, <1>3, <1>4, <1>5, <1>6, <1>7, <1>8

LEMMA RollsBack ==
  ASSUME AllInv, IInv', UnderMarker, op.pc \in {"stage", "commit", "swap", "install", "verify", "finalize"}, 
         op' = RollBack(op), UNCHANGED <<disk, status, entry, raced, edits>>
  PROVE  AllInv'
<1>1. /\ OnlySets({"pc", "todo", "cur", "rbFailed"}) /\ op'.pc = "rollback" /\ op'.todo = op.recs
  BY DEF AllInv, TraceInv, IInv, TypeOK, Operation, OnlySets, OpFields, bounds, At, RollBack
<1> USE <1>1 DEF AllInv, TraceInv, QuietInv, OnlySets, OpFields, IInv, OpInv, StepsOfKind,
           UnderMarker, BeforeMarker, Marked, RollbackSteps
<1>2. ImagesInv'
  BY DEF ImagesInv, Clean, BeforeInv, UnderInv, Changed
<1>3. SeenInv'
  BY DEF SeenInv, AtFile, Ahead, TypeOK, ImagesInv, Clean, NoImages
<1>4. NewestInv' /\ WhereInv'
  BY DEF NewestInv, WhereInv
<1>5. edits' = 0 => raced' = {} /\ CheckedInv'
  BY DEF CheckedInv, Files, Unseen, Changed
<1>6. edits' = 0 => ReversibleInv'
  BY DEF ReversibleInv, Taken, CheckedInv, Files, Unseen, Changed, ImagesInv, Clean, WhereInv,
      TypeOK, Ahead
<1>7. edits' = 0 => KnownInv'
  BY DEF KnownInv, Known, Pending, ImagesInv, Clean, Changed, TypeOK, UnderInv
<1>8. edits' = 0 => VerifiedInv'
  BY DEF VerifiedInv, Unseen, TypeOK, ImagesInv
<1>9. QED BY <1>2, <1>3, <1>4, <1>5, <1>6, <1>7, <1>8

LEMMA StageKeeps ==
  ASSUME AllInv, IInv', Stage
  PROVE  AllInv'
<1>1. /\ UNCHANGED <<disk, status, entry, raced, edits>>
      /\ op.pc = "stage" /\ OnlySets({"pc", "todo"}) /\ op'.todo = op.plan
      /\ op'.pc = IF op.kind = "undo" THEN "mark" ELSE "commit"
  BY DEF AllInv, TraceInv, IInv, TypeOK, Operation, OnlySets, OpFields, bounds, At, Stage
<1> USE <1>1 DEF AllInv, TraceInv, QuietInv, OnlySets, OpFields, IInv, OpInv, StepsOfKind,
           UnderMarker, BeforeMarker, Marked, RollbackSteps
<1>2. ImagesInv'
  BY DEF ImagesInv, Clean, BeforeInv, UnderInv, Changed
<1>3. SeenInv'
  BY DEF SeenInv, AtFile, Ahead, TypeOK, ImagesInv, Clean, NoImages, UnderInv, WorksOn, Changed
<1>4. NewestInv' /\ WhereInv'
  BY DEF NewestInv, WhereInv
<1>5. edits' = 0 => raced' = {} /\ CheckedInv'
  BY DEF CheckedInv, Files, Unseen, Changed
<1>6. edits' = 0 => ReversibleInv'
  BY DEF ReversibleInv, Taken, CheckedInv, Files, Unseen, Changed, ImagesInv, Clean, WhereInv,
      TypeOK
<1>7. edits' = 0 => KnownInv'
  BY DEF KnownInv, Known, Pending, ImagesInv, Clean, Changed, TypeOK, UnderInv
<1>8. edits' = 0 => VerifiedInv'
  BY DEF VerifiedInv, Unseen, TypeOK, ImagesInv
<1>9. QED BY <1>2, <1>3, <1>4, <1>5, <1>6, <1>7, <1>8

LEMMA CheckFileKeeps ==
  ASSUME AllInv, IInv', NEW p \in Paths, CheckFile(p)
  PROVE  AllInv'
<1>1. /\ UNCHANGED <<disk, status, entry, raced, edits>>
      /\ op.kind \in {"apply", "undo"} /\ op.pc = "check" /\ OnlySets({"pc", "todo"})
      /\ p \in op.todo /\ disk[p] = op.from[p] /\ op'.todo = op.todo \ {p}
      /\ \/ op'.pc = "check"
         \/ op'.todo = {} /\ op'.pc = IF op.kind = "apply" THEN "journal" ELSE "stage"
  BY DEF AllInv, TraceInv, IInv, TypeOK, Operation, OnlySets, OpFields, bounds, At, CheckFile
<1> USE <1>1 DEF AllInv, TraceInv, QuietInv, OnlySets, OpFields, IInv, OpInv, StepsOfKind,
           UnderMarker, BeforeMarker, Marked, RollbackSteps
<1>2. ImagesInv'
  BY DEF ImagesInv, Clean, BeforeInv, UnderInv, Changed
<1>3. SeenInv'
  BY DEF SeenInv, AtFile, Ahead, TypeOK, ImagesInv, Clean, NoImages
<1>4. NewestInv' /\ WhereInv'
  BY DEF NewestInv, WhereInv
<1>5. edits' = 0 => raced' = {} /\ CheckedInv'
  BY DEF CheckedInv, Files, Unseen, Changed
<1>6. edits' = 0 => ReversibleInv'
  BY DEF ReversibleInv, Taken, CheckedInv, Files, Unseen, Changed, ImagesInv, Clean, WhereInv,
      TypeOK
<1>7. edits' = 0 => KnownInv'
  BY DEF KnownInv, Known, Pending, ImagesInv, Clean, Changed, TypeOK, UnderInv
<1>8. edits' = 0 => VerifiedInv'
  BY DEF VerifiedInv, Unseen, TypeOK, ImagesInv
<1>9. QED BY <1>2, <1>3, <1>4, <1>5, <1>6, <1>7, <1>8

LEMMA VerifyFileKeeps ==
  ASSUME AllInv, IInv', NEW p \in Paths, VerifyFile(p)
  PROVE  AllInv'
<1>1. /\ UNCHANGED <<disk, status, entry, raced, edits>>
      /\ op.pc = "verify" /\ OnlySets({"pc", "todo"})
      /\ p \in op.todo /\ disk[p] = op.to[p] /\ op'.todo = op.todo \ {p}
      /\ \/ op'.pc = "verify"
         \/ op'.todo = {} /\ op'.pc = IF op.kind = "recover" THEN "cleanup" ELSE "finalize"
  BY DEF AllInv, TraceInv, IInv, TypeOK, Operation, OnlySets, OpFields, bounds, At, VerifyFile
<1> USE <1>1 DEF AllInv, TraceInv, QuietInv, OnlySets, OpFields, IInv, OpInv, StepsOfKind,
           UnderMarker, BeforeMarker, Marked, RollbackSteps
<1>2. ImagesInv'
  BY DEF ImagesInv, Clean, BeforeInv, UnderInv, Changed
<1>3. SeenInv'
  BY DEF SeenInv, AtFile, Ahead, TypeOK, ImagesInv, Clean, NoImages
<1>4. NewestInv' /\ WhereInv'
  BY DEF NewestInv, WhereInv
<1>5. edits' = 0 => raced' = {} /\ CheckedInv'
  BY DEF CheckedInv, Files, Unseen, Changed
<1>6. edits' = 0 => ReversibleInv'
  BY DEF ReversibleInv, Taken, CheckedInv, Files, Unseen, Changed, ImagesInv, Clean, WhereInv,
      TypeOK
<1>7. edits' = 0 => KnownInv'
  BY DEF KnownInv, Known, Pending, ImagesInv, Clean, Changed, TypeOK, UnderInv
<1>8. edits' = 0 => VerifiedInv'
  BY DEF VerifiedInv, Unseen, TypeOK, ImagesInv
<1>9. QED BY <1>2, <1>3, <1>4, <1>5, <1>6, <1>7, <1>8

LEMMA CommitInspectKeeps ==
  ASSUME AllInv, IInv', NEW p \in Paths, CommitInspect(p)
  PROVE  AllInv'
<1>1. /\ UNCHANGED <<disk, status, entry, edits>> /\ raced' = raced \ {p}
      /\ op.pc = "commit" /\ OnlySets({"pc", "cur", "recs", "backed"})
      /\ p \in op.todo /\ disk[p] = op.from[p] /\ op'.cur = p /\ op'.recs = op.recs \cup {p}
      /\ \/ disk[p] = Absent /\ op'.backed = op.backed /\ op'.pc = "install"
         \/ disk[p] # Absent /\ op'.backed = op.backed \cup {p} /\ op'.pc = "swap"
  BY DEF AllInv, TraceInv, IInv, TypeOK, Operation, OnlySets, OpFields, bounds, At,
      CommitInspect
<1> USE <1>1 DEF AllInv, TraceInv, QuietInv, OnlySets, OpFields, IInv, OpInv, StepsOfKind,
           UnderMarker, BeforeMarker, Marked, RollbackSteps
<1>2. ImagesInv'
  BY DEF ImagesInv, Clean, BeforeInv, UnderInv, Changed
<1>3. SeenInv'
  BY DEF SeenInv, AtFile, Ahead, TypeOK, ImagesInv, Clean, NoImages
<1>4. NewestInv' /\ WhereInv'
  BY DEF NewestInv, WhereInv
<1>5. edits' = 0 => raced' = {} /\ CheckedInv'
  BY DEF CheckedInv, Files, Unseen, Changed
<1>6. edits' = 0 => ReversibleInv'
  BY DEF ReversibleInv, Taken, CheckedInv, Files, Unseen, Changed, ImagesInv, Clean, WhereInv,
      TypeOK, SeenInv
<1>7. edits' = 0 => KnownInv'
  BY DEF KnownInv, Known, Pending, ImagesInv, Clean, Changed, TypeOK, UnderInv
<1>8. edits' = 0 => VerifiedInv'
  BY DEF VerifiedInv, Unseen, TypeOK, ImagesInv
<1>9. QED BY <1>2, <1>3, <1>4, <1>5, <1>6, <1>7, <1>8

LEMMA CommitDoneKeeps ==
  ASSUME AllInv, IInv', CommitDone
  PROVE  AllInv'
<1>1. /\ UNCHANGED <<disk, status, entry, raced, edits>>
      /\ op.pc = "commit" /\ OnlySets({"pc", "todo"})
      /\ op'.todo = Changed(entry[op.jid]) /\ op'.pc = "verify"
  BY DEF AllInv, TraceInv, IInv, TypeOK, Operation, OnlySets, OpFields, bounds, At, CommitDone
<1> USE <1>1 DEF AllInv, TraceInv, QuietInv, OnlySets, OpFields, IInv, OpInv, StepsOfKind,
           UnderMarker, BeforeMarker, Marked, RollbackSteps
<1>2. ImagesInv'
  BY DEF ImagesInv, Clean, BeforeInv, UnderInv, Changed
<1>3. SeenInv'
  BY DEF SeenInv, AtFile, Ahead, TypeOK, ImagesInv, Clean, NoImages
<1>4. NewestInv' /\ WhereInv'
  BY DEF NewestInv, WhereInv
<1>5. edits' = 0 => raced' = {} /\ CheckedInv'
  BY DEF CheckedInv, Files, Unseen, Changed
<1>6. edits' = 0 => ReversibleInv'
  BY DEF ReversibleInv, Taken, CheckedInv, Files, Unseen, Changed, ImagesInv, Clean, WhereInv,
      TypeOK
<1>7. edits' = 0 => KnownInv'
  BY DEF KnownInv, Known, Pending, ImagesInv, Clean, Changed, TypeOK, UnderInv
<1>8. edits' = 0 => VerifiedInv'
  BY DEF VerifiedInv, Unseen, TypeOK, ImagesInv
<1>9. QED BY <1>2, <1>3, <1>4, <1>5, <1>6, <1>7, <1>8

LEMMA MarkUndoKeeps ==
  ASSUME AllInv, IInv', MarkUndo
  PROVE  AllInv'
<1>1. /\ UNCHANGED <<disk, entry, raced, edits>> /\ status' = [status EXCEPT ![op.jid] = "undoPending"]
      /\ op.kind = "undo" /\ op.pc = "mark" /\ OnlySets({"pc"}) /\ op'.pc = "commit"
  BY DEF AllInv, TraceInv, IInv, TypeOK, Operation, OnlySets, OpFields, bounds, At, MarkUndo
<1> USE <1>1 DEF AllInv, TraceInv, QuietInv, OnlySets, OpFields, IInv, OpInv, StepsOfKind,
           UnderMarker, BeforeMarker, Marked, RollbackSteps
<1>0. op.jid \in Jids /\ status'[op.jid] = "undoPending" /\ ~PendingExists
      /\ op.recs = {} /\ op.backup = NoImages /\ op.todo \subseteq Paths
      /\ op.from = entry[op.jid].after /\ op.to = entry[op.jid].before
      /\ \A k \in Jids \ {op.jid} : status'[k] = status[k]
  BY DEF BeforeInv, TypeOK, ImagesInv, Clean, Operation, WorksOn
<1>2. ImagesInv'
  BY <1>0 DEF ImagesInv, Clean, NoImages
<1>3. SeenInv'
  BY <1>0 DEF SeenInv, AtFile, Ahead, TypeOK, ImagesInv, Clean, NoImages
<1>4. NewestInv' /\ WhereInv'
  BY <1>0 DEF NewestInv, WhereInv, PendingExists, Pending
<1>5. edits' = 0 => raced' = {} /\ CheckedInv'
  BY DEF CheckedInv, Files, Unseen, Changed
<1>6. edits' = 0 => ReversibleInv'
  BY <1>0 DEF ReversibleInv, Taken, CheckedInv, Files, Unseen, Changed, ImagesInv, Clean,
      WhereInv, TypeOK
<1>7. edits' = 0 => KnownInv'
  BY <1>0 DEF KnownInv, Known, CheckedInv, Files, Unseen, Changed, PendingExists, Pending, NoImages
<1>8. edits' = 0 => VerifiedInv'
  BY DEF VerifiedInv, Unseen, TypeOK, ImagesInv
<1>9. QED BY <1>2, <1>3, <1>4, <1>5, <1>6, <1>7, <1>8

LEMMA WriteJournalKeeps ==
  ASSUME AllInv, IInv', WriteJournal
  PROVE  AllInv'
<1>1. PICK j \in Jids :
        /\ IsNext(j) /\ UNCHANGED <<disk, raced, edits>> /\ op.kind = "apply" /\ op.pc = "journal"
        /\ status' = [status EXCEPT ![j] = "pending"]
        /\ entry' = [entry EXCEPT ![j] = [before |-> op.from, after |-> op.to]]
        /\ OnlySets({"pc", "jid"}) /\ op'.pc = "stage" /\ op'.jid = j
  BY DEF AllInv, TraceInv, IInv, TypeOK, Operation, OnlySets, OpFields, bounds, At, WriteJournal
<1> USE <1>1 DEF AllInv, TraceInv, QuietInv, OnlySets, OpFields, IInv, OpInv, StepsOfKind,
           UnderMarker, BeforeMarker, Marked, RollbackSteps
<1>0. /\ status'[j] = "pending" /\ ~PendingExists /\ entry'[j].before = op.from /\ entry'[j].after = op.to
      /\ op.recs = {} /\ op.backup = NoImages
      /\ \A k \in Jids \ {j} : status'[k] = status[k] /\ entry'[k] = entry[k]
  BY DEF BeforeInv, TypeOK, ImagesInv, Clean, Operation, WorksOn
<1>2. ImagesInv'
  BY <1>0 DEF ImagesInv, Clean, NoImages
<1>3. SeenInv'
  BY <1>0 DEF SeenInv, AtFile, Ahead, TypeOK, ImagesInv, Clean, NoImages
<1>4. NewestInv' /\ WhereInv'
  BY <1>0 DEF NewestInv, WhereInv, IsNext, PendingExists, Pending, Jids
<1>5. edits' = 0 => raced' = {} /\ CheckedInv'
  BY DEF CheckedInv, Files, Unseen, Changed
<1>6. edits' = 0 => ReversibleInv'
  BY <1>0 DEF ReversibleInv, Taken, CheckedInv, Files, Unseen, Changed
<1>7. edits' = 0 => KnownInv'
  BY <1>0 DEF KnownInv, Known, CheckedInv, Files, Unseen, Changed, PendingExists, Pending, NoImages
<1>8. edits' = 0 => VerifiedInv'
  BY DEF VerifiedInv, Unseen, TypeOK, ImagesInv
<1>9. QED BY <1>2, <1>3, <1>4, <1>5, <1>6, <1>7, <1>8

LEMMA SelectPendingKeeps ==
  ASSUME AllInv, IInv', SelectPending
  PROVE  AllInv'
<1>1. PICK j \in Jids :
        /\ Pending(j) /\ UNCHANGED <<disk, status, entry, raced, edits>>
        /\ op' = [NoOp EXCEPT !.kind = "recover", !.jid = j, !.to = entry[j].before,
                               !.todo = Changed(entry[j]), !.pc = "check"]
  BY DEF AllInv, TraceInv, IInv, TypeOK, Operation, OnlySets, OpFields, bounds, At,
      SelectPending
<1> USE <1>1 DEF AllInv, TraceInv, QuietInv, OnlySets, OpFields, IInv, OpInv, StepsOfKind,
           UnderMarker, BeforeMarker, Marked, RollbackSteps
<1>0. op'.kind = "recover" /\ op'.jid = j /\ op'.to = entry[j].before /\ op'.from = NoImages
      /\ op'.pc = "check" /\ op'.recs = {} /\ op'.backup = NoImages
  BY DEF NoOp
<1>2. ImagesInv'
  BY <1>0 DEF ImagesInv, Clean, NoImages, Changed, Pending
<1>3. SeenInv'
  BY <1>0 DEF SeenInv, AtFile, Ahead
<1>4. NewestInv' /\ WhereInv'
  BY <1>0 DEF NewestInv, WhereInv
<1>5. edits' = 0 => raced' = {} /\ CheckedInv'
  BY <1>0 DEF CheckedInv, Files, Unseen, Changed
<1>6. edits' = 0 => ReversibleInv'
  BY <1>0 DEF ReversibleInv, Taken, CheckedInv, Files, Unseen, Changed, ImagesInv, Clean,
      WhereInv, TypeOK
<1>7. edits' = 0 => KnownInv'
  BY <1>0 DEF KnownInv, Known, Pending, NoImages, Changed
<1>8. edits' = 0 => VerifiedInv'
  BY <1>0 DEF VerifiedInv, Unseen, TypeOK, ImagesInv
<1>9. QED BY <1>2, <1>3, <1>4, <1>5, <1>6, <1>7, <1>8

LEMMA ClassifyFileKeeps ==
  ASSUME AllInv, IInv', NEW p \in Paths, ClassifyFile(p)
  PROVE  AllInv'
<1>1. /\ UNCHANGED <<disk, status, entry, raced, edits>>
      /\ op.kind = "recover" /\ op.pc = "check" /\ OnlySets({"todo", "plan", "from", "pc"})
      /\ \/ op'.from = op.from
         \/ /\ op'.from = [op.from EXCEPT ![p] = disk[p]]
            /\ disk[p] \in {Absent, entry[op.jid].after[p]}
      /\ op'.pc \in {"check", "stage"}
  <2>1. /\ op.kind = "recover" /\ op.pc = "check" /\ UNCHANGED <<disk, status, entry, raced, edits>>
        /\ disk[p] # entry[op.jid].before[p] => disk[p] \in {Absent, entry[op.jid].after[p]}
    BY DEF ClassifyFile, KnownImage, At, bounds
  <2>2. CASE disk[p] = entry[op.jid].before[p]
    <3>1. op' = [op EXCEPT !.todo = @ \ {p}, !.plan = @, !.from = @,
                           !.pc = IF op.todo = {p} THEN "stage" ELSE "check"]
      BY <2>2 DEF ClassifyFile
    <3>2. QED BY <2>1, <3>1 DEF AllInv, TraceInv, IInv, TypeOK, Operation, OnlySets, OpFields
  <2>3. CASE disk[p] # entry[op.jid].before[p]
    <3>1. op' = [op EXCEPT !.todo = @ \ {p}, !.plan = @ \cup {p}, !.from = [@ EXCEPT ![p] = disk[p]],
                           !.pc = IF op.todo = {p} THEN "stage" ELSE "check"]
      BY <2>3 DEF ClassifyFile
    <3>2. QED BY <2>1, <2>3, <3>1 DEF AllInv, TraceInv, IInv, TypeOK, Operation, OnlySets, OpFields
  <2>4. QED BY <2>2, <2>3
<1> USE <1>1 DEF AllInv, TraceInv, QuietInv, OnlySets, OpFields, IInv, OpInv, StepsOfKind,
           UnderMarker, BeforeMarker, Marked, RollbackSteps
<1>2. ImagesInv'
  BY DEF ImagesInv, Clean, BeforeInv, UnderInv, Changed, TypeOK, Operation
<1>3. SeenInv'
  BY DEF SeenInv, AtFile, Ahead, TypeOK, ImagesInv, Clean, NoImages
<1>4. NewestInv' /\ WhereInv'
  BY DEF NewestInv, WhereInv
<1>5. edits' = 0 => raced' = {} /\ CheckedInv'
  BY DEF CheckedInv, Files, Unseen, Changed
<1>6. edits' = 0 => ReversibleInv'
  BY DEF ReversibleInv, Taken, CheckedInv, Files, Unseen, Changed, ImagesInv, Clean, WhereInv,
      TypeOK
<1>7. edits' = 0 => KnownInv'
  BY DEF KnownInv, Known, Pending, ImagesInv, Clean, Changed, TypeOK, UnderInv
<1>8. edits' = 0 => VerifiedInv'
  BY DEF VerifiedInv, Unseen, TypeOK, ImagesInv
<1>9. QED BY <1>2, <1>3, <1>4, <1>5, <1>6, <1>7, <1>8

LEMMA SwapKeeps ==
  ASSUME AllInv, IInv', Swap
  PROVE  AllInv'
<1>1. /\ UNCHANGED <<status, entry, raced, edits>> /\ disk' = [disk EXCEPT ![op.cur] = Absent]
      /\ op.pc = "swap" /\ op'.backup = [op.backup EXCEPT ![op.cur] = disk[op.cur]]
      /\ \/ op'.pc = "install" /\ OnlySets({"pc", "backup"})
         \/ op'.pc = "commit" /\ OnlySets({"pc", "backup", "todo", "cur"}) /\ op'.todo = op.todo \ {op.cur}
         \/ op'.pc = "rollback" /\ OnlySets({"pc", "backup", "todo", "cur", "rbFailed"}) /\ op'.todo = op.recs
  <2> DEFINE moved == [op EXCEPT !.backup[op.cur] = disk[op.cur]]
             removed == [moved EXCEPT !.todo = @ \ {op.cur}, !.cur = NoPath, !.pc = "commit"]
  <2>1. /\ UNCHANGED <<status, entry, raced, edits>> /\ disk' = [disk EXCEPT ![op.cur] = Absent]
        /\ op.pc = "swap"
        /\ op' = removed \/ op' = [moved EXCEPT !.pc = "install"] \/ op' = RollBack(moved)
    BY DEF Swap
  <2>2. moved \in Operation /\ \A f \in OpFields \ {"backup"} : moved[f] = op[f]
    BY AtFileUnderMarker DEF AllInv, TraceInv, IInv, TypeOK, Operation, OpFields, Img
  <2>3. moved.backup = [op.backup EXCEPT ![op.cur] = disk[op.cur]]
    BY DEF AllInv, TraceInv, IInv, TypeOK, Operation
  <2> HIDE DEF moved
  <2>4. QED BY <2>1, <2>2, <2>3 DEF RollBack, Operation, OnlySets, OpFields
<1> USE <1>1 DEF AllInv, TraceInv, QuietInv, OnlySets, OpFields, IInv, OpInv, StepsOfKind,
           UnderMarker, BeforeMarker, Marked, RollbackSteps
<1>0. /\ op.cur \in Paths /\ op.cur \in Changed(entry[op.jid]) /\ AtFile /\ op.jid \in Jids /\ Pending(op.jid)
      /\ edits = 0 => Known(op.cur, entry[op.jid])
      /\ edits = 0 => \A j \in Jids : Pending(j)' => \A p \in Changed(entry[j])' : Known(p, entry[j])'
  BY KnownStep, AtFileUnderMarker DEF AtFile, KnownInv
<1>2. ImagesInv'
  BY <1>0 DEF ImagesInv, Clean, BeforeInv, UnderInv, Changed
<1>3. SeenInv'
  BY <1>0 DEF SeenInv, AtFile, Ahead, TypeOK, ImagesInv, Clean, NoImages
<1>4. NewestInv' /\ WhereInv'
  BY DEF NewestInv, WhereInv
<1>5. edits' = 0 => raced' = {} /\ CheckedInv'
  BY DEF CheckedInv, Files, Unseen, Changed
<1>6. edits' = 0 => ReversibleInv'
  BY <1>0 DEF ReversibleInv, Taken, Changed, WhereInv, TypeOK, Operation, SeenInv
<1>7. edits' = 0 => KnownInv'
  BY <1>0 DEF KnownInv, Known, Changed, TypeOK, Operation
<1>8. edits' = 0 => VerifiedInv'
  BY DEF VerifiedInv, Unseen, TypeOK, ImagesInv
<1>9. QED BY <1>2, <1>3, <1>4, <1>5, <1>6, <1>7, <1>8

LEMMA InstallKeeps ==
  ASSUME AllInv, IInv', Install
  PROVE  AllInv'
<1>1. /\ UNCHANGED <<status, entry, raced, edits>> /\ disk' = [disk EXCEPT ![op.cur] = op.to[op.cur]]
      /\ op.pc = "install" /\ op'.installed = op.installed \cup {op.cur}
      /\ \/ op'.pc = "commit" /\ OnlySets({"pc", "installed", "todo", "cur"}) /\ op'.todo = op.todo \ {op.cur}
         \/ op'.pc = "rollback" /\ OnlySets({"pc", "installed", "todo", "cur", "rbFailed"}) /\ op'.todo = op.recs
  BY DEF AllInv, TraceInv, IInv, TypeOK, Operation, OnlySets, OpFields, bounds, At, Install,
      RollBack
<1> USE <1>1 DEF AllInv, TraceInv, QuietInv, OnlySets, OpFields, IInv, OpInv, StepsOfKind,
           UnderMarker, BeforeMarker, Marked, RollbackSteps
<1>0. op.to[op.cur] \in {entry[op.jid].before[op.cur], entry[op.jid].after[op.cur]}
  BY DEF ImagesInv, AtFile
<1>a. edits = 0 => \A j \in Jids : Pending(j)' => \A p \in Changed(entry[j])' : Known(p, entry[j])'
  BY <1>0, KnownStep, AtFileUnderMarker DEF AtFile, KnownInv
<1>2. ImagesInv'
  BY DEF ImagesInv, Clean, BeforeInv, UnderInv, Changed
<1>3. SeenInv'
  BY DEF SeenInv, AtFile, Ahead, TypeOK, ImagesInv, Clean, NoImages
<1>4. NewestInv' /\ WhereInv'
  BY DEF NewestInv, WhereInv
<1>5. edits' = 0 => raced' = {} /\ CheckedInv'
  BY DEF CheckedInv, Files, Unseen, Changed
<1>6. edits' = 0 => ReversibleInv'
  BY DEF ReversibleInv, Taken, CheckedInv, Files, Unseen, Changed, ImagesInv, Clean, WhereInv,
      TypeOK
<1>7. edits' = 0 => KnownInv'
  BY <1>a DEF KnownInv, Changed
<1>8. edits' = 0 => VerifiedInv'
  BY DEF VerifiedInv, Unseen, TypeOK, ImagesInv
<1>9. QED BY <1>2, <1>3, <1>4, <1>5, <1>6, <1>7, <1>8

LEMMA FinalizeKeeps ==
  ASSUME AllInv, IInv', Finalize
  PROVE  AllInv'
<1>1. /\ UNCHANGED <<disk, entry, raced, edits>> /\ op.pc = "finalize" /\ OnlySets({"pc"})
      /\ \A k \in Jids \ {op.jid} : status'[k] = status[k]
      /\ status'[op.jid] \in {"applied", "undone", "none"}
      /\ \/ op.kind = "recover" /\ op'.pc = "select"
         \/ op.kind # "recover" /\ op'.pc = "cleanup" /\ status'[op.jid] # "none"
  BY DEF AllInv, TraceInv, IInv, TypeOK, Operation, OnlySets, OpFields, bounds, At, Finalize,
      OpInv, UnderMarker, UnderInv, StepsOfKind, Pending
<1> USE <1>1 DEF AllInv, TraceInv, QuietInv, OnlySets, OpFields, IInv, OpInv, StepsOfKind,
           UnderMarker, BeforeMarker, Marked, RollbackSteps
<1>2. ImagesInv'
  BY DEF ImagesInv, Clean, BeforeInv, UnderInv, Changed
<1>3. SeenInv'
  BY DEF SeenInv, AtFile, Ahead, TypeOK, ImagesInv, Clean, NoImages
<1>4. NewestInv' /\ WhereInv'
  BY DEF NewestInv, WhereInv, UnderInv, Pending
<1>5. edits' = 0 => raced' = {} /\ CheckedInv'
  BY DEF CheckedInv, Files, Unseen, Changed
<1>6. edits' = 0 => ReversibleInv'
  BY DEF ReversibleInv, Taken, CheckedInv, Files, Unseen, Changed, ImagesInv, Clean, WhereInv,
      TypeOK
<1>7. edits' = 0 => KnownInv'
  BY DEF KnownInv, Known, Pending, ImagesInv, Clean, Changed, TypeOK, UnderInv
<1>8. edits' = 0 => VerifiedInv'
  BY DEF VerifiedInv, Unseen, TypeOK, ImagesInv
<1>9. QED BY <1>2, <1>3, <1>4, <1>5, <1>6, <1>7, <1>8

LEMMA RecoverCleanupKeeps ==
  ASSUME AllInv, IInv', Cleanup, op.kind = "recover"
  PROVE  AllInv'
<1>1. /\ UNCHANGED <<disk, status, entry, raced, edits>>
      /\ op.pc = "cleanup" /\ OnlySets({"pc", "recs", "backed", "installed", "backup"})
      /\ op'.pc = "finalize" /\ op'.recs = {} /\ op'.backup = NoImages
  BY DEF AllInv, TraceInv, IInv, TypeOK, Operation, OnlySets, OpFields, bounds, At, Cleanup,
      Finish
<1> USE <1>1 DEF AllInv, TraceInv, QuietInv, OnlySets, OpFields, IInv, OpInv, StepsOfKind,
           UnderMarker, BeforeMarker, Marked, RollbackSteps
<1>2. ImagesInv'
  BY DEF ImagesInv, Clean, BeforeInv, UnderInv, Changed, NoImages
<1>3. SeenInv'
  BY DEF SeenInv, AtFile, Ahead, NoImages
<1>4. NewestInv' /\ WhereInv'
  BY DEF NewestInv, WhereInv
<1>5. edits' = 0 => raced' = {} /\ CheckedInv'
  BY DEF CheckedInv, Files, Unseen, Changed
<1>6. edits' = 0 => ReversibleInv'
  BY DEF ReversibleInv, Taken, CheckedInv, Files, Unseen, Changed, ImagesInv, Clean, WhereInv,
      TypeOK
<1>7. edits' = 0 => KnownInv'
  BY DEF KnownInv, Known, Pending, ImagesInv, Clean, Changed, TypeOK, UnderInv, NoImages
<1>8. edits' = 0 => VerifiedInv'
  BY DEF VerifiedInv, Unseen, TypeOK, ImagesInv
<1>9. QED BY <1>2, <1>3, <1>4, <1>5, <1>6, <1>7, <1>8

LEMMA RollbackDoneKeeps ==
  ASSUME AllInv, IInv', RollbackDone, op'.pc = "unmark"
  PROVE  AllInv'
<1>1. /\ UNCHANGED <<disk, status, entry, raced, edits>>
      /\ op.pc = "rollback" /\ OnlySets({"pc"}) /\ op.todo = {}
      /\ op.kind # "recover" /\ ~op.rbFailed
  BY DEF AllInv, TraceInv, IInv, TypeOK, Operation, OnlySets, OpFields, bounds, At,
      RollbackDone, Finish, NoOp
<1> USE <1>1 DEF AllInv, TraceInv, QuietInv, OnlySets, OpFields, IInv, OpInv, StepsOfKind,
           UnderMarker, BeforeMarker, Marked, RollbackSteps
<1>2. ImagesInv'
  BY DEF ImagesInv, Clean, BeforeInv, UnderInv, Changed
<1>3. SeenInv'
  BY DEF SeenInv, AtFile, Ahead, TypeOK, ImagesInv, Clean, NoImages
<1>4. NewestInv' /\ WhereInv'
  BY DEF NewestInv, WhereInv
<1>5. edits' = 0 => raced' = {} /\ CheckedInv'
  BY DEF CheckedInv, Files, Unseen, Changed
<1>6. edits' = 0 => ReversibleInv'
  BY DEF ReversibleInv, Taken, CheckedInv, Files, Unseen, Changed, ImagesInv, Clean, WhereInv,
      TypeOK
<1>7. edits' = 0 => KnownInv'
  BY DEF KnownInv, Known, Pending, ImagesInv, Clean, Changed, TypeOK, UnderInv
<1>8. edits' = 0 => VerifiedInv'
  BY DEF VerifiedInv, Unseen, TypeOK, ImagesInv
<1>9. QED BY <1>2, <1>3, <1>4, <1>5, <1>6, <1>7, <1>8

LEMMA RollbackUnlinkKeeps ==
  ASSUME AllInv, IInv', RollbackUnlink
  PROVE  AllInv'
<1>1. /\ UNCHANGED <<status, entry, raced, edits>> /\ disk' = [disk EXCEPT ![op.cur] = Absent]
      /\ op.pc = "rbUnlink"
      /\ \/ /\ op.cur \in op.backed /\ OnlySets({"pc", "installed"}) /\ op'.pc = "rbAbsent"
            /\ op'.installed = op.installed \ {op.cur}
         \/ /\ op.cur \notin op.backed /\ OnlySets({"pc", "installed", "todo", "recs", "cur"})
            /\ op'.pc = "rollback" /\ op'.installed = op.installed \ {op.cur}
            /\ op'.todo = op.todo \ {op.cur}
  BY DEF AllInv, TraceInv, IInv, TypeOK, Operation, OnlySets, OpFields, bounds, At,
      RollbackUnlink
<1> USE <1>1 DEF AllInv, TraceInv, QuietInv, OnlySets, OpFields, IInv, OpInv, StepsOfKind,
           UnderMarker, BeforeMarker, Marked, RollbackSteps
<1>2. ImagesInv'
  BY DEF ImagesInv, Clean, BeforeInv, UnderInv, Changed
<1>3. SeenInv'
  BY DEF SeenInv, AtFile, Ahead, TypeOK, ImagesInv, Clean, NoImages
<1>4. NewestInv' /\ WhereInv'
  BY DEF NewestInv, WhereInv
<1>5. edits' = 0 => raced' = {} /\ CheckedInv'
  BY DEF CheckedInv, Files, Unseen, Changed
<1>6. edits' = 0 => ReversibleInv'
  BY DEF ReversibleInv, Taken, CheckedInv, Files, Unseen, Changed, ImagesInv, Clean, WhereInv,
      TypeOK
<1>7. edits' = 0 => KnownInv'
  BY DEF KnownInv, Known, Pending, ImagesInv, Clean, Changed, TypeOK, UnderInv
<1>8. edits' = 0 => VerifiedInv'
  BY DEF VerifiedInv, Unseen, TypeOK, ImagesInv
<1>9. QED BY <1>2, <1>3, <1>4, <1>5, <1>6, <1>7, <1>8

LEMMA RollbackCheckAbsentKeeps ==
  ASSUME AllInv, IInv', RollbackCheckAbsent
  PROVE  AllInv'
<1>1. /\ UNCHANGED <<disk, status, entry, edits>> /\ raced' = raced \ {op.cur}
      /\ op.pc = "rbAbsent" /\ disk[op.cur] = Absent /\ OnlySets({"pc"}) /\ op'.pc = "rbRestore"
  BY DEF AllInv, TraceInv, IInv, TypeOK, Operation, OnlySets, OpFields, bounds, At,
      RollbackCheckAbsent
<1> USE <1>1 DEF AllInv, TraceInv, QuietInv, OnlySets, OpFields, IInv, OpInv, StepsOfKind,
           UnderMarker, BeforeMarker, Marked, RollbackSteps
<1>2. ImagesInv'
  BY DEF ImagesInv, Clean, BeforeInv, UnderInv, Changed
<1>3. SeenInv'
  BY DEF SeenInv, AtFile, Ahead, TypeOK, ImagesInv, Clean, NoImages
<1>4. NewestInv' /\ WhereInv'
  BY DEF NewestInv, WhereInv
<1>5. edits' = 0 => raced' = {} /\ CheckedInv'
  BY DEF CheckedInv, Files, Unseen, Changed
<1>6. edits' = 0 => ReversibleInv'
  BY DEF ReversibleInv, Taken, CheckedInv, Files, Unseen, Changed, ImagesInv, Clean, WhereInv,
      TypeOK
<1>7. edits' = 0 => KnownInv'
  BY DEF KnownInv, Known, Pending, ImagesInv, Clean, Changed, TypeOK, UnderInv
<1>8. edits' = 0 => VerifiedInv'
  BY DEF VerifiedInv, Unseen, TypeOK, ImagesInv
<1>9. QED BY <1>2, <1>3, <1>4, <1>5, <1>6, <1>7, <1>8

LEMMA RollbackRestoreKeeps ==
  ASSUME AllInv, IInv', RollbackRestore
  PROVE  AllInv'
<1>1. /\ UNCHANGED <<status, entry, raced, edits>> /\ disk' = [disk EXCEPT ![op.cur] = op.backup[op.cur]]
      /\ op.pc = "rbRestore" /\ OnlySets({"pc", "backup", "backed", "todo", "recs", "cur"})
      /\ op.backup[op.cur] # Absent /\ op'.backup = [op.backup EXCEPT ![op.cur] = Absent]
      /\ op'.todo = op.todo \ {op.cur} /\ op'.backed = op.backed \ {op.cur} /\ op'.pc = "rollback"
  BY DEF AllInv, TraceInv, IInv, TypeOK, Operation, OnlySets, OpFields, bounds, At,
      RollbackRestore
<1> USE <1>1 DEF AllInv, TraceInv, QuietInv, OnlySets, OpFields, IInv, OpInv, StepsOfKind,
           UnderMarker, BeforeMarker, Marked, RollbackSteps
<1>0. edits = 0 => \A j \in Jids : Pending(j)' => \A p \in Changed(entry[j])' : Known(p, entry[j])'
  BY KnownStep, AtFileUnderMarker DEF AtFile, KnownInv
<1>2. ImagesInv'
  BY DEF ImagesInv, Clean, BeforeInv, UnderInv, Changed
<1>3. SeenInv'
  BY DEF SeenInv, AtFile, Ahead, TypeOK, ImagesInv, Clean, NoImages
<1>4. NewestInv' /\ WhereInv'
  BY DEF NewestInv, WhereInv
<1>5. edits' = 0 => raced' = {} /\ CheckedInv'
  BY DEF CheckedInv, Files, Unseen, Changed
<1>6. edits' = 0 => ReversibleInv'
  BY DEF ReversibleInv, Taken, CheckedInv, Files, Unseen, Changed, ImagesInv, Clean, WhereInv,
      TypeOK
<1>7. edits' = 0 => KnownInv'
  BY <1>0 DEF KnownInv, ImagesInv, Clean, Changed, TypeOK, UnderInv, Operation
<1>8. edits' = 0 => VerifiedInv'
  BY DEF VerifiedInv, Unseen, TypeOK, ImagesInv
<1>9. QED BY <1>2, <1>3, <1>4, <1>5, <1>6, <1>7, <1>8

LEMMA RollbackFileKeeps ==
  ASSUME AllInv, IInv', NEW p \in Paths, RollbackFile(p)
  PROVE  AllInv'
<1>1. /\ UNCHANGED <<disk, status, entry, edits>> /\ op.pc = "rollback" /\ p \in op.todo
      /\ \/ /\ p \in op.installed /\ disk[p] = op.to[p] /\ raced' = raced \ {p}
            /\ OnlySets({"pc", "cur"}) /\ op'.cur = p /\ op'.pc = "rbUnlink"
         \/ /\ p \in op.backed \ op.installed /\ raced' = raced
            /\ OnlySets({"pc", "cur"}) /\ op'.cur = p /\ op'.pc = "rbAbsent"
         \/ /\ p \notin op.backed \cup op.installed /\ raced' = raced
            /\ OnlySets({"todo", "recs"}) /\ op'.todo = op.todo \ {p}
  BY DEF AllInv, TraceInv, IInv, TypeOK, Operation, OnlySets, OpFields, bounds, At, RollbackFile
<1> USE <1>1 DEF AllInv, TraceInv, QuietInv, OnlySets, OpFields, IInv, OpInv, StepsOfKind,
           UnderMarker, BeforeMarker, Marked, RollbackSteps
<1>2. ImagesInv'
  BY DEF ImagesInv, Clean, BeforeInv, UnderInv, Changed
<1>3. SeenInv'
  BY DEF SeenInv, AtFile, Ahead, TypeOK, ImagesInv, Clean, NoImages
<1>4. NewestInv' /\ WhereInv'
  BY DEF NewestInv, WhereInv
<1>5. edits' = 0 => raced' = {} /\ CheckedInv'
  BY DEF CheckedInv, Files, Unseen, Changed
<1>6. edits' = 0 => ReversibleInv'
  BY DEF ReversibleInv, Taken, CheckedInv, Files, Unseen, Changed, ImagesInv, Clean, WhereInv,
      TypeOK
<1>7. edits' = 0 => KnownInv'
  BY DEF KnownInv, Known, Pending, ImagesInv, Clean, Changed, TypeOK, UnderInv
<1>8. edits' = 0 => VerifiedInv'
  BY DEF VerifiedInv, Unseen, TypeOK, ImagesInv
<1>9. QED BY <1>2, <1>3, <1>4, <1>5, <1>6, <1>7, <1>8

LEMMA RollbackFileFailsKeeps ==
  ASSUME AllInv, IInv', NEW p \in Paths, RollbackFileFails(p)
  PROVE  AllInv'
<1>1. /\ UNCHANGED <<disk, status, entry, raced, edits>>
      /\ op.pc \in RollbackSteps
      /\ OnlySets({"pc", "todo", "rbFailed", "cur"})
      /\ op'.todo = op.todo \ {p} /\ op'.rbFailed = TRUE /\ op'.pc = "rollback"
  BY DEF AllInv, TraceInv, IInv, TypeOK, Operation, OnlySets, OpFields, bounds, At,
      RollbackFileFails, RollbackSteps
<1> USE <1>1 DEF AllInv, TraceInv, QuietInv, OnlySets, OpFields, IInv, OpInv, StepsOfKind,
           UnderMarker, BeforeMarker, Marked, RollbackSteps
<1>2. ImagesInv'
  BY DEF ImagesInv, Clean, BeforeInv, UnderInv, Changed
<1>3. SeenInv'
  BY DEF SeenInv, AtFile, Ahead, TypeOK, ImagesInv, Clean, NoImages
<1>4. NewestInv' /\ WhereInv'
  BY DEF NewestInv, WhereInv
<1>5. edits' = 0 => raced' = {} /\ CheckedInv'
  BY DEF CheckedInv, Files, Unseen, Changed
<1>6. edits' = 0 => ReversibleInv'
  BY DEF ReversibleInv, Taken, CheckedInv, Files, Unseen, Changed, ImagesInv, Clean, WhereInv,
      TypeOK
<1>7. edits' = 0 => KnownInv'
  BY DEF KnownInv, Known, Pending, ImagesInv, Clean, Changed, TypeOK, UnderInv
<1>8. edits' = 0 => VerifiedInv'
  BY DEF VerifiedInv, Unseen, TypeOK, ImagesInv
<1>9. QED BY <1>2, <1>3, <1>4, <1>5, <1>6, <1>7, <1>8

LEMMA ThrowKeeps ==
  ASSUME AllInv, IInv', Throw \/ Finish, UNCHANGED <<disk, status, entry, edits>>,
         op.pc \notin {"select", "cleanup", "unmark"} \cup RollbackSteps \/ Finish
  PROVE  AllInv'
<1>1. CASE Finish
  BY <1>1, NothingInMemory DEF Finish, NoOp
<1>2. CASE ~Finish
  <2>1. op' = RollBack(op) /\ UNCHANGED raced
    BY <1>2 DEF Throw
  <2>2. op.pc # "idle"
    <3>1. op' = RollBack(op) /\ op'.kind = op.kind /\ op'.pc = "rollback"
      BY <2>1 DEF RollBack, AllInv, TraceInv, IInv, TypeOK, Operation
    <3>2. QED BY <3>1 DEF AllInv, TraceInv, IInv, OpInv, StepsOfKind
  <2>3. UnderMarker /\ op.pc \in {"stage", "commit", "swap", "install", "verify", "finalize"}
    BY <1>2, <2>2 DEF Throw, UnderMarker, AllInv, TraceInv, IInv, TypeOK, Operation, Steps, RollbackSteps
  <2>4. QED BY <2>1, <2>3, RollsBack
<1>3. QED BY <1>1, <1>2

LEMMA FailuresKeep ==
  ASSUME AllInv, IInv',
         \/ CheckFails \/ ClassifyFails \/ StageFails \/ CommitFails \/ SwapFails \/ InstallFails
         \/ VerifyFails \/ FinalizeFails \/ RecoverEnds \/ (Cleanup /\ op.kind # "recover")
         \/ (RollbackDone /\ op'.pc # "unmark")
  PROVE  AllInv'
<1> USE DEF RollbackSteps
<1>1. CASE CheckFails \/ ClassifyFails
  BY <1>1, ThrowKeeps DEF CheckFails, ClassifyFails, At
<1>2. CASE StageFails \/ CommitFails \/ SwapFails
  BY <1>2, ThrowKeeps DEF StageFails, CommitFails, SwapFails
<1>3. CASE InstallFails \/ VerifyFails \/ FinalizeFails
  BY <1>3, ThrowKeeps DEF InstallFails, VerifyFails, FinalizeFails
<1>4. CASE RecoverEnds \/ (Cleanup /\ op.kind # "recover")
  BY <1>4, ThrowKeeps DEF RecoverEnds, Cleanup, bounds
<1>5. CASE RollbackDone /\ op'.pc # "unmark"
  <2>1. Finish
    <3>1. [op EXCEPT !.pc = "unmark"].pc = "unmark"
      BY DEF AllInv, TraceInv, IInv, TypeOK, Operation
    <3>2. QED BY <1>5, <3>1 DEF RollbackDone
  <2>2. QED BY <1>5, <2>1, ThrowKeeps DEF RollbackDone, bounds
<1>6. QED BY <1>1, <1>2, <1>3, <1>4, <1>5

LEMMA WriteJournalFailsKeeps ==
  ASSUME AllInv, IInv', WriteJournalFails
  PROVE  AllInv'
<1>1. /\ op.kind = "apply" /\ op.pc = "journal" /\ Finish /\ UNCHANGED <<disk, edits>>
      /\ BeforeInv /\ Clean
  BY DEF WriteJournalFails, At, Throw, AllInv, TraceInv, IInv, OpInv, BeforeMarker, ImagesInv
<1>2. CASE UNCHANGED <<status, entry>>
  BY <1>1, <1>2, NothingInMemory DEF Finish, NoOp
<1>3. ASSUME NEW j \in Jids, IsNext(j), status' = [status EXCEPT ![j] = "pending"],
             entry' = [entry EXCEPT ![j] = [before |-> op.from, after |-> op.to]]
      PROVE  AllInv'
  <2>1. /\ status'[j] = "pending" /\ entry'[j].before = op.from /\ entry'[j].after = op.to
        /\ \A k \in Jids \ {j} : status'[k] = status[k] /\ entry'[k] = entry[k]
    BY <1>3 DEF AllInv, TraceInv, IInv, TypeOK
  <2>2. NewestInv'
    BY <1>1, <1>3, <2>1 DEF NewestInv, BeforeInv, PendingExists, Pending, IsNext, Jids
  <2>3. edits = 0 => \A p \in Files : disk[p] = op.from[p]
    BY <1>1 DEF AllInv, QuietInv, CheckedInv, BeforeMarker, Unseen
  <2>4. edits = 0 => \A k \in Jids : Pending(k)' => \A p \in Changed(entry[k])' : Known(p, entry[k])'
    BY <1>1, <2>1, <2>3 DEF BeforeInv, PendingExists, Pending, Known, Files, Changed
  <2>5. QED BY <1>1, <2>2, <2>4, NoOperation DEF Finish, NoOp
<1>4. QED BY <1>2, <1>3 DEF WriteJournalFails

LEMMA MarkUndoFailsKeeps ==
  ASSUME AllInv, IInv', MarkUndoFails
  PROVE  AllInv'
<1>1. op.kind = "undo" /\ op.pc = "mark" /\ UNCHANGED <<disk, entry, edits>>
  BY DEF MarkUndoFails, At
<1>2. CASE Throw /\ UNCHANGED status
  BY <1>1, <1>2, ThrowKeeps DEF RollbackSteps
<1>3. CASE /\ status' = [status EXCEPT ![op.jid] = "undoPending"]
           /\ op' = RollBack(op) /\ UNCHANGED raced
  <2>1. /\ OnlySets({"pc", "todo", "cur", "rbFailed"}) /\ op'.pc = "rollback" /\ op'.todo = op.recs
    BY <1>3 DEF RollBack, AllInv, TraceInv, IInv, TypeOK, Operation, OnlySets, OpFields
  <2> USE <1>1, <2>1 DEF AllInv, TraceInv, QuietInv, OnlySets, OpFields, IInv, OpInv, StepsOfKind,
             UnderMarker, BeforeMarker, Marked, RollbackSteps
  <2>2. op.jid \in Jids /\ status'[op.jid] = "undoPending" /\ ~PendingExists
        /\ op.recs = {} /\ op.backup = NoImages
        /\ op.from = entry[op.jid].after /\ op.to = entry[op.jid].before
        /\ \A k \in Jids \ {op.jid} : status'[k] = status[k]
    BY <1>3 DEF BeforeInv, TypeOK, ImagesInv, Clean, Operation, WorksOn
  <2>3. ImagesInv'
    BY <2>2 DEF ImagesInv, Clean, NoImages
  <2>4. SeenInv'
    BY <1>3 DEF SeenInv, AtFile, Ahead
  <2>5. NewestInv' /\ WhereInv'
    BY <2>2 DEF NewestInv, WhereInv, PendingExists, Pending
  <2>6. edits' = 0 => raced' = {} /\ CheckedInv' /\ VerifiedInv'
    BY <1>3 DEF CheckedInv, VerifiedInv
  <2>7. edits' = 0 => ReversibleInv'
    BY <2>2 DEF ReversibleInv, Taken, CheckedInv, Files, Unseen, Changed
  <2>8. edits' = 0 => KnownInv'
    BY <2>2 DEF KnownInv, Known, CheckedInv, Files, Unseen, Changed, PendingExists, Pending, NoImages
  <2>9. QED BY <2>3, <2>4, <2>5, <2>6, <2>7, <2>8
<1>4. QED BY <1>2, <1>3 DEF MarkUndoFails

LEMMA UnmarkKeeps ==
  ASSUME AllInv, IInv', Unmark
  PROVE  AllInv'
<1>1. /\ op.pc = "unmark" /\ Finish /\ UNCHANGED <<disk, entry, edits>>
      /\ op.jid \in Jids /\ Pending(op.jid)
  BY DEF Unmark, AllInv, TraceInv, IInv, OpInv, UnderMarker, UnderInv
<1>2. CASE UNCHANGED status
  BY <1>1, <1>2, NothingInMemory DEF Finish, NoOp
<1>3. CASE status' = [status EXCEPT ![op.jid] = IF op.kind = "apply" THEN "none" ELSE "applied"]
  <2>1. status'[op.jid] \in {"none", "applied"} /\ \A k \in Jids \ {op.jid} : status'[k] = status[k]
    BY <1>1, <1>3 DEF AllInv, TraceInv, IInv, TypeOK
  <2>2. NewestInv'
    BY <1>1, <2>1 DEF AllInv, TraceInv, NewestInv, Pending
  <2>3. edits = 0 => \A j \in Jids : Pending(j)' => \A p \in Changed(entry[j])' : Known(p, entry[j])'
    BY <1>1, <2>1 DEF AllInv, QuietInv, KnownInv, Known, Pending, Changed
  <2>4. QED BY <1>1, <2>2, <2>3, NoOperation DEF Finish, NoOp
<1>4. QED BY <1>2, <1>3 DEF Unmark

\* Apply and undo begin with nothing compared and nothing committed.
LEMMA BeginKeeps ==
  ASSUME AllInv, IInv', op'.kind \in {"apply", "undo"}, op'.pc = "check", op'.recs = {},
         op'.backup = NoImages, Changed([before |-> op'.from, after |-> op'.to]) \subseteq op'.todo,
         op'.kind = "undo" => op'.from = entry[op'.jid].after /\ op'.to = entry[op'.jid].before,
         UNCHANGED <<disk, status, entry, raced, edits>>
  PROVE  AllInv'
<1>1. BeforeMarker' /\ ~UnderMarker' /\ ~Marked' /\ ~AtFile'
  BY DEF BeforeMarker, UnderMarker, RollbackSteps, Marked, AtFile
<1>2. ImagesInv' /\ SeenInv' /\ NewestInv' /\ WhereInv'
  BY <1>1 DEF AllInv, TraceInv, ImagesInv, Clean, SeenInv, Ahead, NewestInv, WhereInv
<1>3. QuietInv'
  BY <1>1 DEF AllInv, QuietInv, CheckedInv, Files, Unseen, ReversibleInv, KnownInv, Known, VerifiedInv,
        Pending, Changed
<1>4. QED BY <1>2, <1>3 DEF AllInv, TraceInv

LEMMA ApplyBeginKeeps == ASSUME AllInv, IInv', NEW a \in prepared, ApplyBegin(a) PROVE AllInv'
<1>1. UNCHANGED <<disk, status, entry, raced, edits>>
  BY DEF ApplyBegin, bounds
<1>2. CASE op' = op
  BY <1>1, <1>2, SameOperation DEF OnlySets
<1>3. CASE op' # op
  <2>1. op' = [NoOp EXCEPT !.kind = "apply", !.pc = "check", !.from = a.before,
                           !.to = a.after, !.plan = Changed(a), !.todo = Changed(a)]
    BY <1>3 DEF ApplyBegin
  <2>2. /\ op'.kind = "apply" /\ op'.pc = "check" /\ op'.recs = {} /\ op'.backup = NoImages
        /\ op'.from = a.before /\ op'.to = a.after /\ op'.todo = Changed(a)
    BY <2>1 DEF NoOp
  <2>3. QED BY <1>1, <2>2, BeginKeeps DEF Changed
<1>4. QED BY <1>2, <1>3

LEMMA UndoBeginKeeps == ASSUME AllInv, IInv', UndoBegin PROVE AllInv'
<1>1. PICK j \in Jids :
        op' = [NoOp EXCEPT !.kind = "undo", !.pc = "check", !.jid = j,
                           !.from = entry[j].after, !.to = entry[j].before,
                           !.plan = Changed(entry[j]), !.todo = Changed(entry[j])]
  BY DEF UndoBegin
<1>2. UNCHANGED <<disk, status, entry, raced, edits>>
  BY DEF UndoBegin, bounds
<1>3. /\ op'.kind = "undo" /\ op'.pc = "check" /\ op'.jid = j /\ op'.recs = {} /\ op'.backup = NoImages
      /\ op'.from = entry[j].after /\ op'.to = entry[j].before /\ op'.todo = Changed(entry[j])
  BY <1>1 DEF NoOp
<1>4. QED BY <1>2, <1>3, BeginKeeps DEF Changed

\* An edit is remembered in `raced` while an operation runs, and after it
\* nothing is claimed for files nobody else touched.
LEMMA ExternalEditKeeps == ASSUME AllInv, IInv', NEW p \in Paths, ExternalEdit(p) PROVE AllInv'
<1>1. /\ UNCHANGED <<status, entry, op>> /\ edits' # 0
      /\ \A q \in Paths \ {p} : disk'[q] = disk[q]
      /\ op.pc = "idle" \/ raced' = raced \cup {p}
  BY DEF ExternalEdit, AllInv, TraceInv, IInv, TypeOK, Idle
<1>2. ImagesInv' /\ NewestInv' /\ WhereInv' /\ QuietInv'
  BY <1>1 DEF AllInv, TraceInv, ImagesInv, Clean, NewestInv, WhereInv, QuietInv, BeforeMarker, Marked,
        UnderMarker, RollbackSteps, Changed
<1>3. AtFile => op.cur \in Paths
  BY AtFileUnderMarker DEF AllInv, TraceInv, IInv
<1>4. SeenInv'
  BY <1>1, <1>3 DEF AllInv, TraceInv, SeenInv, AtFile, Ahead
<1>5. QED BY <1>2, <1>4 DEF AllInv, TraceInv

LEMMA InitAll == Init => AllInv
<1> SUFFICES ASSUME Init PROVE AllInv
  OBVIOUS
<1>1. op.kind = "none" /\ op.pc = "idle"
  BY DEF Init, NoOp
<1>2. ~BeforeMarker /\ ~UnderMarker /\ ~Marked /\ ~AtFile
  BY <1>1 DEF BeforeMarker, UnderMarker, RollbackSteps, Marked, AtFile
<1>3. QED BY <1>1, <1>2, InitIInv DEF Init, AllInv, TraceInv, ImagesInv, SeenInv, Ahead, NewestInv, WhereInv, QuietInv,
        CheckedInv, ReversibleInv, KnownInv, Pending, VerifiedInv

LEMMA OperationStepKeeps == ASSUME AllInv, IInv', OperationStep PROVE AllInv'
<1>1. CASE \/ CheckFails \/ ClassifyFails \/ StageFails \/ CommitFails \/ SwapFails \/ InstallFails
           \/ VerifyFails \/ FinalizeFails \/ RecoverEnds \/ (Cleanup /\ op.kind # "recover")
           \/ (RollbackDone /\ op'.pc # "unmark")
  BY <1>1, FailuresKeep
<1>2. CASE WriteJournal \/ WriteJournalFails \/ MarkUndo \/ MarkUndoFails \/ SelectPending \/ Stage
  BY <1>2, WriteJournalKeeps, WriteJournalFailsKeeps, MarkUndoKeeps, MarkUndoFailsKeeps, SelectPendingKeeps,
     StageKeeps
<1>3. CASE Swap \/ Install \/ CommitDone \/ Finalize \/ (Cleanup /\ op.kind = "recover")
  BY <1>3, SwapKeeps, InstallKeeps, CommitDoneKeeps, FinalizeKeeps, RecoverCleanupKeeps
<1>4. CASE \/ RollbackUnlink \/ RollbackCheckAbsent \/ RollbackRestore \/ Unmark
           \/ (RollbackDone /\ op'.pc = "unmark")
  BY <1>4, RollbackUnlinkKeeps, RollbackCheckAbsentKeeps, RollbackRestoreKeeps, UnmarkKeeps, RollbackDoneKeeps
<1>5. ASSUME NEW p \in Paths,
             \/ CheckFile(p) \/ ClassifyFile(p) \/ CommitInspect(p) \/ VerifyFile(p)
             \/ RollbackFile(p) \/ RollbackFileFails(p)
      PROVE  AllInv'
  BY <1>5, CheckFileKeeps, ClassifyFileKeeps, CommitInspectKeeps, VerifyFileKeeps, RollbackFileKeeps,
     RollbackFileFailsKeeps
<1>6. QED BY <1>1, <1>2, <1>3, <1>4, <1>5 DEF OperationStep

LEMMA AllInvHolds == Spec => []AllInv
<1>1. AllInv /\ IInv' /\ [Next]_vars => AllInv'
  <2> SUFFICES ASSUME AllInv, IInv', [Next]_vars PROVE AllInv'
    OBVIOUS
  <2>1. CASE OperationStep
    BY <2>1, OperationStepKeeps
  <2>2. CASE Prepare
    BY <2>2, SameOperation DEF Prepare, bounds, OnlySets
  <2>3. CASE Abort
    <3>1. OnlySets({"aborted"})
      BY <2>3 DEF Abort, OnlySets, OpFields, AllInv, TraceInv, IInv, TypeOK, Operation
    <3>2. QED BY <2>3, <3>1, SameOperation DEF Abort, bounds
  <2>4. CASE RecoverBegin \/ CrashAndRestart
    BY <2>4, NothingInMemory DEF RecoverBegin, CrashAndRestart, bounds, NoOp
  <2>5. ASSUME NEW a \in prepared, ApplyBegin(a) PROVE AllInv'
    BY <2>5, ApplyBeginKeeps
  <2>6. CASE UndoBegin
    BY <2>6, UndoBeginKeeps
  <2>7. ASSUME NEW p \in Paths, ExternalEdit(p) PROVE AllInv'
    BY <2>7, ExternalEditKeeps
  <2>8. CASE UNCHANGED vars
    BY <2>8, SameOperation DEF vars, OnlySets
  <2>9. QED BY <2>1, <2>2, <2>3, <2>4, <2>5, <2>6, <2>7, <2>8 DEF Next
<1>2. QED BY InitAll, IInvHolds, <1>1, PTL DEF Spec

\* Recovery accepts every file of a pending journal, however many processes
\* died or calls failed before (the classification in recoverPending, mutation.ts).
THEOREM RecoveryIsNeverRefused == Spec => []RecoveryNeverRefused
<1>1. AllInv => RecoveryNeverRefused
  BY DEF AllInv, QuietInv, KnownInv, Known, RecoveryNeverRefused, KnownImage, Changed
<1>2. QED BY AllInvHolds, <1>1, PTL

\* A file the service replaces or drops holds an image some journal records,
\* unless another program wrote it after the last look (commitPlans, mutation.ts).
THEOREM NoUnseenEditIsDropped == Spec => NeverDropsUnseenEdit
<1> DEFINE Safe == \A p \in Paths \ raced : ServiceStep =>
                     /\ disk'[p] # disk[p] => Recorded(p, disk[p])
                     /\ op.pc = "cleanup" => Recorded(p, op.backup[p])
<1>1. AllInv /\ [Next]_vars => Safe
  <2> SUFFICES ASSUME AllInv, [Next]_vars, NEW p \in Paths \ raced, edits' = edits
               PROVE  /\ disk'[p] # disk[p] => Recorded(p, disk[p])
                      /\ op.pc = "cleanup" => Recorded(p, op.backup[p])
    BY DEF ServiceStep
  <2> USE DEF AllInv, TraceInv
  <2>1. ASSUME disk'[p] # disk[p] PROVE Recorded(p, disk[p])
    <3>1. /\ Swap \/ Install \/ RollbackUnlink \/ RollbackRestore
          /\ p = op.cur
      BY <2>1, OnlyRenamesWrite DEF IInv
    <3>2. AtFile /\ Marked /\ op.cur \in Changed(entry[op.jid])
      BY <3>1, AtFileUnderMarker DEF AtFile, Swap, Install, RollbackUnlink, RollbackRestore, IInv, Marked,
         UnderMarker, RollbackSteps
    <3>3. disk[p] \in {Absent, op.from[p], op.to[p]}
      BY <3>1, <3>2 DEF SeenInv, AtFile, Swap, Install, RollbackUnlink, RollbackRestore
    <3>4. QED BY <3>1, <3>2, <3>3 DEF ImagesInv, Recorded, IInv, OpInv, StepsOfKind, AtFile
  <2>2. ASSUME op.pc = "cleanup" PROVE Recorded(p, op.backup[p])
    <3>1. Marked /\ op.backup[p] \in {Absent, op.from[p]}
      BY <2>2 DEF SeenInv, Ahead, Marked
    <3>2. QED BY <2>2, <3>1 DEF ImagesInv, Recorded, IInv, OpInv, StepsOfKind
  <2>3. QED BY <2>1, <2>2
<1>2. QED BY AllInvHolds, <1>1, PTL DEF Spec, NeverDropsUnseenEdit

-----------------------------------------------------------------------------
(* The service implements AtomicWorkspace when nobody else edits: an apply  *)
(* or undo happens when its journal leaves the pending state, and every     *)
(* other step leaves the logical files, log and actions as they are.        *)

IsPending(mark) == mark \in {"pending", "undoPending"}

\* LogicalImage over given files and journals, to speak of it before and after a step.
Laid(d, s, e, p) ==
  LET open == {j \in Jids : IsPending(s[j]) /\ p \in Changed(e[j])}
  IN IF open = {} THEN d[p]
     ELSE LET j == CHOOSE k \in open : TRUE
          IN IF s[j] = "pending" THEN e[j].before[p] ELSE e[j].after[p]

LEMMA LogicalIsLaid ==
  ASSUME NEW p
  PROVE  LogicalImage(p) = Laid(disk, status, entry, p) /\ LogicalImage(p)' = Laid(disk', status', entry', p)
BY DEF LogicalImage, Laid, Pending, IsPending, Changed

LEMMA LaidOnDisk ==
  ASSUME NEW d, NEW s, NEW e, NEW p, \A j \in Jids : IsPending(s[j]) => p \notin Changed(e[j])
  PROVE  Laid(d, s, e, p) = d[p]
BY DEF Laid

LEMMA LaidInJournal ==
  ASSUME NEW d, NEW s, NEW e, NEW p, NEW j \in Jids, IsPending(s[j]), p \in Changed(e[j]),
         \A k \in Jids : IsPending(s[k]) => k = j
  PROVE  Laid(d, s, e, p) = IF s[j] = "pending" THEN e[j].before[p] ELSE e[j].after[p]
<1> DEFINE open == {k \in Jids : IsPending(s[k]) /\ p \in Changed(e[k])}
<1>1. open = {j}
  OBVIOUS
<1>2. (CHOOSE k \in open : TRUE) = j
  BY <1>1
<1>3. QED BY <1>1, <1>2 DEF Laid

LEMMA SameLaid ==
  ASSUME NEW d, NEW f, NEW s, NEW e, NEW p, d[p] = f[p]
  PROVE  Laid(d, s, e, p) = Laid(f, s, e, p)
BY DEF Laid

LogOf(mark) == CASE mark \in {"none", "pending"} -> "free"
                 [] mark \in {"applied", "undoPending"} -> "applied"
                 [] mark = "undone" -> "undone"
ActionOf(s, e, j) == IF s[j] \in {"none", "pending"} THEN NoAction ELSE e[j]

\* The mapped variables do not change.
Unmoved == /\ \A p \in Paths : LogicalImage(p)' = LogicalImage(p)
           /\ \A j \in Jids : LogOf(status'[j]) = LogOf(status[j])
           /\ \A j \in Jids : ActionOf(status', entry', j) = ActionOf(status, entry, j)

LEMMA UnmovedIsStutter == Unmoved => UNCHANGED Abstract!vars
<1> SUFFICES ASSUME Unmoved PROVE UNCHANGED Abstract!vars
  OBVIOUS
<1>1. [p \in Paths |-> LogicalImage(p)]' = [p \in Paths |-> LogicalImage(p)]
  BY DEF Unmoved
<1>2. [j \in Jids |-> LogOf(status[j])]' = [j \in Jids |-> LogOf(status[j])]
  BY DEF Unmoved
<1>3. [j \in Jids |-> ActionOf(status, entry, j)]' = [j \in Jids |-> ActionOf(status, entry, j)]
  BY DEF Unmoved
<1>4. QED BY <1>1, <1>2, <1>3, Zenon DEF Abstract!vars, LogOf, ActionOf

\* The files move under a pending journal.
LEMMA FilesUnderJournal ==
  ASSUME AllInv, [Next]_vars, edits' = edits, UNCHANGED <<status, entry>>
  PROVE  Unmoved
<1>1. ASSUME NEW p \in Paths PROVE LogicalImage(p)' = LogicalImage(p)
  <2>1. CASE disk'[p] = disk[p]
    BY <2>1, LogicalIsLaid, SameLaid
  <2>2. CASE disk'[p] # disk[p]
    <3>1. AtFile /\ p = op.cur
      BY <2>2, OnlyRenamesWrite DEF AllInv, TraceInv
    <3>2. op.jid \in Jids /\ Pending(op.jid) /\ p \in Changed(entry[op.jid])
      BY <3>1, AtFileUnderMarker DEF AllInv, TraceInv, IInv
    <3>3. \A k \in Jids : Pending(k) => k = op.jid
      BY <3>2, OnePending DEF AllInv, TraceInv, IInv
    <3>4. QED BY <3>2, <3>3, LaidInJournal, LogicalIsLaid DEF Pending, IsPending
  <2>3. QED BY <2>1, <2>2
<1>2. QED BY <1>1 DEF Unmoved, ActionOf

\* One journal becomes pending or stops being it, and the files it names have
\* the image the logical workspace shows.
LEMMA MarkerOnly ==
  ASSUME AllInv, IInv', NEW j \in Jids, UNCHANGED disk,
         \A k \in Jids \ {j} : status'[k] = status[k] /\ entry'[k] = entry[k],
         \A k \in Jids \ {j} : ~Pending(k),
         LogOf(status'[j]) = LogOf(status[j]),
         ActionOf(status', entry', j) = ActionOf(status, entry, j),
         Pending(j) => \A p \in Changed(entry[j]) :
                         disk[p] = IF status[j] = "pending" THEN entry[j].before[p] ELSE entry[j].after[p],
         IsPending(status'[j]) => \A p \in Changed(entry'[j]) :
                         disk[p] = IF status'[j] = "pending" THEN entry'[j].before[p] ELSE entry'[j].after[p]
  PROVE  Unmoved
<1>1. ASSUME NEW p \in Paths PROVE LogicalImage(p) = disk[p]
  <2>1. CASE IsPending(status[j]) /\ p \in Changed(entry[j])
    BY <2>1, LaidInJournal, LogicalIsLaid DEF Pending, IsPending
  <2>2. CASE ~(IsPending(status[j]) /\ p \in Changed(entry[j]))
    BY <2>2, LaidOnDisk, LogicalIsLaid DEF Pending, IsPending
  <2>3. QED BY <2>1, <2>2
<1>2. ASSUME NEW p \in Paths PROVE LogicalImage(p)' = disk[p]
  <2>0. \A k \in Jids : IsPending(status'[k]) => k = j
    BY DEF Pending, IsPending
  <2>1. CASE IsPending(status'[j]) /\ p \in Changed(entry'[j])
    <3>1. Laid(disk', status', entry', p) = IF status'[j] = "pending" THEN entry'[j].before[p] ELSE entry'[j].after[p]
      BY <2>0, <2>1, LaidInJournal
    <3>2. QED BY <2>1, <3>1, LogicalIsLaid
  <2>2. CASE ~(IsPending(status'[j]) /\ p \in Changed(entry'[j]))
    <3>1. Laid(disk', status', entry', p) = disk'[p]
      BY <2>0, <2>2, LaidOnDisk
    <3>2. QED BY <3>1, LogicalIsLaid
  <2>3. QED BY <2>1, <2>2
<1>3. ASSUME NEW k \in Jids
      PROVE  LogOf(status'[k]) = LogOf(status[k]) /\ ActionOf(status', entry', k) = ActionOf(status, entry, k)
  <2>1. CASE k = j
    BY <2>1
  <2>2. CASE k # j
    BY <2>2 DEF ActionOf
  <2>3. QED BY <2>1, <2>2
<1>4. QED BY <1>1, <1>2, <1>3 DEF Unmoved

LEMMA NewJournalStutters ==
  ASSUME AllInv, IInv', edits = 0, WriteJournal \/ WriteJournalFails
  PROVE  Unmoved
<1>1. op.kind = "apply" /\ op.pc = "journal" /\ ~PendingExists /\ edits' = edits /\ UNCHANGED disk
  BY DEF WriteJournal, WriteJournalFails, At, bounds, AllInv, TraceInv, IInv, OpInv, BeforeMarker, BeforeInv
<1>2. \A p \in Files : disk[p] = op.from[p]
  BY <1>1 DEF AllInv, QuietInv, CheckedInv, BeforeMarker, Unseen
<1>3. CASE UNCHANGED <<status, entry>>
  BY <1>1, <1>3, LogicalIsLaid, SameLaid DEF Unmoved, ActionOf
<1>4. ASSUME NEW j \in Jids, IsNext(j), status' = [status EXCEPT ![j] = "pending"],
             entry' = [entry EXCEPT ![j] = [before |-> op.from, after |-> op.to]]
      PROVE  Unmoved
  <2>1. /\ status'[j] = "pending" /\ entry'[j].before = op.from /\ entry'[j].after = op.to
        /\ \A k \in Jids \ {j} : status'[k] = status[k] /\ entry'[k] = entry[k]
    BY <1>4 DEF AllInv, TraceInv, IInv, TypeOK
  <2>2. status[j] = "none" /\ \A k \in Jids : ~Pending(k)
    BY <1>1, <1>4 DEF IsNext, PendingExists, Jids
  <2>3. LogOf(status'[j]) = LogOf(status[j]) /\ ActionOf(status', entry', j) = ActionOf(status, entry, j)
    BY <2>1, <2>2 DEF LogOf, ActionOf
  <2>4. \A p \in Changed(entry'[j]) : disk[p] = entry'[j].before[p]
    BY <1>2, <2>1 DEF Files, Changed
  <2>5. QED BY <1>1, <2>1, <2>2, <2>3, <2>4, MarkerOnly
<1>5. QED BY <1>3, <1>4 DEF WriteJournal, WriteJournalFails

LEMMA UndoMarkStutters ==
  ASSUME AllInv, IInv', edits = 0, MarkUndo \/ MarkUndoFails
  PROVE  Unmoved
<1>1. op.kind = "undo" /\ op.pc = "mark" /\ BeforeInv /\ UNCHANGED <<disk, entry, edits>>
  BY DEF MarkUndo, MarkUndoFails, At, bounds, AllInv, TraceInv, IInv, OpInv, BeforeMarker
<1>2. op.from = entry[op.jid].after /\ op.to = entry[op.jid].before
  BY <1>1 DEF AllInv, TraceInv, ImagesInv, BeforeMarker
<1>3. \A p \in Changed(entry[op.jid]) : disk[p] = entry[op.jid].after[p]
  BY <1>1, <1>2 DEF AllInv, QuietInv, CheckedInv, BeforeMarker, Unseen, Files, Changed
<1>4. CASE UNCHANGED status
  BY <1>1, <1>4, LogicalIsLaid, SameLaid DEF Unmoved, ActionOf
<1>5. CASE status' = [status EXCEPT ![op.jid] = "undoPending"]
  <2>1. /\ op.jid \in Jids /\ status[op.jid] = "applied" /\ status'[op.jid] = "undoPending"
        /\ \A k \in Jids \ {op.jid} : status'[k] = status[k]
        /\ \A k \in Jids : ~Pending(k)
    BY <1>1, <1>5 DEF BeforeInv, AllInv, TraceInv, IInv, TypeOK, PendingExists
  <2>2. LogOf(status'[op.jid]) = LogOf(status[op.jid])
        /\ ActionOf(status', entry', op.jid) = ActionOf(status, entry, op.jid)
    BY <1>1, <2>1 DEF LogOf, ActionOf
  <2>3. QED BY <1>1, <1>3, <2>1, <2>2, MarkerOnly
<1>6. QED BY <1>4, <1>5 DEF MarkUndo, MarkUndoFails

LEMMA UnmarkStutters ==
  ASSUME AllInv, IInv', edits = 0, Unmark
  PROVE  Unmoved
<1>1. /\ op.pc = "unmark" /\ op.kind \in {"apply", "undo"} /\ op.todo = {} /\ UNCHANGED <<disk, entry, edits>>
      /\ UnderMarker /\ op.jid \in Jids /\ Pending(op.jid)
  BY DEF Unmark, AllInv, TraceInv, WhereInv, IInv, OpInv, StepsOfKind, UnderMarker, UnderInv
<1>2. \A p \in Changed(entry[op.jid]) : disk[p] = op.from[p]
  BY <1>1 DEF AllInv, QuietInv, ReversibleInv, Taken, RollbackSteps
<1>3. CASE UNCHANGED status
  BY <1>1, <1>3, LogicalIsLaid, SameLaid DEF Unmoved, ActionOf
<1>4. CASE status' = [status EXCEPT ![op.jid] = IF op.kind = "apply" THEN "none" ELSE "applied"]
  <2>1. /\ status'[op.jid] = IF op.kind = "apply" THEN "none" ELSE "applied"
        /\ \A k \in Jids \ {op.jid} : status'[k] = status[k] /\ ~Pending(k)
    BY <1>1, <1>4, OnePending DEF AllInv, TraceInv, IInv, TypeOK
  <2>2. status[op.jid] = IF op.kind = "apply" THEN "pending" ELSE "undoPending"
    BY <1>1 DEF AllInv, WhereInv
  <2>3. LogOf(status'[op.jid]) = LogOf(status[op.jid])
        /\ ActionOf(status', entry', op.jid) = ActionOf(status, entry, op.jid)
    BY <1>1, <2>1, <2>2 DEF LogOf, ActionOf
  <2>4. \A p \in Changed(entry[op.jid]) :
           disk[p] = IF status[op.jid] = "pending" THEN entry[op.jid].before[p] ELSE entry[op.jid].after[p]
    BY <1>1, <1>2, <2>2 DEF AllInv, TraceInv, ImagesInv, Marked
  <2>5. QED BY <1>1, <2>1, <2>2, <2>3, <2>4, MarkerOnly DEF IsPending
<1>5. QED BY <1>3, <1>4 DEF Unmark

\* Recovery takes the marker of an unfinished apply away, and the files are as before it.
LEMMA FinalizeImages ==
  ASSUME AllInv, edits = 0, Finalize
  PROVE  /\ UNCHANGED <<disk, entry, edits>> /\ op.jid \in Jids /\ Pending(op.jid)
         /\ \A p \in Changed(entry[op.jid]) : disk[p] = op.to[p]
         /\ \A k \in Jids \ {op.jid} : status'[k] = status[k] /\ ~Pending(k)
         /\ \/ op.kind = "apply" /\ status[op.jid] = "pending" /\ status'[op.jid] = "applied"
               /\ op.to = entry[op.jid].after
            \/ /\ op.kind \in {"undo", "recover"} /\ op.to = entry[op.jid].before
               /\ \/ status[op.jid] = "undoPending" /\ status'[op.jid] = "undone"
                  \/ status[op.jid] = "pending" /\ status'[op.jid] = "none"
<1>1. op.pc = "finalize" /\ UnderMarker /\ Marked /\ UnderInv /\ op.kind \in {"apply", "undo", "recover"}
      /\ UNCHANGED <<disk, entry, edits>>
  BY DEF Finalize, bounds, AllInv, TraceInv, IInv, OpInv, StepsOfKind, UnderMarker, Marked
<1>2. op.jid \in Jids /\ Pending(op.jid) /\ \A k \in Jids \ {op.jid} : ~Pending(k)
  BY <1>1, OnePending DEF UnderInv, AllInv, TraceInv, IInv
<1>3. \A p \in Changed(entry[op.jid]) : disk[p] = op.to[p]
  BY <1>1 DEF AllInv, QuietInv, VerifiedInv, Unseen
<1>4. /\ \A k \in Jids \ {op.jid} : status'[k] = status[k]
      /\ status'[op.jid] = CASE op.kind = "apply" -> "applied"
                             [] op.kind = "undo"  -> "undone"
                             [] OTHER -> IF status[op.jid] = "undoPending" THEN "undone" ELSE "none"
  BY <1>2 DEF Finalize, AllInv, TraceInv, IInv, TypeOK
<1>5. QED BY <1>1, <1>2, <1>3, <1>4 DEF AllInv, TraceInv, WhereInv, ImagesInv, Pending

\* The images of the other files, and of those of the journal that closes.
LEMMA ClosedImages ==
  ASSUME AllInv, NEW j \in Jids, Pending(j), UNCHANGED disk, entry' = entry,
         \A k \in Jids \ {j} : status'[k] = status[k] /\ ~Pending(k), ~IsPending(status'[j]),
         NEW p \in Paths
  PROVE  /\ LogicalImage(p)' = disk[p]
         /\ LogicalImage(p) = IF p \in Changed(entry[j])
                              THEN IF status[j] = "pending" THEN entry[j].before[p] ELSE entry[j].after[p]
                              ELSE disk[p]
<1>1. Laid(disk', status', entry', p) = disk'[p]
  BY LaidOnDisk DEF Pending, IsPending
<1>2. CASE p \in Changed(entry[j])
  BY <1>1, <1>2, LaidInJournal, LogicalIsLaid DEF Pending, IsPending
<1>3. CASE p \notin Changed(entry[j])
  BY <1>1, <1>3, LaidOnDisk, LogicalIsLaid DEF Pending, IsPending
<1>4. QED BY <1>2, <1>3

LEMMA FinalizeRefines ==
  ASSUME AllInv, IInv', edits = 0, Finalize
  PROVE  [Abstract!Next]_(Abstract!vars)
<1>0. PICK j \in Jids : j = op.jid
  BY FinalizeImages
<1>1. /\ UNCHANGED <<disk, entry, edits>> /\ j \in Jids /\ Pending(j)
      /\ \A p \in Changed(entry[j]) : disk[p] = op.to[p]
      /\ \A k \in Jids \ {j} : status'[k] = status[k] /\ ~Pending(k)
      /\ \/ op.kind = "apply" /\ status[j] = "pending" /\ status'[j] = "applied" /\ op.to = entry[j].after
         \/ /\ op.kind \in {"undo", "recover"} /\ op.to = entry[j].before
            /\ \/ status[j] = "undoPending" /\ status'[j] = "undone"
               \/ status[j] = "pending" /\ status'[j] = "none"
  BY <1>0, FinalizeImages
<1>2. ASSUME NEW p \in Paths
      PROVE  /\ LogicalImage(p)' = disk[p]
             /\ LogicalImage(p) = IF p \in Changed(entry[j])
                                  THEN IF status[j] = "pending" THEN entry[j].before[p] ELSE entry[j].after[p]
                                  ELSE disk[p]
  BY <1>1, ClosedImages DEF IsPending
<1>3. entry[j] \in Action /\ \A k \in Jids : status[k] \in Statuses
  BY <1>1 DEF AllInv, TraceInv, IInv, TypeOK
<1>4. /\ \A k \in Jids : k > j => status[k] \in {"none", "undone"}
      /\ status[j] = "pending" => \A k \in Jids : k > j => status[k] = "none"
  BY <1>1 DEF AllInv, TraceInv, IInv, PendingIsLatest, NewestInv
<1> DEFINE files == [p \in Paths |-> LogicalImage(p)]
           log == [k \in Jids |-> CASE status[k] \in {"none", "pending"} -> "free"
                                    [] status[k] \in {"applied", "undoPending"} -> "applied"
                                    [] status[k] = "undone" -> "undone"]
           action == [k \in Jids |-> IF status[k] \in {"none", "pending"} THEN NoAction ELSE entry[k]]
<1>5. CASE status[j] = "pending" /\ status'[j] = "applied" /\ op.to = entry[j].after
  <2>1. \A k \in Jids : k >= j => log[k] = "free"
    BY <1>1, <1>4, <1>5 DEF Jids
  <2>2. log' = [log EXCEPT ![j] = "applied"]
    <3>1. log' = [k \in Jids |-> LogOf(status'[k])] /\ log = [k \in Jids |-> LogOf(status[k])]
      BY Zenon DEF LogOf
    <3>2. LogOf(status'[j]) = "applied"
      BY <1>5 DEF LogOf
    <3>3. \A k \in Jids \ {j} : LogOf(status'[k]) = LogOf(status[k])
      BY <1>1
    <3> HIDE DEF log
    <3>4. QED BY <1>1, <3>1, <3>2, <3>3
  <2>3. action' = [action EXCEPT ![j] = entry[j]]
    BY <1>1, <1>5
  <2>4. \A p \in Changed(entry[j]) : files[p] = entry[j].before[p]
    BY <1>2, <1>5 DEF Changed
  <2>5. files' = [p \in Paths |-> IF p \in Changed(entry[j]) THEN entry[j].after[p] ELSE files[p]]
    BY <1>1, <1>2, <1>5
  <2>6. Abstract!Apply(j)
    BY <1>3, <2>1, <2>2, <2>3, <2>4, <2>5 DEF Abstract!Apply, Abstract!Fresh, Abstract!Agrees, Abstract!Overlay,
       Abstract!Changed, Abstract!Action, Abstract!Img, Abstract!Jids, Jids, Changed, Action, Img
  <2>7. Abstract!Next
    BY <1>1, <2>6 DEF Abstract!Next, Abstract!Jids, Jids
  <2>8. QED BY <2>7
<1>6. CASE status[j] = "undoPending" /\ status'[j] = "undone" /\ op.to = entry[j].before
  <2>1. log[j] = "applied" /\ \A k \in Jids : k > j => log[k] # "applied"
    BY <1>1, <1>4, <1>6 DEF Jids
  <2>2. log' = [log EXCEPT ![j] = "undone"]
    <3>1. log' = [k \in Jids |-> LogOf(status'[k])] /\ log = [k \in Jids |-> LogOf(status[k])]
      BY Zenon DEF LogOf
    <3>2. LogOf(status'[j]) = "undone"
      BY <1>6 DEF LogOf
    <3>3. \A k \in Jids \ {j} : LogOf(status'[k]) = LogOf(status[k])
      BY <1>1
    <3> HIDE DEF log
    <3>4. QED BY <1>1, <3>1, <3>2, <3>3
  <2>3. action' = action /\ action[j] = entry[j]
    BY <1>1, <1>6
  <2>4. \A p \in Changed(entry[j]) : files[p] = entry[j].after[p]
    BY <1>2, <1>6 DEF Changed
  <2>5. files' = [p \in Paths |-> IF p \in Changed(entry[j]) THEN entry[j].before[p] ELSE files[p]]
    BY <1>1, <1>2, <1>6
  <2>6. Abstract!Undo(j)
    BY <2>1, <2>2, <2>3, <2>4, <2>5 DEF Abstract!Undo, Abstract!Newest, Abstract!Agrees, Abstract!Overlay,
       Abstract!Changed, Abstract!Jids, Jids, Changed
  <2>7. Abstract!Next
    BY <1>1, <2>6 DEF Abstract!Next, Abstract!Jids, Jids
  <2>8. QED BY <2>7
<1>7. CASE status[j] = "pending" /\ status'[j] = "none" /\ op.to = entry[j].before
  <2>1. \A p \in Changed(entry[j]) : disk[p] = entry[j].before[p]
    BY <1>1, <1>7
  <2>2. LogOf(status'[j]) = LogOf(status[j]) /\ ActionOf(status', entry', j) = ActionOf(status, entry, j)
    BY <1>1, <1>7 DEF LogOf, ActionOf
  <2>3. Unmoved
    BY <1>1, <1>7, <2>1, <2>2, MarkerOnly DEF IsPending
  <2>4. QED BY <2>3, UnmovedIsStutter
<1>8. QED BY <1>1, <1>5, <1>6, <1>7

LEMMA InitRefines == Init => Abstract!Init
<1> SUFFICES ASSUME Init PROVE Abstract!Init
  OBVIOUS
<1>1. \A p \in Paths : LogicalImage(p) = disk[p]
  BY LaidOnDisk, LogicalIsLaid DEF Init, IsPending
<1>2. QED BY <1>1 DEF Init, Abstract!Init, Abstract!Jids, Jids, Abstract!Img, Img, Abstract!NoAction, NoAction,
        Abstract!NoImages, NoImages

\* The service keeps its promise of all-or-nothing changes and newest-first
\* undo, whatever fails or dies, when nobody else edits the workspace
\* (the apply, undoLast and recoverPending operations of mutation.ts).
THEOREM ServiceImplementsAtomicWorkspace ==
  ASSUME MaxEdits = 0
  PROVE  Spec => ImplementsAtomicWorkspace
<1>1. AllInv /\ AllInv' /\ [Next]_vars => [Abstract!Next]_(Abstract!vars)
  <2> SUFFICES ASSUME AllInv, AllInv', [Next]_vars PROVE [Abstract!Next]_(Abstract!vars)
    OBVIOUS
  <2>1. edits = 0 /\ edits' = edits /\ IInv'
    BY BoundsAssumption DEF AllInv, TraceInv, IInv, TypeOK
  <2>2. CASE UNCHANGED <<status, entry>>
    BY <2>1, <2>2, FilesUnderJournal, UnmovedIsStutter
  <2>3. CASE WriteJournal \/ WriteJournalFails \/ MarkUndo \/ MarkUndoFails \/ Unmark
    BY <2>1, <2>3, NewJournalStutters, UndoMarkStutters, UnmarkStutters, UnmovedIsStutter
  <2>4. CASE Finalize
    BY <2>1, <2>4, FinalizeRefines
  <2>5. UNCHANGED <<status, entry>> \/ WriteJournal \/ WriteJournalFails \/ MarkUndo \/ MarkUndoFails \/ Unmark
        \/ Finalize
    <3>1. CASE ~OperationStep
      BY <3>1 DEF Next, Prepare, UndoBegin, RecoverBegin, Abort, CrashAndRestart, ApplyBegin, ExternalEdit, vars
    <3>2. CASE OperationStep
      BY <3>2 DEF OperationStep, CheckFails, SelectPending, RecoverEnds, ClassifyFails, Stage, StageFails,
         CommitFails, Swap, SwapFails, Install, InstallFails, CommitDone, VerifyFails, FinalizeFails, Cleanup,
         RollbackUnlink, RollbackCheckAbsent, RollbackRestore, RollbackDone, CheckFile, ClassifyFile,
         CommitInspect, VerifyFile, RollbackFile, RollbackFileFails
    <3>3. QED BY <3>1, <3>2
  <2>6. QED BY <2>2, <2>3, <2>4, <2>5
<1>2. QED BY AllInvHolds, InitRefines, <1>1, PTL DEF Spec, ImplementsAtomicWorkspace, Abstract!Spec

-----------------------------------------------------------------------------
(* Newest-first undo is never refused.  AlwaysUndoable alone is not         *)
(* inductive: once the newest action is undone, the files must agree with   *)
(* the one below.  The invariant says so of every file: the last applied    *)
(* action that changed it left the image it has, and each action found the  *)
(* image its predecessor on that file left.                                 *)

Shown == [p \in Paths |-> LogicalImage(p)]
Logged == [j \in Jids |-> LogOf(status[j])]
Done == [j \in Jids |-> ActionOf(status, entry, j)]

\* Action j is applied and changed file p.
On(j, p) == Logged[j] = "applied" /\ p \in Changed(Done[j])

\* No applied action with a number in S changed p.
Untouched(S, p) == \A k \in S : ~On(k, p)

Chain ==
  /\ \A j \in Jids, p \in Paths :
       On(j, p) /\ Untouched({k \in Jids : k > j}, p) => Shown[p] = Done[j].after[p]
  /\ \A j, k \in Jids, p \in Paths :
       On(j, p) /\ On(k, p) /\ j < k /\ Untouched({i \in Jids : j < i /\ i < k}, p) =>
         Done[k].before[p] = Done[j].after[p]

\* The variables of the abstract workspace, by name.
LEMMA MappedVariables ==
  /\ Abstract!vars = <<Shown, Logged, Done>>
  /\ Abstract!Init => /\ Shown \in [Paths -> Img] /\ Logged = [j \in Jids |-> "free"]
                      /\ Done = [j \in Jids |-> NoAction]
  /\ Abstract!AlwaysUndoable <=>
       \A j \in Jids : Logged[j] = "applied" /\ (\A k \in Jids : k > j => Logged[k] # "applied") =>
         \A p \in Changed(Done[j]) : Shown[p] = Done[j].after[p]
<1> USE DEF Shown, Logged, Done
<1>1. Abstract!vars = <<Shown, Logged, Done>>
  BY Zenon DEF Abstract!vars, LogOf, ActionOf
<1>2. Abstract!Init => /\ Shown \in [Paths -> Img] /\ Logged = [j \in Jids |-> "free"]
                       /\ Done = [j \in Jids |-> NoAction]
  BY Zenon DEF Abstract!Init, LogOf, ActionOf, Abstract!Jids, Jids, Abstract!Img, Img, Abstract!NoAction, NoAction,
     Abstract!NoImages, NoImages
<1>3. Abstract!AlwaysUndoable <=>
        \A j \in Jids : Logged[j] = "applied" /\ (\A k \in Jids : k > j => Logged[k] # "applied") =>
          \A p \in Changed(Done[j]) : Shown[p] = Done[j].after[p]
  BY Zenon DEF Abstract!AlwaysUndoable, LogOf, ActionOf, Abstract!Jids, Jids, Abstract!Agrees, Abstract!Changed, Changed
<1>4. QED BY <1>1, <1>2, <1>3

MappedTypes == /\ Shown \in [Paths -> Img]
               /\ Logged \in [Jids -> {"free", "applied", "undone"}]
               /\ Done \in [Jids -> Action]

ChainInv == MappedTypes /\ Chain

LEMMA ApplyMeans ==
  ASSUME NEW j \in Jids, Abstract!Apply(j)
  PROVE  \E a \in Action :
           /\ Done' = [Done EXCEPT ![j] = a]
           /\ \A p \in Changed(a) : Shown[p] = a.before[p]
           /\ Shown' = [p \in Paths |-> IF p \in Changed(a) THEN a.after[p] ELSE Shown[p]]
           /\ Logged' = [Logged EXCEPT ![j] = "applied"]
           /\ \A k \in Jids : k >= j => Logged[k] = "free"
BY Zenon DEF Shown, Logged, Done, LogOf, ActionOf, Abstract!Apply, Abstract!Fresh, Abstract!Agrees,
   Abstract!Overlay, Abstract!Changed, Changed, Abstract!Action, Action, Abstract!Img, Img, Abstract!Jids, Jids

LEMMA UndoMeans ==
  ASSUME NEW j \in Jids, Abstract!Undo(j)
  PROVE  /\ Logged' = [Logged EXCEPT ![j] = "undone"] /\ Done' = Done
         /\ Shown' = [p \in Paths |-> IF p \in Changed(Done[j]) THEN Done[j].before[p] ELSE Shown[p]]
         /\ Logged[j] = "applied" /\ \A k \in Jids : k > j => Logged[k] # "applied"
BY Zenon DEF Shown, Logged, Done, LogOf, ActionOf, Abstract!Undo, Abstract!Newest, Abstract!Overlay,
   Abstract!Changed, Changed, Abstract!Jids, Jids

LEMMA ApplyKeepsChain ==
  ASSUME ChainInv, NEW j \in Jids, Abstract!Apply(j)
  PROVE  ChainInv'
<1>1. PICK a \in Action :
        /\ Done' = [Done EXCEPT ![j] = a]
        /\ \A p \in Changed(a) : Shown[p] = a.before[p]
        /\ Shown' = [p \in Paths |-> IF p \in Changed(a) THEN a.after[p] ELSE Shown[p]]
        /\ Logged' = [Logged EXCEPT ![j] = "applied"]
        /\ \A k \in Jids : k >= j => Logged[k] = "free"
  BY ApplyMeans
<1>3. MappedTypes'
  BY <1>1 DEF ChainInv, MappedTypes, Action, Changed
<1>4. /\ \A i \in Jids : i # j => Done'[i] = Done[i] /\ Logged'[i] = Logged[i]
      /\ Done'[j] = a /\ Logged'[j] = "applied"
      /\ \A i \in Jids : i >= j => Logged[i] = "free"
  BY <1>1 DEF ChainInv, MappedTypes
<1>5. ASSUME NEW i \in Jids, NEW p \in Paths
      PROVE  On(i, p)' <=> (i = j /\ p \in Changed(a)) \/ (i < j /\ On(i, p))
  BY <1>4 DEF On, Jids
<1>6. \A p \in Paths : Shown'[p] = IF p \in Changed(a) THEN a.after[p] ELSE Shown[p]
  BY <1>1
<1>7. ASSUME NEW i \in Jids, NEW p \in Paths,
             On(i, p)', Untouched({k \in Jids : k > i}, p)'
      PROVE  Shown'[p] = Done'[i].after[p]
  <2>1. CASE i = j
    BY <2>1, <1>4, <1>5, <1>6, <1>7 DEF Jids
  <2>2. CASE i < j
    <3>1. p \notin Changed(a)
      BY <2>2, <1>5, <1>7 DEF Untouched
    <3>2. On(i, p) /\ Untouched({k \in Jids : k > i}, p)
      BY <2>2, <1>4, <1>5, <1>7 DEF Untouched, On, Jids
    <3>3. QED BY <2>2, <3>1, <3>2, <1>4, <1>6 DEF ChainInv, Chain, Jids
  <2>3. QED BY <2>1, <2>2, <1>5, <1>7 DEF Jids
<1>8. ASSUME NEW i \in Jids, NEW k \in Jids, NEW p \in Paths,
             On(i, p)', On(k, p)', i < k, Untouched({n \in Jids : i < n /\ n < k}, p)'
      PROVE  Done'[k].before[p] = Done'[i].after[p]
  <2>0. i < j /\ On(i, p)
    BY <1>5, <1>8 DEF Jids
  <2>1. CASE k = j
    <3>1. Untouched({n \in Jids : n > i}, p)
      BY <2>1, <1>4, <1>5, <1>8 DEF Untouched, On, Jids
    <3>2. Shown[p] = Done[i].after[p]
      BY <2>0, <3>1 DEF ChainInv, Chain
    <3>3. p \in Changed(a)
      BY <2>1, <1>5, <1>8 DEF Jids
    <3>4. QED BY <2>0, <2>1, <3>2, <3>3, <1>1, <1>4 DEF Jids
  <2>2. CASE k < j
    <3>1. On(k, p) /\ Untouched({n \in Jids : i < n /\ n < k}, p)
      BY <2>2, <1>5, <1>8 DEF Untouched, Jids
    <3>2. QED BY <2>0, <2>2, <3>1, <1>4, <1>8 DEF ChainInv, Chain, Jids
  <2>3. QED BY <2>1, <2>2, <1>5, <1>8 DEF Jids
<1>9. QED BY <1>3, <1>7, <1>8 DEF ChainInv, Chain

LEMMA UndoKeepsChain ==
  ASSUME ChainInv, NEW j \in Jids, Abstract!Undo(j)
  PROVE  ChainInv'
<1>1. /\ Logged' = [Logged EXCEPT ![j] = "undone"] /\ Done' = Done
      /\ Shown' = [p \in Paths |-> IF p \in Changed(Done[j]) THEN Done[j].before[p] ELSE Shown[p]]
      /\ Logged[j] = "applied" /\ \A k \in Jids : k > j => Logged[k] # "applied"
  BY UndoMeans
<1>2. MappedTypes'
  BY <1>1 DEF ChainInv, MappedTypes, Action, Changed
<1>3. ASSUME NEW i \in Jids, NEW p \in Paths
      PROVE  On(i, p)' <=> i < j /\ On(i, p)
  BY <1>1 DEF ChainInv, MappedTypes, On, Jids
<1>4. \A p \in Paths : Shown'[p] = IF p \in Changed(Done[j]) THEN Done[j].before[p] ELSE Shown[p]
  BY <1>1
<1>5. ASSUME NEW i \in Jids, NEW p \in Paths,
             On(i, p)', Untouched({k \in Jids : k > i}, p)'
      PROVE  Shown'[p] = Done'[i].after[p]
  <2>0. i < j /\ On(i, p) /\ Untouched({k \in Jids : i < k /\ k < j}, p)
    BY <1>3, <1>5 DEF Untouched
  <2>1. CASE p \in Changed(Done[j])
    <3>1. On(j, p)
      BY <2>1, <1>1 DEF On
    <3>2. Done[j].before[p] = Done[i].after[p]
      BY <2>0, <3>1 DEF ChainInv, Chain
    <3>3. QED BY <2>1, <3>2, <1>1, <1>4
  <2>2. CASE p \notin Changed(Done[j])
    <3>1. Untouched({k \in Jids : k > i}, p)
      BY <2>0, <2>2, <1>1 DEF Untouched, On, Jids
    <3>2. Shown[p] = Done[i].after[p]
      BY <2>0, <3>1 DEF ChainInv, Chain
    <3>3. QED BY <2>2, <3>2, <1>1, <1>4
  <2>3. QED BY <2>1, <2>2
<1>6. ASSUME NEW i \in Jids, NEW k \in Jids, NEW p \in Paths,
             On(i, p)', On(k, p)', i < k, Untouched({n \in Jids : i < n /\ n < k}, p)'
      PROVE  Done'[k].before[p] = Done'[i].after[p]
  <2>1. On(i, p) /\ On(k, p) /\ k < j
    BY <1>3, <1>6
  <2>2. Untouched({n \in Jids : i < n /\ n < k}, p)
    BY <2>1, <1>3, <1>6 DEF Untouched, Jids
  <2>3. QED BY <2>1, <2>2, <1>1, <1>6 DEF ChainInv, Chain
<1>7. QED BY <1>2, <1>5, <1>6 DEF ChainInv, Chain

LEMMA ChainHolds == Abstract!Spec => []ChainInv
<1>1. Abstract!Init => ChainInv
  <2> SUFFICES ASSUME Abstract!Init PROVE ChainInv
    OBVIOUS
  <2>1. /\ Shown \in [Paths -> Img] /\ Logged = [j \in Jids |-> "free"]
        /\ Done = [j \in Jids |-> NoAction]
    BY MappedVariables
  <2>2. NoAction \in Action
    BY DEF NoAction, Action, NoImages, Img
  <2>3. QED BY <2>1, <2>2 DEF ChainInv, MappedTypes, Chain, On
<1>2. ChainInv /\ [Abstract!Next]_(Abstract!vars) => ChainInv'
  <2> SUFFICES ASSUME ChainInv, [Abstract!Next]_(Abstract!vars) PROVE ChainInv'
    OBVIOUS
  <2>1. CASE Abstract!Next
    <3>1. PICK j \in Jids : Abstract!Apply(j) \/ Abstract!Undo(j)
      BY <2>1 DEF Abstract!Next, Abstract!Jids, Jids
    <3>2. QED BY <3>1, ApplyKeepsChain, UndoKeepsChain
  <2>2. CASE UNCHANGED Abstract!vars
    <3>1. UNCHANGED <<Shown, Logged, Done>>
      BY <2>2, Zenon DEF Abstract!vars, LogOf, ActionOf, Shown, Logged, Done
    <3>2. QED BY <3>1 DEF ChainInv, MappedTypes, Chain, On, Untouched
  <2>3. QED BY <2>1, <2>2
<1>3. QED BY <1>1, <1>2, PTL DEF Abstract!Spec

\* In the abstract workspace the newest applied action can always be undone,
\* whatever sequence of applies and undos came before: the log of actions the
\* service promises is undone newest first without a conflict (undoLast, mutation.ts).
THEOREM UndoNeverRefused == Abstract!Spec => []Abstract!AlwaysUndoable
<1>1. ChainInv => Abstract!AlwaysUndoable
  <2> SUFFICES ASSUME ChainInv, NEW j \in Jids, Logged[j] = "applied",
                      \A k \in Jids : k > j => Logged[k] # "applied",
                      NEW p \in Changed(Done[j])
               PROVE  Shown[p] = Done[j].after[p]
    BY MappedVariables
  <2>1. p \in Paths /\ On(j, p) /\ Untouched({k \in Jids : k > j}, p)
    BY DEF On, Untouched, Changed
  <2>2. QED BY <2>1 DEF ChainInv, Chain
<1>2. QED BY ChainHolds, <1>1, PTL

\* The service itself never answers UNDO_CONFLICT to an undo of its newest
\* applied action while nobody else edits the workspace: the files that action
\* changed are still as it left them, after any failures, crashes and recoveries.
THEOREM NewestIsUndoable ==
  ASSUME MaxEdits = 0
  PROVE  Spec => []Abstract!AlwaysUndoable
BY ServiceImplementsAtomicWorkspace, UndoNeverRefused, PTL DEF ImplementsAtomicWorkspace
=============================================================================
