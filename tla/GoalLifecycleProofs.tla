------------------------ MODULE GoalLifecycleProofs ------------------------
(***************************************************************************)
(* First about the repository alone (GoalStore), for any runs, plans,      *)
(* token counts and revisions, whoever calls its operations with whichever *)
(* snapshot.  Then about its callers (GoalLifecycle), for any number of    *)
(* runs, mutations, calls and rounds: every step of the host is one        *)
(* operation of the repository or none; while the host is up, no row but   *)
(* that of the active run is running; and what a run did, what its         *)
(* checkpoints followed and what its proof was about agree at its end.     *)
(***************************************************************************)
EXTENDS GoalLifecycle, FiniteSetTheorems, TLAPS

Goals == [status : GoalStatuses \cup {"absent"}, revision : Revisions, usedTokens : Nat]
Rows == [run : Runs, revision : Revisions, planRevision : Nat]

(* A goal that does not exist has no revision, and no checkpoint is ahead  *)
(* of the goal.                                                            *)
AbsentIsNew == goal.status = "absent" => goal.revision = 0
CheckpointsAreBehind == \A j \in DOMAIN checkpoints : checkpoints[j].revision <= goal.revision

IInv == StoreTypeOK /\ AbsentIsNew /\ CheckpointsAreBehind /\ CompletionHasEvidence

LEMMA RowsTyped ==
  ASSUME StoreTypeOK, NEW j \in DOMAIN checkpoints
  PROVE  checkpoints[j] \in Rows /\ checkpoints[j].revision \in Nat /\ goal.revision \in Nat
<1>1. checkpoints \in Seq(Rows)
  BY DEF StoreTypeOK, Rows
<1>2. checkpoints[j] \in Rows
  BY <1>1
<1>3. checkpoints[j].revision \in Revisions /\ goal.revision \in Revisions
  BY <1>2 DEF Rows, StoreTypeOK
<1> QED
  BY <1>2, <1>3 DEF Revisions

LEMMA Initially == StoreInit => IInv
<1> SUFFICES ASSUME StoreInit PROVE IInv
  OBVIOUS
<1>1. StoreTypeOK
  BY StoreAssumption DEF StoreInit, StoreTypeOK, Revisions
<1>2. AbsentIsNew /\ CheckpointsAreBehind /\ CompletionHasEvidence
  BY DEF StoreInit, AbsentIsNew, CheckpointsAreBehind, CompletionHasEvidence
<1> QED
  BY <1>1, <1>2 DEF IInv
-----------------------------------------------------------------------------
(* Recovery appends one row per run without a checkpoint, with the next    *)
(* revisions; none when the goal is not open.                              *)
LEMMA RecoveredRows ==
  ASSUME StoreTypeOK, RecoverInterruptedRuns
  PROVE  /\ Cardinality(Unrecorded) \in Nat
         /\ goal.status \notin OpenStatuses => Cardinality(Unrecorded) = 0
         /\ \E new \in Seq(Rows) :
               /\ checkpoints' = checkpoints \o new
               /\ Len(new) = Cardinality(Unrecorded)
               /\ \A i \in 1..Len(new) : new[i].revision = goal.revision + i
<1>1. IsFiniteSet(Unrecorded) /\ Unrecorded \subseteq Runs
  <2>1. Unrecorded \subseteq Runs
    BY DEF Unrecorded, RunningRuns
  <2> QED
    BY <2>1, FS_Subset, StoreAssumption
<1>2. Cardinality(Unrecorded) \in Nat
  BY <1>1, FS_CardinalityType
<1>3. goal.status \notin OpenStatuses => Cardinality(Unrecorded) = 0
  BY FS_EmptySet DEF Unrecorded
<1> DEFINE n == Cardinality(Unrecorded)
<1>4. PICK order \in Orders(Unrecorded) :
           checkpoints' = checkpoints \o [i \in DOMAIN order |-> CheckpointRow(order[i],
                                                                               goal.revision + i)]
  BY DEF RecoverInterruptedRuns
<1>5. order \in [1..n -> Unrecorded]
  BY <1>4 DEF Orders
<1> DEFINE new == [i \in DOMAIN order |-> CheckpointRow(order[i], goal.revision + i)]
<1>6. DOMAIN new = 1..n
  BY <1>5
<1>7. ASSUME NEW i \in 1..n PROVE new[i] \in Rows /\ new[i].revision = goal.revision + i
  <2>1. order[i] \in Runs
    BY <1>1, <1>5
  <2>2. goal.revision + i \in Revisions
    BY <1>2, StoreAssumption DEF RecoverInterruptedRuns, StoreTypeOK, Revisions
  <2>3. PlanRevision \in Nat
    BY DEF StoreTypeOK, PlanRevision
  <2> QED
    BY <1>5, <2>1, <2>2, <2>3 DEF CheckpointRow, Rows
<1>8. new \in Seq(Rows) /\ Len(new) = n
  BY <1>2, <1>6, <1>7
<1> QED
  BY <1>2, <1>3, <1>4, <1>7, <1>8

(* What recovery leaves of the types.                                      *)
LEMMA RecoverType ==
  ASSUME StoreTypeOK, RecoverInterruptedRuns PROVE StoreTypeOK'
<1>1. PICK new \in Seq(Rows) : checkpoints' = checkpoints \o new
  BY RecoveredRows
<1>2. checkpoints' \in Seq(Rows)
  BY <1>1 DEF StoreTypeOK, Rows
<1>3. goal' \in Goals
  <2>1. goal.revision + Cardinality(Unrecorded) \in Revisions
    <3>1. Cardinality(Unrecorded) \in Nat
      BY RecoveredRows
    <3> QED
      BY <3>1, StoreAssumption DEF RecoverInterruptedRuns, StoreTypeOK, Revisions
  <2> QED
    BY <2>1 DEF RecoverInterruptedRuns, StoreTypeOK, Goals
<1>4. runs' \in [Runs -> [status : {"none", "running"} \cup TerminalRunStatuses,
                          totalTokens : 0..MaxTokens]]
  BY DEF RecoverInterruptedRuns, StoreTypeOK, TerminalRunStatuses
<1>5. UNCHANGED <<plans, finishes>>
  BY DEF RecoverInterruptedRuns
<1> QED
  BY <1>2, <1>3, <1>4, <1>5 DEF StoreTypeOK, Rows, Goals, Revisions
-----------------------------------------------------------------------------
(* The operations by name, so that a proof can go through them.            *)
LEMMA StoreSteps ==
  ASSUME StoreNext
  PROVE  \/ CreateGoal
         \/ RecoverInterruptedRuns
         \/ \E expected \in 1..goal.revision, to \in GoalStatuses : UpdateGoal(expected, to)
         \/ \E r \in Runs : InsertRun(r)
         \/ \E r \in Runs, total \in 1..MaxTokens : RecordRunUsage(r, total)
         \/ \E r \in Runs, expected \in 1..goal.revision, unfinished \in 0..MaxItems :
               AppendGoalPlan(r, expected, unfinished)
         \/ \E r \in Runs, expected \in 1..goal.revision : AppendGoalCheckpoint(r, expected)
         \/ \E r \in Runs, status \in TerminalRunStatuses, total \in 0..MaxTokens,
               finish \in [status : {"blocked", "completed"}, expected : 1..goal.revision]
                            \cup {NoFinish} : FinishRun(r, status, total, finish)
  BY DEF StoreNext

(* A write that matches leaves a revision that still fits.                 *)
LEMMA NextRevision ==
  ASSUME StoreTypeOK, NEW expected, MatchesRevision(expected)
  PROVE  goal.revision + 1 \in Revisions
  BY StoreAssumption DEF StoreTypeOK, MatchesRevision, Revisions

(* The growth of a snapshot is a number of tokens.                         *)
LEMMA GrowthIsNatural ==
  ASSUME StoreTypeOK, NEW r \in Runs, NEW total \in 0..MaxTokens,
         total >= runs[r].totalTokens
  PROVE  UsageGrowth(r, total) \in Nat
  BY StoreAssumption DEF StoreTypeOK, UsageGrowth

LEMMA TypeStep ==
  ASSUME StoreTypeOK, [StoreNext]_storeVars PROVE StoreTypeOK'
<1> USE StoreAssumption
<1>1. CASE CreateGoal
  BY <1>1 DEF CreateGoal, StoreTypeOK, Revisions, GoalStatuses, OpenStatuses
<1>2. CASE RecoverInterruptedRuns
  BY <1>2, RecoverType
<1>3. ASSUME NEW expected \in 1..goal.revision, NEW to \in GoalStatuses, UpdateGoal(expected, to)
      PROVE  StoreTypeOK'
  <2>1. goal' \in Goals
    BY <1>3, NextRevision DEF UpdateGoal, StoreTypeOK, Goals
  <2> QED
    BY <1>3, <2>1 DEF UpdateGoal, StoreTypeOK, Goals, Revisions
<1>4. ASSUME NEW r \in Runs, InsertRun(r) PROVE StoreTypeOK'
  BY <1>4 DEF InsertRun, StoreTypeOK, Revisions
<1>5. ASSUME NEW r \in Runs, NEW total \in 1..MaxTokens, RecordRunUsage(r, total)
      PROVE  StoreTypeOK'
  <2>1. UsageGrowth(r, total) \in Nat
    BY <1>5, GrowthIsNatural DEF RecordRunUsage, StoreTypeOK
  <2>2. goal' \in Goals
    <3>1. goal.usedTokens + UsageGrowth(r, total) \in Nat
      BY <2>1 DEF StoreTypeOK
    <3> QED
      BY <1>5, <3>1 DEF RecordRunUsage, StoreTypeOK, Goals
  <2>3. runs' \in [Runs -> [status : {"none", "running"} \cup TerminalRunStatuses,
                            totalTokens : 0..MaxTokens]]
    BY <1>5 DEF RecordRunUsage, StoreTypeOK
  <2> QED
    BY <1>5, <2>2, <2>3 DEF RecordRunUsage, StoreTypeOK, Goals, Revisions
<1>6. ASSUME NEW r \in Runs, NEW expected \in 1..goal.revision, NEW unfinished \in 0..MaxItems,
             AppendGoalPlan(r, expected, unfinished)
      PROVE  StoreTypeOK'
  <2>1. goal' \in Goals
    BY <1>6, NextRevision DEF AppendGoalPlan, MayRecord, StoreTypeOK, Goals
  <2>2. plans' \in Seq(0..MaxItems)
    BY <1>6 DEF AppendGoalPlan, StoreTypeOK
  <2> QED
    BY <1>6, <2>1, <2>2 DEF AppendGoalPlan, StoreTypeOK, Goals, Revisions
<1>7. ASSUME NEW r \in Runs, NEW expected \in 1..goal.revision, AppendGoalCheckpoint(r, expected)
      PROVE  StoreTypeOK'
  <2>1. CheckpointRow(r, goal.revision + 1) \in Rows
    BY <1>7, NextRevision DEF AppendGoalCheckpoint, MayRecord, StoreTypeOK, CheckpointRow,
                              PlanRevision, Rows
  <2>2. checkpoints' \in Seq(Rows)
    BY <1>7, <2>1 DEF AppendGoalCheckpoint, StoreTypeOK, Rows
  <2>3. goal' \in Goals
    BY <1>7, NextRevision DEF AppendGoalCheckpoint, MayRecord, StoreTypeOK, Goals
  <2> QED
    BY <1>7, <2>2, <2>3 DEF AppendGoalCheckpoint, StoreTypeOK, Goals, Rows, Revisions
<1>8. ASSUME NEW r \in Runs, NEW status \in TerminalRunStatuses, NEW total \in 0..MaxTokens,
             NEW finish \in [status : {"blocked", "completed"}, expected : 1..goal.revision]
                              \cup {NoFinish},
             FinishRun(r, status, total, finish)
      PROVE  StoreTypeOK'
  <2>1. UsageGrowth(r, total) \in Nat
    BY <1>8, GrowthIsNatural DEF FinishRun
  <2>2. runs' \in [Runs -> [status : {"none", "running"} \cup TerminalRunStatuses,
                            totalTokens : 0..MaxTokens]]
    BY <1>8 DEF FinishRun, StoreTypeOK
  <2>3. CASE finish = NoFinish
    <3>1. goal.usedTokens + UsageGrowth(r, total) \in Nat
      BY <2>1 DEF StoreTypeOK
    <3>2. goal' \in Goals
      BY <1>8, <2>3, <3>1 DEF FinishRun, StoreTypeOK, Goals
    <3> QED
      BY <1>8, <2>2, <2>3, <3>2 DEF FinishRun, StoreTypeOK, Goals, Revisions
  <2>4. CASE finish # NoFinish
    <3>1. finish.status \in {"blocked", "completed"}
      BY <1>8, <2>4
    <3>2. goal.revision + 1 \in Revisions
      BY <1>8, <2>4, NextRevision DEF FinishRun, MayFinishGoal
    <3>3. goal.usedTokens + UsageGrowth(r, total) \in Nat
      BY <2>1 DEF StoreTypeOK
    <3>4. goal' \in Goals
      BY <1>8, <2>4, <3>1, <3>2, <3>3
         DEF FinishRun, Goals, GoalStatuses, OpenStatuses, TerminalStatuses
    <3>5. finishes' \in Seq([run : Runs, status : {"blocked", "completed"}, revision : Revisions])
      <4>1. finishes' = Append(finishes, [run |-> r, status |-> finish.status,
                                          revision |-> goal.revision + 1])
        BY <1>8, <2>4 DEF FinishRun
      <4>2. [run |-> r, status |-> finish.status, revision |-> goal.revision + 1]
              \in [run : Runs, status : {"blocked", "completed"}, revision : Revisions]
        BY <3>1, <3>2
      <4> QED
        BY <4>1, <4>2 DEF StoreTypeOK
    <3> QED
      BY <1>8, <2>2, <3>4, <3>5 DEF FinishRun, StoreTypeOK, Goals, Revisions
  <2> QED
    BY <2>3, <2>4
<1>9. CASE UNCHANGED storeVars
  BY <1>9 DEF storeVars, StoreTypeOK, Revisions
<1> QED
  BY <1>1, <1>2, <1>3, <1>4, <1>5, <1>6, <1>7, <1>8, <1>9, StoreSteps

-----------------------------------------------------------------------------
(* What ended stays as it is.                                              *)
LEMMA EndedRunKept ==
  ASSUME StoreTypeOK, [StoreNext]_storeVars, NEW q \in Runs,
         runs[q].status \in TerminalRunStatuses
  PROVE  runs'[q] = runs[q]
<1>1. runs[q].status # "none" /\ runs[q].status # "running"
  BY DEF TerminalRunStatuses
<1>2. CASE CreateGoal
  BY <1>2 DEF CreateGoal
<1>3. CASE RecoverInterruptedRuns
  BY <1>1, <1>3 DEF RecoverInterruptedRuns, RunningRuns
<1>4. ASSUME NEW expected \in 1..goal.revision, NEW to \in GoalStatuses, UpdateGoal(expected, to)
      PROVE  runs'[q] = runs[q]
  BY <1>4 DEF UpdateGoal
<1>5. ASSUME NEW r \in Runs, InsertRun(r) PROVE runs'[q] = runs[q]
  BY <1>1, <1>5 DEF InsertRun, StoreTypeOK
<1>6. ASSUME NEW r \in Runs, NEW total \in 1..MaxTokens, RecordRunUsage(r, total)
      PROVE  runs'[q] = runs[q]
  BY <1>1, <1>6 DEF RecordRunUsage, StoreTypeOK
<1>7. ASSUME NEW r \in Runs, NEW expected \in 1..goal.revision, NEW unfinished \in 0..MaxItems,
             AppendGoalPlan(r, expected, unfinished)
      PROVE  runs'[q] = runs[q]
  BY <1>7 DEF AppendGoalPlan
<1>8. ASSUME NEW r \in Runs, NEW expected \in 1..goal.revision, AppendGoalCheckpoint(r, expected)
      PROVE  runs'[q] = runs[q]
  BY <1>8 DEF AppendGoalCheckpoint
<1>9. ASSUME NEW r \in Runs, NEW status \in TerminalRunStatuses, NEW total \in 0..MaxTokens,
             NEW finish \in [status : {"blocked", "completed"}, expected : 1..goal.revision]
                              \cup {NoFinish},
             FinishRun(r, status, total, finish)
      PROVE  runs'[q] = runs[q]
  BY <1>1, <1>9 DEF FinishRun, StoreTypeOK
<1>10. CASE UNCHANGED storeVars
  BY <1>10 DEF storeVars
<1> QED
  BY <1>2, <1>3, <1>4, <1>5, <1>6, <1>7, <1>8, <1>9, <1>10, StoreSteps

LEMMA ClosedGoalKept ==
  ASSUME StoreTypeOK, [StoreNext]_storeVars, goal.status \in TerminalStatuses
  PROVE  goal'.status = goal.status /\ plans' = plans /\ checkpoints' = checkpoints
<1>1. goal.status \notin OpenStatuses /\ goal.status # "absent"
  BY DEF TerminalStatuses, OpenStatuses
<1>2. CASE CreateGoal
  BY <1>1, <1>2 DEF CreateGoal
<1>3. CASE RecoverInterruptedRuns
  <2>1. checkpoints' = checkpoints
    <3>1. Cardinality(Unrecorded) = 0
      BY <1>1, <1>3, RecoveredRows
    <3>2. PICK new \in Seq(Rows) : checkpoints' = checkpoints \o new /\ Len(new) = 0
      BY <1>3, <3>1, RecoveredRows
    <3>3. checkpoints \in Seq(Rows)
      BY DEF StoreTypeOK, Rows
    <3> QED
      BY <3>2, <3>3
  <2> QED
    BY <1>3, <2>1 DEF RecoverInterruptedRuns, StoreTypeOK
<1>4. ASSUME NEW expected \in 1..goal.revision, NEW to \in GoalStatuses, UpdateGoal(expected, to)
      PROVE  goal'.status = goal.status /\ plans' = plans /\ checkpoints' = checkpoints
  BY <1>4 DEF UpdateGoal, MayBecome, StoreTypeOK
<1>5. ASSUME NEW r \in Runs, InsertRun(r)
      PROVE  goal'.status = goal.status /\ plans' = plans /\ checkpoints' = checkpoints
  BY <1>5 DEF InsertRun
<1>6. ASSUME NEW r \in Runs, NEW total \in 1..MaxTokens, RecordRunUsage(r, total)
      PROVE  goal'.status = goal.status /\ plans' = plans /\ checkpoints' = checkpoints
  BY <1>6 DEF RecordRunUsage, StoreTypeOK
<1>7. ASSUME NEW r \in Runs, NEW expected \in 1..goal.revision, NEW unfinished \in 0..MaxItems,
             AppendGoalPlan(r, expected, unfinished)
      PROVE  FALSE
  BY <1>1, <1>7 DEF AppendGoalPlan, MayRecord
<1>8. ASSUME NEW r \in Runs, NEW expected \in 1..goal.revision, AppendGoalCheckpoint(r, expected)
      PROVE  FALSE
  BY <1>1, <1>8 DEF AppendGoalCheckpoint, MayRecord
<1>9. ASSUME NEW r \in Runs, NEW status \in TerminalRunStatuses, NEW total \in 0..MaxTokens,
             NEW finish \in [status : {"blocked", "completed"}, expected : 1..goal.revision]
                              \cup {NoFinish},
             FinishRun(r, status, total, finish)
      PROVE  goal'.status = goal.status /\ plans' = plans /\ checkpoints' = checkpoints
  <2>1. finish = NoFinish
    BY <1>1, <1>9 DEF FinishRun, MayFinishGoal, OpenStatuses
  <2> QED
    BY <1>9, <2>1 DEF FinishRun, StoreTypeOK
<1>10. CASE UNCHANGED storeVars
  BY <1>10 DEF storeVars
<1> QED
  BY <1>2, <1>3, <1>4, <1>5, <1>6, <1>7, <1>8, <1>9, <1>10, StoreSteps
-----------------------------------------------------------------------------
(* The revision never goes back, and moves with what it names.             *)
Moved == <<goal.status, plans, checkpoints>>' # <<goal.status, plans, checkpoints>>
Named == /\ goal'.revision >= goal.revision
         /\ Moved => goal'.revision > goal.revision
         /\ AbsentIsNew' /\ CheckpointsAreBehind'

LEMMA NextRevisionNames ==
  ASSUME StoreTypeOK, CheckpointsAreBehind, goal'.revision = goal.revision + 1,
         goal'.status # "absent", checkpoints' = checkpoints
  PROVE  Named
<1>1. goal.revision \in Nat
  BY DEF StoreTypeOK, Revisions
<1>2. ASSUME NEW j \in DOMAIN checkpoints PROVE checkpoints[j].revision <= goal.revision + 1
  <2>1. checkpoints[j].revision \in Nat
    BY RowsTyped
  <2> QED
    BY <1>1, <2>1 DEF CheckpointsAreBehind
<1> QED
  BY <1>1, <1>2 DEF Named, AbsentIsNew, CheckpointsAreBehind

LEMMA SameRevisionNames ==
  ASSUME StoreTypeOK, AbsentIsNew, CheckpointsAreBehind, goal'.revision = goal.revision,
         UNCHANGED <<goal.status, plans, checkpoints>>
  PROVE  Named
  BY DEF StoreTypeOK, AbsentIsNew, CheckpointsAreBehind, Named, Moved, Revisions

LEMMA RecoveryNames ==
  ASSUME StoreTypeOK, AbsentIsNew, CheckpointsAreBehind, RecoverInterruptedRuns
  PROVE  Named
<1> DEFINE n == Cardinality(Unrecorded)
<1>1. n \in Nat /\ (goal.status \notin OpenStatuses => n = 0)
  BY RecoveredRows
<1>2. goal'.revision = goal.revision + n /\ goal'.status = goal.status /\ plans' = plans
  BY DEF RecoverInterruptedRuns, StoreTypeOK
<1>3. PICK new \in Seq(Rows) : /\ checkpoints' = checkpoints \o new
                               /\ Len(new) = n
                               /\ \A i \in 1..Len(new) : new[i].revision = goal.revision + i
  BY RecoveredRows
<1>4. checkpoints \in Seq(Rows) /\ goal.revision \in Nat
  BY DEF StoreTypeOK, Rows, Revisions
<1> HIDE DEF n
<1>5. AbsentIsNew'
  BY <1>1, <1>2, <1>4 DEF AbsentIsNew, OpenStatuses
<1>6. CheckpointsAreBehind'
  <2> SUFFICES ASSUME NEW j \in DOMAIN checkpoints'
               PROVE  checkpoints'[j].revision <= goal'.revision
    BY DEF CheckpointsAreBehind
  <2>1. CASE j \in DOMAIN checkpoints
    <3>1. checkpoints'[j] = checkpoints[j] /\ checkpoints[j] \in Rows
      BY <1>3, <1>4, <2>1
    <3>2. checkpoints[j].revision <= goal.revision /\ checkpoints[j].revision \in Nat
      BY <2>1, <3>1 DEF CheckpointsAreBehind, Rows, Revisions
    <3> QED
      BY <1>1, <1>2, <1>4, <3>1, <3>2
  <2>2. CASE j \notin DOMAIN checkpoints
    <3>1. j - Len(checkpoints) \in 1..n /\ checkpoints'[j] = new[j - Len(checkpoints)]
      BY <1>1, <1>3, <1>4, <2>2
    <3> QED
      BY <1>1, <1>2, <1>3, <1>4, <3>1
  <2> QED
    BY <2>1, <2>2
<1>7. Moved => goal'.revision > goal.revision
  <2>1. CASE n = 0
    <3>1. checkpoints' = checkpoints
      BY <1>3, <1>4, <2>1
    <3> QED
      BY <1>2, <3>1 DEF Moved
  <2>2. CASE n # 0
    BY <1>1, <1>2, <1>4, <2>2
  <2> QED
    BY <2>1, <2>2
<1> QED
  BY <1>1, <1>2, <1>4, <1>5, <1>6, <1>7 DEF Named

LEMMA StepNames ==
  ASSUME StoreTypeOK, AbsentIsNew, CheckpointsAreBehind, [StoreNext]_storeVars
  PROVE  Named
<1>1. CASE CreateGoal
  BY <1>1, NextRevisionNames DEF CreateGoal, AbsentIsNew
<1>2. CASE RecoverInterruptedRuns
  BY <1>2, RecoveryNames
<1>3. ASSUME NEW expected \in 1..goal.revision, NEW to \in GoalStatuses, UpdateGoal(expected, to)
      PROVE  Named
  <2>1. goal'.revision = goal.revision + 1 /\ goal'.status # "absent"
    BY <1>3 DEF UpdateGoal, StoreTypeOK, GoalStatuses, OpenStatuses, TerminalStatuses
  <2> QED
    BY <1>3, <2>1, NextRevisionNames DEF UpdateGoal
<1>4. ASSUME NEW r \in Runs, InsertRun(r) PROVE Named
  BY <1>4, SameRevisionNames DEF InsertRun
<1>5. ASSUME NEW r \in Runs, NEW total \in 1..MaxTokens, RecordRunUsage(r, total)
      PROVE  Named
  <2>1. goal'.revision = goal.revision /\ goal'.status = goal.status
    BY <1>5 DEF RecordRunUsage, StoreTypeOK
  <2> QED
    BY <1>5, <2>1, SameRevisionNames DEF RecordRunUsage
<1>6. ASSUME NEW r \in Runs, NEW expected \in 1..goal.revision, NEW unfinished \in 0..MaxItems,
             AppendGoalPlan(r, expected, unfinished)
      PROVE  Named
  <2>1. goal'.revision = goal.revision + 1 /\ goal'.status # "absent"
    BY <1>6 DEF AppendGoalPlan, MayRecord, StoreTypeOK, OpenStatuses
  <2> QED
    BY <1>6, <2>1, NextRevisionNames DEF AppendGoalPlan
<1>7. ASSUME NEW r \in Runs, NEW expected \in 1..goal.revision, AppendGoalCheckpoint(r, expected)
      PROVE  Named
  <2>1. goal'.revision = goal.revision + 1 /\ goal'.status # "absent" /\ goal.revision \in Nat
    BY <1>7 DEF AppendGoalCheckpoint, MayRecord, StoreTypeOK, OpenStatuses, Revisions
  <2>2. CheckpointsAreBehind'
    <3> SUFFICES ASSUME NEW j \in DOMAIN checkpoints'
                 PROVE  checkpoints'[j].revision <= goal'.revision
      BY DEF CheckpointsAreBehind
    <3>1. checkpoints' = Append(checkpoints, CheckpointRow(r, goal.revision + 1))
      BY <1>7 DEF AppendGoalCheckpoint
    <3>2. checkpoints \in Seq(Rows)
      BY DEF StoreTypeOK, Rows
    <3>3. CASE j \in DOMAIN checkpoints
      <4>1. checkpoints'[j] = checkpoints[j] /\ checkpoints[j] \in Rows
        BY <3>1, <3>2, <3>3
      <4>2. checkpoints[j].revision <= goal.revision /\ checkpoints[j].revision \in Nat
        BY <3>3, <4>1 DEF CheckpointsAreBehind, Rows, Revisions
      <4> QED
        BY <2>1, <4>1, <4>2
    <3>4. CASE j \notin DOMAIN checkpoints
      <4>1. checkpoints'[j] = CheckpointRow(r, goal.revision + 1)
        BY <3>1, <3>2, <3>4
      <4> QED
        BY <2>1, <4>1 DEF CheckpointRow
    <3> QED
      BY <3>3, <3>4
  <2> QED
    BY <2>1, <2>2 DEF Named, AbsentIsNew
<1>8. ASSUME NEW r \in Runs, NEW status \in TerminalRunStatuses, NEW total \in 0..MaxTokens,
             NEW finish \in [status : {"blocked", "completed"}, expected : 1..goal.revision]
                              \cup {NoFinish},
             FinishRun(r, status, total, finish)
      PROVE  Named
  <2>1. CASE finish = NoFinish
    <3>1. goal'.revision = goal.revision /\ goal'.status = goal.status
      BY <1>8, <2>1 DEF FinishRun, StoreTypeOK
    <3> QED
      BY <1>8, <3>1, SameRevisionNames DEF FinishRun
  <2>2. CASE finish # NoFinish
    <3>1. goal'.revision = goal.revision + 1 /\ goal'.status = finish.status
      BY <1>8, <2>2 DEF FinishRun
    <3>2. finish.status \in {"blocked", "completed"}
      BY <1>8, <2>2
    <3> QED
      BY <1>8, <3>1, <3>2, NextRevisionNames DEF FinishRun
  <2> QED
    BY <2>1, <2>2
<1>9. CASE UNCHANGED storeVars
  BY <1>9, SameRevisionNames DEF storeVars
<1> QED
  BY <1>1, <1>2, <1>3, <1>4, <1>5, <1>6, <1>7, <1>8, <1>9, StoreSteps
-----------------------------------------------------------------------------
(* The evidence of a finish that is on record stays.                       *)
EvidenceOf(finish) ==
    /\ runs[finish.run].status = "completed"
    /\ finish.status = "completed" =>
         /\ goal.status = "completed"
         /\ PlanCompleted
         /\ \E j \in DOMAIN checkpoints : /\ checkpoints[j].run = finish.run
                                          /\ checkpoints[j].planRevision = PlanRevision
                                          /\ checkpoints[j].revision < finish.revision

LEMMA EvidenceStays ==
  ASSUME StoreTypeOK, [StoreNext]_storeVars,
         NEW finish, finish.run \in Runs, EvidenceOf(finish)
  PROVE  EvidenceOf(finish)'
<1>1. runs'[finish.run].status = "completed"
  BY EndedRunKept DEF EvidenceOf, TerminalRunStatuses
<1>2. CASE finish.status # "completed"
  BY <1>1, <1>2 DEF EvidenceOf
<1>3. CASE finish.status = "completed"
  <2>1. goal'.status = goal.status /\ plans' = plans /\ checkpoints' = checkpoints
    BY <1>3, ClosedGoalKept DEF EvidenceOf, TerminalStatuses
  <2> QED
    BY <1>1, <1>3, <2>1 DEF EvidenceOf, PlanCompleted, PlanRevision
<1> QED
  BY <1>2, <1>3

(* A finish that is written has its evidence at that moment.               *)
LEMMA FinishHasEvidence ==
  ASSUME StoreTypeOK, CheckpointsAreBehind, NEW r \in Runs, NEW status \in TerminalRunStatuses,
         NEW total \in 0..MaxTokens,
         NEW finish \in [status : {"blocked", "completed"}, expected : 1..goal.revision],
         finish # NoFinish, FinishRun(r, status, total, finish), NEW row,
         row = [run |-> r, status |-> finish.status, revision |-> goal.revision + 1]
  PROVE  EvidenceOf(row)'
<1>1. runs'[r].status = "completed"
  BY DEF FinishRun, StoreTypeOK
<1>2. goal'.status = finish.status /\ plans' = plans /\ checkpoints' = checkpoints
  BY DEF FinishRun
<1>3. ASSUME finish.status = "completed"
      PROVE  PlanCompleted /\ \E j \in DOMAIN checkpoints :
                                 /\ checkpoints[j].run = r
                                 /\ checkpoints[j].planRevision = PlanRevision
                                 /\ checkpoints[j].revision < goal.revision + 1
  <2>1. PlanCompleted /\ CheckpointedOn(r, PlanRevision)
    BY <1>3 DEF FinishRun, MayFinishGoal
  <2>2. PICK j \in DOMAIN checkpoints : checkpoints[j].run = r
                                        /\ checkpoints[j].planRevision = PlanRevision
    BY <2>1 DEF CheckpointedOn
  <2>3. checkpoints[j].revision \in Nat /\ goal.revision \in Nat
    BY RowsTyped
  <2>4. checkpoints[j].revision < goal.revision + 1
    BY <2>3 DEF CheckpointsAreBehind
  <2> QED
    BY <2>1, <2>2, <2>4
<1>4. row.run = r /\ row.status = finish.status /\ row.revision = goal.revision + 1
  OBVIOUS
<1> QED
  BY <1>1, <1>2, <1>3, <1>4 DEF EvidenceOf, PlanCompleted, PlanRevision

(* Only the end of a run writes a finish.                                  *)
LEMMA OtherStepsFinishNothing ==
  ASSUME [StoreNext]_storeVars, finishes' # finishes
  PROVE  \E r \in Runs, status \in TerminalRunStatuses, total \in 0..MaxTokens,
            finish \in [status : {"blocked", "completed"}, expected : 1..goal.revision] :
            finish # NoFinish /\ FinishRun(r, status, total, finish)
<1> SUFFICES ASSUME StoreNext
             PROVE  \E r \in Runs, status \in TerminalRunStatuses, total \in 0..MaxTokens,
                       finish \in [status : {"blocked", "completed"}, expected : 1..goal.revision] :
                       finish # NoFinish /\ FinishRun(r, status, total, finish)
  BY DEF storeVars
<1>1. PICK r \in Runs, status \in TerminalRunStatuses, total \in 0..MaxTokens,
           finish \in [status : {"blocked", "completed"}, expected : 1..goal.revision]
                        \cup {NoFinish} : FinishRun(r, status, total, finish)
  BY StoreSteps DEF CreateGoal, RecoverInterruptedRuns, UpdateGoal, InsertRun, RecordRunUsage,
                    AppendGoalPlan, AppendGoalCheckpoint
<1>2. finish # NoFinish
  BY <1>1 DEF FinishRun
<1> QED
  BY <1>1, <1>2

LEMMA EvidenceStep ==
  ASSUME StoreTypeOK, CheckpointsAreBehind, CompletionHasEvidence, [StoreNext]_storeVars
  PROVE  CompletionHasEvidence'
<1> SUFFICES ASSUME NEW i \in DOMAIN finishes', NEW row, row = finishes'[i]
             PROVE  EvidenceOf(row)'
  BY DEF CompletionHasEvidence, EvidenceOf, PlanCompleted, PlanRevision
<1>1. ASSUME i \in DOMAIN finishes, row = finishes[i] PROVE EvidenceOf(row)'
  <2>1. EvidenceOf(row)
    BY <1>1 DEF CompletionHasEvidence, EvidenceOf
  <2>2. finishes \in Seq([run : Runs, status : {"blocked", "completed"}, revision : Revisions])
    BY DEF StoreTypeOK
  <2>3. row.run \in Runs
    <3> DEFINE Finishes == [run : Runs, status : {"blocked", "completed"}, revision : Revisions]
    <3>1. finishes \in Seq(Finishes)
      BY <2>2
    <3>2. \A f \in Finishes : f.run \in Runs
      OBVIOUS
    <3> HIDE DEF Finishes
    <3>3. finishes[i] \in Finishes
      BY <1>1, <3>1
    <3> QED
      BY <1>1, <3>2, <3>3
  <2> QED
    BY <2>1, <2>3, EvidenceStays
<1>2. CASE finishes' = finishes
  BY <1>1, <1>2
<1>3. CASE finishes' # finishes
  <2>1. PICK r \in Runs, status \in TerminalRunStatuses, total \in 0..MaxTokens,
             finish \in [status : {"blocked", "completed"}, expected : 1..goal.revision] :
             finish # NoFinish /\ FinishRun(r, status, total, finish)
    BY <1>3, OtherStepsFinishNothing
  <2>2. finishes' = Append(finishes, [run |-> r, status |-> finish.status,
                                      revision |-> goal.revision + 1])
    BY <2>1 DEF FinishRun
  <2>3. finishes \in Seq([run : Runs, status : {"blocked", "completed"}, revision : Revisions])
    BY DEF StoreTypeOK
  <2>4. CASE i \in DOMAIN finishes
    BY <1>1, <2>2, <2>3, <2>4
  <2>5. CASE i \notin DOMAIN finishes
    <3>1. row = [run |-> r, status |-> finish.status, revision |-> goal.revision + 1]
      BY <2>2, <2>3, <2>5
    <3> QED
      BY <2>1, <3>1, FinishHasEvidence
  <2> QED
    BY <2>4, <2>5
<1> QED
  BY <1>2, <1>3

LEMMA IInvInductive == StoreSpec => []IInv
<1>1. IInv /\ [UNCHANGED storeVars \/ StoreNext]_storeVars => IInv'
  BY TypeStep, StepNames, EvidenceStep DEF IInv, Named
<1> QED
  BY Initially, <1>1, PTL DEF StoreSpec

(* The tables always have their types; no revision ever exceeds the        *)
(* largest safe integer.                                                   *)
THEOREM StoreTypeCorrect == StoreSpec => []StoreTypeOK
<1>1. IInv => StoreTypeOK
  BY DEF IInv
<1> QED
  BY IInvInductive, <1>1, PTL

(* A goal that a run completed has a completed plan and a checkpoint of    *)
(* that run on this plan, whichever runs wrote whatever in between         *)
(* (applyGoalFinish).                                                      *)
THEOREM CompletionEvidence == StoreSpec => []CompletionHasEvidence
<1>1. IInv => CompletionHasEvidence
  BY DEF IInv
<1> QED
  BY IInvInductive, <1>1, PTL

(* A snapshot whose revision still matches has missed no change of status, *)
(* plan or checkpoints, not even by recovery: the compare-and-set of       *)
(* updateGoal, appendGoalPlan, appendGoalCheckpoint and applyGoalFinish    *)
(* loses no update.                                                        *)
THEOREM RevisionsName == StoreSpec => RevisionNamesOneState
<1>1. IInv /\ [UNCHANGED storeVars \/ StoreNext]_storeVars =>
        [<<goal.status, plans, checkpoints>>' # <<goal.status, plans, checkpoints>>
           => goal.revision' > goal.revision]_storeVars
  BY StepNames DEF IInv, Named, Moved
<1> QED
  BY IInvInductive, <1>1, PTL DEF StoreSpec, RevisionNamesOneState

(* A closed goal and an ended run are final, over every later operation    *)
(* and every restart (assertGoalTransition, finishRun).                    *)
THEOREM TerminalStays == StoreSpec => TerminalIsFinal
<1>1. IInv /\ [UNCHANGED storeVars \/ StoreNext]_storeVars =>
        [/\ goal.status \in TerminalStatuses =>
              <<goal.status, plans, checkpoints>>' = <<goal.status, plans, checkpoints>>
         /\ \A r \in Runs : runs[r].status \in TerminalRunStatuses => runs'[r] = runs[r]
        ]_storeVars
  BY ClosedGoalKept, EndedRunKept DEF IInv
<1> QED
  BY IInvInductive, <1>1, PTL DEF StoreSpec, TerminalIsFinal
-----------------------------------------------------------------------------
Fields == {"run", "phase", "bound", "pending", "outcome"}
Finishes == [status : {"blocked", "completed"}, expected : Nat] \cup {NoFinish}

(* What the steps that write rely on: which run, with which end.           *)
WorkShape ==
    /\ Fields \subseteq DOMAIN work
    /\ work.run \in Runs
    /\ work.phase \in Phases
    /\ work.bound \in Nat
    /\ work.pending \in Finishes
    /\ Ending => work.outcome \in TerminalRunStatuses

WorkInv == work = NoWork \/ WorkShape
MutationInv ==
    /\ mutation \in [Mutations -> [stage : {"idle", "waiting", "done", "lost"},
                                   action : Actions \cup {"none"}, seen : Revisions]]
    /\ \A m \in Mutations : mutation[m].stage = "waiting" => mutation[m].action \in Actions
ExistingHasRevision == goal.status # "absent" => goal.revision >= 1

LInv == IInv /\ ExistingHasRevision /\ WorkInv /\ MutationInv

LEMMA LInit == Init => LInv
<1> SUFFICES ASSUME Init PROVE LInv
  OBVIOUS
<1>1. IInv
  BY Initially DEF Init
<1>2. ExistingHasRevision /\ WorkInv
  BY DEF Init, StoreInit, ExistingHasRevision, WorkInv
<1>3. MutationInv
  BY StoreAssumption DEF Init, MutationInv, Actions, Revisions
<1> QED
  BY <1>1, <1>2, <1>3 DEF LInv
-----------------------------------------------------------------------------
(* The steps by name.                                                      *)
LEMMA Steps ==
  ASSUME Next
  PROVE  \/ Create
         \/ \E r \in Runs : StartRun(r)
         \/ \E total \in 1..MaxTokens : ReportUsage(total)
         \/ \E decision \in {"cleanup", "conflict", "contract"}, contract \in SUBSET Kinds :
              ClassifyScope(decision, contract)
         \/ AcceptProof
         \/ AcceptResponse
         \/ \E tool \in {"plan", "checkpoint", "finish", "block", "effect"} : CallTool(tool)
         \/ Read
         \/ \E unfinished \in 0..MaxItems : UpdateGoalPlan(unfinished)
         \/ CheckpointGoal
         \/ RequestFinish \/ RequestBlock \/ RefuseTool \/ BeginEffect \/ ApplyEffect
         \/ \E kind \in Kinds : ReceiveReceipt(kind) \/ EffectFails(kind)
         \/ Yield \/ Fail \/ Answer \/ Close \/ Interrupt
         \/ CancelRun \/ RunTimesOut
         \/ \E m \in Mutations, action \in Actions : BeginMutation(m, action)
         \/ \E m \in Mutations : MutateGoal(m)
         \/ Crash \/ Restart
  BY DEF Next, RunStep

(* A run in one of the phases is a run, not NoWork.                        *)
LEMMA Working ==
  ASSUME WorkInv, work.phase # "none" PROVE WorkShape
  BY DEF WorkInv, NoWork

LEMMA OpenHasRevision ==
  ASSUME LInv, goal.status # "absent"
  PROVE  goal.revision \in 1..goal.revision
  BY DEF LInv, IInv, StoreTypeOK, ExistingHasRevision, Revisions

LEMMA CheckpointIsStoreStep ==
  ASSUME LInv, WorkShape, EnsureGoalRunCheckpoint
  PROVE  StoreNext \/ UNCHANGED storeVars
<1>1. CASE UNCHANGED storeVars
  BY <1>1
<1>2. CASE AppendGoalCheckpoint(work.run, goal.revision)
  <2>1. goal.revision \in 1..goal.revision
    BY <1>2, OpenHasRevision DEF AppendGoalCheckpoint, MayRecord, OpenStatuses
  <2> QED
    BY <1>2, <2>1 DEF StoreNext, WorkShape
<1> QED
  BY <1>1, <1>2 DEF EnsureGoalRunCheckpoint

LEMMA FinishIsStoreStep ==
  ASSUME LInv, WorkShape, NEW status \in TerminalRunStatuses, NEW finish \in Finishes,
         FinishRun(work.run, status, runs[work.run].totalTokens, finish)
  PROVE  StoreNext
<1>1. runs[work.run].totalTokens \in 0..MaxTokens
  BY DEF LInv, IInv, StoreTypeOK, WorkShape
<1>2. finish \in [status : {"blocked", "completed"}, expected : 1..goal.revision] \cup {NoFinish}
  <2>1. CASE finish = NoFinish
    BY <2>1
  <2>2. CASE finish # NoFinish
    <3>1. finish.expected = goal.revision /\ goal.status = "active"
      BY <2>2 DEF FinishRun, MayFinishGoal, MatchesRevision
    <3>2. finish.expected \in 1..goal.revision
      BY <3>1, OpenHasRevision
    <3> QED
      BY <2>2, <3>2 DEF Finishes
  <2> QED
    BY <2>1, <2>2
<1> QED
  BY <1>1, <1>2 DEF StoreNext, WorkShape

LEMMA StoreStep ==
  ASSUME LInv, [Next]_vars PROVE [StoreNext]_storeVars
<1> SUFFICES ASSUME Next PROVE StoreNext \/ UNCHANGED storeVars
  BY DEF vars
<1>1. CASE Create
  BY <1>1 DEF Create, StoreNext
<1>2. ASSUME NEW r \in Runs, StartRun(r) PROVE StoreNext
  BY <1>2 DEF StartRun, StoreNext
<1>3. ASSUME NEW total \in 1..MaxTokens, ReportUsage(total) PROVE StoreNext
  <2>1. work.run \in Runs
    BY <1>3, Working DEF ReportUsage, In, LInv, WorkShape
  <2> QED
    BY <1>3, <2>1 DEF ReportUsage, StoreNext
<1>4. ASSUME NEW unfinished \in 0..MaxItems, UpdateGoalPlan(unfinished) PROVE StoreNext
  <2>1. work.run \in Runs
    BY <1>4, Working DEF UpdateGoalPlan, Reached, In, LInv, WorkShape
  <2>2. AppendGoalPlan(work.run, work.bound, unfinished)
    BY <1>4 DEF UpdateGoalPlan
  <2>3. work.bound \in 1..goal.revision
    BY <2>2, OpenHasRevision DEF AppendGoalPlan, MayRecord, MatchesRevision, OpenStatuses
  <2> QED
    BY <2>1, <2>2, <2>3 DEF StoreNext
<1>5. CASE CheckpointGoal
  <2>1. work.run \in Runs
    BY <1>5, Working DEF CheckpointGoal, Reached, In, LInv, WorkShape
  <2>2. AppendGoalCheckpoint(work.run, work.bound)
    BY <1>5 DEF CheckpointGoal
  <2>3. work.bound \in 1..goal.revision
    BY <2>2, OpenHasRevision DEF AppendGoalCheckpoint, MayRecord, MatchesRevision, OpenStatuses
  <2> QED
    BY <2>1, <2>2, <2>3 DEF StoreNext
<1>6. CASE Yield
  <2>1. WorkShape
    BY <1>6, Working DEF Yield, In, LInv
  <2> QED
    BY <1>6, <2>1, CheckpointIsStoreStep DEF Yield
<1>7. CASE Fail
  <2>1. WorkShape
    BY <1>7, Working DEF Fail, LInv
  <2> QED
    BY <1>7, <2>1, CheckpointIsStoreStep DEF Fail
<1>8. CASE Close
  <2>1. WorkShape /\ Ending
    BY <1>8, Working DEF Close, In, Ending, LInv
  <2> QED
    BY <1>8, <2>1, FinishIsStoreStep DEF Close, WorkShape
<1>9. CASE Interrupt
  <2>1. WorkShape
    BY <1>9, Working DEF Interrupt, In, LInv
  <2>2. "interrupted" \in TerminalRunStatuses /\ NoFinish \in Finishes
    BY DEF TerminalRunStatuses, Finishes
  <2> QED
    BY <1>9, <2>1, <2>2, FinishIsStoreStep DEF Interrupt
<1>10. ASSUME NEW m \in Mutations, MutateGoal(m) PROVE StoreNext \/ UNCHANGED storeVars
  <2>1. CASE UNCHANGED storeVars
    BY <2>1
  <2>2. CASE UpdateGoal(goal.revision, StatusAfter(mutation[m].action))
    <3>1. goal.revision \in 1..goal.revision
      BY <2>2, OpenHasRevision DEF UpdateGoal
    <3>2. mutation[m].action \in Actions
      BY <1>10 DEF MutateGoal, LInv, MutationInv
    <3>3. StatusAfter(mutation[m].action) \in GoalStatuses
      BY <2>2, <3>2 DEF StatusAfter, Actions, GoalStatuses, OpenStatuses, TerminalStatuses,
                        UpdateGoal, LInv, IInv, StoreTypeOK
    <3> QED
      BY <2>2, <3>1, <3>3 DEF StoreNext
  <2> QED
    BY <1>10, <2>1, <2>2 DEF MutateGoal
<1>11. CASE Restart
  BY <1>11 DEF Restart, StoreNext
<1>12. \/ \E decision \in {"cleanup", "conflict", "contract"}, contract \in SUBSET Kinds :
             ClassifyScope(decision, contract)
       \/ AcceptProof \/ AcceptResponse
       \/ \E tool \in {"plan", "checkpoint", "finish", "block", "effect"} : CallTool(tool)
       \/ Read \/ RequestFinish \/ RequestBlock \/ RefuseTool \/ BeginEffect \/ ApplyEffect
       \/ \E kind \in Kinds : ReceiveReceipt(kind) \/ EffectFails(kind)
       \/ Answer \/ CancelRun \/ RunTimesOut
       \/ \E m \in Mutations, action \in Actions : BeginMutation(m, action)
       \/ Crash
       => UNCHANGED storeVars
  BY DEF ClassifyScope, AcceptProof, AcceptResponse, CallTool, Read, RequestFinish, RequestBlock, RefuseTool,
         BeginEffect, ApplyEffect, ReceiveReceipt, EffectFails, Answer, CancelRun, RunTimesOut,
         BeginMutation, Crash
<1> QED
  BY <1>1, <1>2, <1>3, <1>4, <1>5, <1>6, <1>7, <1>8, <1>9, <1>10, <1>11, <1>12, Steps
-----------------------------------------------------------------------------
(* A step of a run that goes on.                                           *)
LEMMA GoesOn ==
  ASSUME WorkShape, DOMAIN work' = DOMAIN work, work'.run = work.run,
         work'.phase \in {"turn", "queued", "executing", "applied"},
         work'.bound \in Nat, work'.pending \in Finishes
  PROVE  WorkInv'
  BY DEF WorkShape, WorkInv, Phases, Ending

LEMMA TurnKeepsWork ==
  ASSUME LInv,
         \/ \E decision \in {"cleanup", "conflict", "contract"}, contract \in SUBSET Kinds :
              ClassifyScope(decision, contract)
         \/ AcceptProof \/ AcceptResponse
         \/ \E tool \in {"plan", "checkpoint", "finish", "block", "effect"} : CallTool(tool)
         \/ Read
  PROVE  WorkInv'
<1>1. WorkShape /\ work.phase = "turn"
  BY Working DEF ClassifyScope, AcceptProof, AcceptResponse, CallTool, Read, In, LInv
<1>2. goal.revision \in Nat
  BY DEF LInv, IInv, StoreTypeOK, Revisions
<1>3. ASSUME NEW decision, NEW contract, ClassifyScope(decision, contract) PROVE WorkInv'
  BY <1>1, <1>3, GoesOn DEF ClassifyScope, WorkShape, Fields
<1>4. CASE AcceptProof
  BY <1>1, <1>4, GoesOn DEF AcceptProof, WorkShape, Fields
<1>5. CASE AcceptResponse
  BY <1>1, <1>5, GoesOn DEF AcceptResponse, WorkShape, Fields
<1>6. ASSUME NEW tool, CallTool(tool) PROVE WorkInv'
  <2>1. /\ DOMAIN work' = DOMAIN work
        /\ work'.run = work.run /\ work'.phase = "queued"
        /\ work'.bound = goal.revision /\ work'.pending = work.pending
    BY <1>1, <1>6 DEF CallTool, WorkShape, Fields
  <2> QED
    BY <1>1, <1>2, <2>1, GoesOn DEF WorkShape
<1>7. CASE Read
  BY <1>1, <1>7, GoesOn DEF Read, WorkShape, Fields
<1> QED
  BY <1>3, <1>4, <1>5, <1>6, <1>7

LEMMA CallKeepsWork ==
  ASSUME LInv,
         \/ \E unfinished \in 0..MaxItems : UpdateGoalPlan(unfinished)
         \/ CheckpointGoal \/ RequestFinish \/ RequestBlock \/ RefuseTool
         \/ BeginEffect \/ ApplyEffect
         \/ \E kind \in Kinds : ReceiveReceipt(kind) \/ EffectFails(kind)
  PROVE  WorkInv'
<1>1. WorkShape
  BY Working DEF UpdateGoalPlan, CheckpointGoal, RequestFinish, RequestBlock, RefuseTool, BeginEffect,
                 ApplyEffect, ReceiveReceipt, EffectFails, Reached, In, LInv
<1>2. ASSUME NEW unfinished, UpdateGoalPlan(unfinished) PROVE WorkInv'
  <2>1. /\ DOMAIN work' = DOMAIN work
        /\ work'.run = work.run /\ work'.phase = "turn"
        /\ work'.bound = work.bound /\ work'.pending = work.pending
    BY <1>1, <1>2 DEF UpdateGoalPlan, WorkShape, Fields
  <2> QED
    BY <1>1, <2>1, GoesOn DEF WorkShape
<1>3. CASE CheckpointGoal
  <2>1. /\ DOMAIN work' = DOMAIN work
        /\ work'.run = work.run /\ work'.phase = "turn"
        /\ work'.bound = work.bound /\ work'.pending = work.pending
    BY <1>1, <1>3 DEF CheckpointGoal, WorkShape, Fields
  <2> QED
    BY <1>1, <2>1, GoesOn DEF WorkShape
<1>4. CASE RequestFinish
  <2>1. /\ DOMAIN work' = DOMAIN work
        /\ work'.run = work.run /\ work'.phase = "turn" /\ work'.bound = work.bound
        /\ work'.pending = [status |-> "completed", expected |-> work.bound]
    BY <1>1, <1>4 DEF RequestFinish, WorkShape, Fields
  <2> QED
    BY <1>1, <2>1, GoesOn DEF WorkShape, Finishes
<1>5. CASE RequestBlock
  <2>1. /\ DOMAIN work' = DOMAIN work
        /\ work'.run = work.run /\ work'.phase = "turn" /\ work'.bound = work.bound
        /\ work'.pending = [status |-> "blocked", expected |-> work.bound]
    BY <1>1, <1>5 DEF RequestBlock, WorkShape, Fields
  <2> QED
    BY <1>1, <2>1, GoesOn DEF WorkShape, Finishes
<1>6. CASE RefuseTool \/ BeginEffect \/ ApplyEffect
  BY <1>1, <1>6, GoesOn DEF RefuseTool, BeginEffect, ApplyEffect, WorkShape, Fields
<1>7. ASSUME NEW kind, ReceiveReceipt(kind) \/ EffectFails(kind) PROVE WorkInv'
  BY <1>1, <1>7, GoesOn DEF ReceiveReceipt, EffectFails, WorkShape, Fields
<1> QED
  BY <1>2, <1>3, <1>4, <1>5, <1>6, <1>7

LEMMA EndKeepsWork ==
  ASSUME LInv, Yield \/ Fail \/ Answer \/ Close \/ Interrupt PROVE WorkInv'
<1>1. WorkShape
  BY Working DEF Yield, Fail, Answer, Close, Interrupt, In, LInv
<1>2. ASSUME DOMAIN work' = DOMAIN work, work'.run = work.run, work'.bound = work.bound,
             work'.pending \in Finishes, work'.phase \in {"ending", "closing"},
             work'.outcome \in TerminalRunStatuses
      PROVE  WorkInv'
  BY <1>1, <1>2 DEF WorkShape, WorkInv, Phases
<1>3. CASE Yield
  <2>1. /\ DOMAIN work' = DOMAIN work /\ work'.run = work.run /\ work'.bound = work.bound
        /\ work'.pending = work.pending /\ work'.phase = "ending" /\ work'.outcome = "completed"
    BY <1>1, <1>3 DEF Yield, WorkShape, Fields
  <2> QED
    BY <1>1, <1>2, <2>1 DEF WorkShape, TerminalRunStatuses
<1>4. CASE Fail
  <2>1. /\ DOMAIN work' = DOMAIN work /\ work'.run = work.run /\ work'.bound = work.bound
        /\ work'.pending = NoFinish /\ work'.phase = "ending" /\ work'.outcome = FailedOutcome
    BY <1>1, <1>4 DEF Fail, WorkShape, Fields
  <2> QED
    BY <1>1, <1>2, <2>1 DEF FailedOutcome, Finishes, TerminalRunStatuses
<1>5. CASE Answer
  <2>1. work.outcome \in TerminalRunStatuses
    BY <1>1, <1>5 DEF Answer, In, WorkShape, Ending
  <2>2. /\ DOMAIN work' = DOMAIN work /\ work'.run = work.run /\ work'.bound = work.bound
        /\ work'.pending = work.pending /\ work'.phase = "closing" /\ work'.outcome = work.outcome
    BY <1>1, <1>5 DEF Answer, WorkShape, Fields
  <2> QED
    BY <1>1, <1>2, <2>1, <2>2 DEF WorkShape
<1>6. CASE Close \/ Interrupt
  BY <1>6 DEF Close, Interrupt, WorkInv
<1> QED
  BY <1>3, <1>4, <1>5, <1>6

LEMMA StartKeepsWork ==
  ASSUME LInv, NEW r \in Runs, StartRun(r) PROVE WorkInv'
  BY DEF StartRun, NewWork, WorkInv, WorkShape, Fields, Phases, Finishes, Ending

LEMMA StopKeepsWork ==
  ASSUME WorkInv, ~Ending,
         \/ work' = Cancelled
         \/ work # NoWork /\ work' = [work EXCEPT !.stop = "timeout"]
  PROVE  WorkInv'
<1>1. CASE work = NoWork
  BY <1>1 DEF WorkInv, Cancelled, NoWork
<1>2. CASE WorkShape
  <2>1. work.run # NoRun
    BY <1>2, LifecycleAssumption DEF WorkShape
  <2>2. /\ DOMAIN work' = DOMAIN work /\ work'.run = work.run /\ work'.bound = work.bound
        /\ work'.pending = work.pending /\ work'.phase = work.phase
    BY <1>2, <2>1 DEF Cancelled, WorkShape, Fields
  <2> QED
    BY <1>2, <2>2 DEF WorkInv, WorkShape, Ending
<1> QED
  BY <1>1, <1>2 DEF WorkInv

LEMMA WorkStep ==
  ASSUME LInv, [Next]_vars PROVE WorkInv'
<1>1. WorkInv
  BY DEF LInv
<1>2. ASSUME work' = work PROVE WorkInv'
  BY <1>1, <1>2 DEF WorkInv, WorkShape, Ending
<1>3. CASE UNCHANGED vars
  BY <1>2, <1>3 DEF vars, memory
<1>4. CASE Create \/ Restart \/ \E m \in Mutations : MutateGoal(m)
  BY <1>2, <1>4 DEF Create, Restart, MutateGoal, memory
<1>5. ASSUME NEW total \in 1..MaxTokens, ReportUsage(total) PROVE WorkInv'
  BY <1>2, <1>5 DEF ReportUsage, memory
<1>6. ASSUME NEW r \in Runs, StartRun(r) PROVE WorkInv'
  BY <1>6, StartKeepsWork
<1>7. CASE CancelRun
  BY <1>1, <1>7, StopKeepsWork DEF CancelRun, Stoppable
<1>8. CASE RunTimesOut
  BY <1>1, <1>8, StopKeepsWork DEF RunTimesOut, Stoppable, NoWork
<1>9. ASSUME NEW m \in Mutations, NEW action \in Actions, BeginMutation(m, action) PROVE WorkInv'
  BY <1>1, <1>9, StopKeepsWork DEF BeginMutation
<1>10. CASE Crash
  BY <1>10 DEF Crash, WorkInv
<1> QED
  BY <1>3, <1>4, <1>5, <1>6, <1>7, <1>8, <1>9, <1>10, TurnKeepsWork, CallKeepsWork, EndKeepsWork,
     Steps

LEMMA MutationStep ==
  ASSUME LInv, [Next]_vars PROVE MutationInv'
<1>1. MutationInv /\ goal.revision \in Revisions
  BY DEF LInv, IInv, StoreTypeOK
<1>2. ASSUME mutation' = mutation PROVE MutationInv'
  BY <1>1, <1>2 DEF MutationInv, Revisions
<1>3. ASSUME NEW m \in Mutations, NEW action \in Actions, BeginMutation(m, action)
      PROVE  MutationInv'
  BY <1>1, <1>3 DEF BeginMutation, MutationInv, Revisions
<1>4. ASSUME NEW m \in Mutations, MutateGoal(m) PROVE MutationInv'
  BY <1>1, <1>4 DEF MutateGoal, MutationInv, Revisions
<1>5. CASE Crash
  BY <1>1, <1>5 DEF Crash, MutationInv, Revisions
<1>6. CASE UNCHANGED vars
  BY <1>2, <1>6 DEF vars, memory
<1>7. ASSUME ~Crash,
             ~\E m \in Mutations : MutateGoal(m) \/ \E action \in Actions : BeginMutation(m, action),
             Next
      PROVE  mutation' = mutation
  BY <1>7, Steps DEF Create, StartRun, ReportUsage, ClassifyScope, AcceptProof, AcceptResponse, CallTool, Read,
         UpdateGoalPlan, CheckpointGoal, RequestFinish, RequestBlock, RefuseTool, BeginEffect,
         ApplyEffect, ReceiveReceipt, EffectFails, Yield, Fail, Answer, Close, Interrupt, CancelRun,
         RunTimesOut, Restart, memory
<1> QED
  BY <1>2, <1>3, <1>4, <1>5, <1>6, <1>7

LEMMA LInductive == Spec => []LInv
<1>1. LInv /\ [Next]_vars => LInv'
  <2> SUFFICES ASSUME LInv, [Next]_vars PROVE LInv'
    OBVIOUS
  <2>1. [StoreNext]_storeVars
    BY StoreStep
  <2>2. IInv'
    BY <2>1, TypeStep, StepNames, EvidenceStep DEF LInv, IInv, Named
  <2>3. ExistingHasRevision'
    <3>1. Named /\ goal.revision \in Nat /\ goal'.revision \in Nat
      BY <2>1, <2>2, StepNames DEF LInv, IInv, StoreTypeOK, Revisions
    <3>2. goal'.status # goal.status => Moved
      BY DEF Moved
    <3> QED
      BY <3>1, <3>2 DEF Named, LInv, IInv, AbsentIsNew, ExistingHasRevision
  <2> QED
    BY <2>2, <2>3, WorkStep, MutationStep DEF LInv
<1> QED
  BY LInit, <1>1, PTL DEF Spec
-----------------------------------------------------------------------------
(* The host uses the repository as its contract says: whatever runs,       *)
(* mutations, crashes and recoveries do, they do by its operations, each   *)
(* against the revision the caller holds (agent.ts, ipc.ts, index.ts over  *)
(* conversations.ts).  So what holds of the repository holds of the host.  *)
THEOREM LifecycleImplementsStore == Spec => StoreSpec
<1>1. Init => StoreInit
  BY DEF Init
<1>2. LInv /\ [Next]_vars => [UNCHANGED storeVars \/ StoreNext]_storeVars
  BY StoreStep
<1> QED
  BY LInductive, <1>1, <1>2, PTL DEF Spec, StoreSpec

(* The rows that a step leaves running were running, or the run of the     *)
(* step is the active one.                                                 *)
LEMMA RunningStep ==
  ASSUME LInv, OnlyTheActiveRunIsRunning, [Next]_vars
  PROVE  OnlyTheActiveRunIsRunning'
<1>1. StoreTypeOK /\ WorkInv
  BY DEF LInv, IInv
<1>2. NoRun \notin Runs
  BY LifecycleAssumption
<1>3. ASSUME RunningRuns' \subseteq RunningRuns, work'.run = work.run, host = "up"
      PROVE  OnlyTheActiveRunIsRunning'
  BY <1>3 DEF OnlyTheActiveRunIsRunning
<1>4. CASE UNCHANGED vars
  BY <1>4 DEF OnlyTheActiveRunIsRunning, RunningRuns, vars, memory, storeVars
<1>5. CASE Create
  BY <1>3, <1>5 DEF Create, CreateGoal, RunningRuns, memory
<1>6. ASSUME NEW r \in Runs, StartRun(r) PROVE OnlyTheActiveRunIsRunning'
  <2>1. RunningRuns = {}
    BY <1>2, <1>6 DEF StartRun, OnlyTheActiveRunIsRunning, NoWork, RunningRuns
  <2>2. RunningRuns' \subseteq {r}
    BY <1>1, <1>6, <2>1 DEF StartRun, InsertRun, RunningRuns, StoreTypeOK
  <2> QED
    BY <1>6, <2>2 DEF StartRun, NewWork, OnlyTheActiveRunIsRunning
<1>7. ASSUME NEW total \in 1..MaxTokens, ReportUsage(total) PROVE OnlyTheActiveRunIsRunning'
  BY <1>1, <1>3, <1>7 DEF ReportUsage, RecordRunUsage, RunningRuns, memory, In, StoreTypeOK
<1>8. ASSUME NEW m \in Mutations, MutateGoal(m) PROVE OnlyTheActiveRunIsRunning'
  BY <1>3, <1>8 DEF MutateGoal, UpdateGoal, RunningRuns, storeVars
<1>9. CASE Crash
  BY <1>9 DEF Crash, OnlyTheActiveRunIsRunning
<1>10. CASE Restart
  BY <1>1, <1>10 DEF Restart, RecoverInterruptedRuns, OnlyTheActiveRunIsRunning, RunningRuns, storeVars,
                     StoreTypeOK
<1>11. CASE Close \/ Interrupt
  <2>1. WorkShape /\ host = "up"
    BY <1>11, Working DEF Close, Interrupt, In, LInv
  <2>2. \/ work.outcome \in TerminalRunStatuses
           /\ runs' = [runs EXCEPT ![work.run] = [status |-> work.outcome,
                                                  totalTokens |-> runs[work.run].totalTokens]]
        \/ runs' = [runs EXCEPT ![work.run] = [status |-> "interrupted",
                                               totalTokens |-> runs[work.run].totalTokens]]
    BY <1>11, <2>1 DEF Close, Interrupt, In, FinishRun, WorkShape, Ending
  <2>3. RunningRuns' = RunningRuns \ {work.run}
    BY <1>1, <2>1, <2>2 DEF RunningRuns, StoreTypeOK, WorkShape, TerminalRunStatuses
  <2> QED
    BY <2>1, <2>3 DEF OnlyTheActiveRunIsRunning
<1>12. ASSUME runs' = runs, work'.run = work.run, host = "up" PROVE OnlyTheActiveRunIsRunning'
  BY <1>3, <1>12 DEF RunningRuns
<1>13. ASSUME \/ \E decision \in {"cleanup", "conflict", "contract"}, contract \in SUBSET Kinds :
                   ClassifyScope(decision, contract)
              \/ AcceptProof \/ AcceptResponse
              \/ \E tool \in {"plan", "checkpoint", "finish", "block", "effect"} : CallTool(tool)
              \/ Read
       PROVE  OnlyTheActiveRunIsRunning'
  <2>1. WorkShape /\ host = "up" /\ runs' = runs
    BY <1>13, Working DEF ClassifyScope, AcceptProof, AcceptResponse, CallTool, Read, In, LInv, storeVars
  <2>2. work'.run = work.run
    BY <1>13, <2>1 DEF ClassifyScope, AcceptProof, AcceptResponse, CallTool, Read, WorkShape, Fields
  <2> QED
    BY <1>12, <2>1, <2>2
<1>14. ASSUME \/ \E unfinished \in 0..MaxItems : UpdateGoalPlan(unfinished)
              \/ CheckpointGoal \/ RequestFinish \/ RequestBlock \/ RefuseTool
              \/ BeginEffect \/ ApplyEffect
              \/ \E kind \in Kinds : ReceiveReceipt(kind) \/ EffectFails(kind)
       PROVE  OnlyTheActiveRunIsRunning'
  <2>1. WorkShape /\ host = "up"
    BY <1>14, Working DEF UpdateGoalPlan, CheckpointGoal, RequestFinish, RequestBlock, RefuseTool,
       BeginEffect, ApplyEffect, ReceiveReceipt, EffectFails, Reached, In, LInv
  <2>2. runs' = runs
    BY <1>14 DEF UpdateGoalPlan, AppendGoalPlan, CheckpointGoal, AppendGoalCheckpoint, RequestFinish,
       RequestBlock, RefuseTool, BeginEffect, ApplyEffect, ReceiveReceipt, EffectFails, storeVars
  <2>3. work'.run = work.run
    BY <1>14, <2>1 DEF UpdateGoalPlan, CheckpointGoal, RequestFinish, RequestBlock, RefuseTool,
       BeginEffect, ApplyEffect, ReceiveReceipt, EffectFails, WorkShape, Fields
  <2> QED
    BY <1>12, <2>1, <2>2, <2>3
<1>15. CASE Yield \/ Fail \/ Answer
  <2>1. WorkShape /\ host = "up"
    BY <1>15, Working DEF Yield, Fail, Answer, In, LInv
  <2>2. runs' = runs
    BY <1>15 DEF Yield, Fail, Answer, EnsureGoalRunCheckpoint, AppendGoalCheckpoint, storeVars
  <2>3. work'.run = work.run
    BY <1>15, <2>1 DEF Yield, Fail, Answer, WorkShape, Fields
  <2> QED
    BY <1>12, <2>1, <2>2, <2>3
<1>16. ASSUME CancelRun \/ RunTimesOut
              \/ \E m \in Mutations, action \in Actions : BeginMutation(m, action)
       PROVE  OnlyTheActiveRunIsRunning'
  <2>1. host = "up" /\ runs' = runs
    BY <1>16 DEF CancelRun, RunTimesOut, BeginMutation, Stoppable, storeVars
  <2>2. work'.run = work.run
    <3>1. CASE work.run = NoRun
      BY <1>16, <3>1 DEF CancelRun, RunTimesOut, BeginMutation, Stoppable, Cancelled
    <3>2. CASE work.run # NoRun
      <4>1. WorkShape
        BY <1>1, <3>2 DEF WorkInv, NoWork
      <4> QED
        BY <1>16, <3>2, <4>1 DEF CancelRun, RunTimesOut, BeginMutation, Cancelled, WorkShape, Fields
    <3> QED
      BY <3>1, <3>2
  <2> QED
    BY <1>12, <2>1, <2>2
<1> QED
  BY <1>4, <1>5, <1>6, <1>7, <1>8, <1>9, <1>10, <1>11, <1>13, <1>14, <1>15, <1>16, Steps

(* No end of a run, no crash and no restart leaves a running row behind:   *)
(* while the host is up only the run in activeGoals is running             *)
(* (PersistentRun.finish, recoverInterruptedRuns).                         *)
THEOREM NoRunLeftBehind == Spec => []OnlyTheActiveRunIsRunning
<1>1. Init => OnlyTheActiveRunIsRunning
  BY DEF Init, StoreInit, OnlyTheActiveRunIsRunning, RunningRuns
<1>2. LInv /\ OnlyTheActiveRunIsRunning /\ [Next]_vars => OnlyTheActiveRunIsRunning'
  BY RunningStep
<1> QED
  BY LInductive, <1>1, <1>2, PTL DEF Spec
-----------------------------------------------------------------------------
(* A call waits in the queue only in a living process and for a goal that  *)
(* exists.                                                                 *)
QueueInv == /\ host # "up" => work = NoWork
            /\ work.phase = "queued" => goal.revision = work.bound /\ goal.status # "absent"

LEMMA QueueStep ==
  ASSUME LInv, QueueInv, [Next]_vars PROVE QueueInv'
<1>1. StoreTypeOK /\ WorkInv
  BY DEF LInv, IInv
<1>2. ASSUME host' = "up", work'.phase # "queued" PROVE QueueInv'
  BY <1>2 DEF QueueInv
<1>3. CASE UNCHANGED vars
  BY <1>3 DEF QueueInv, vars, memory, storeVars
<1>4. CASE Create
  BY <1>4 DEF Create, CreateGoal, QueueInv, memory
<1>5. ASSUME NEW r \in Runs, StartRun(r) PROVE QueueInv'
  BY <1>2, <1>5 DEF StartRun, NewWork
<1>6. ASSUME NEW total \in 1..MaxTokens, ReportUsage(total) PROVE QueueInv'
  BY <1>2, <1>6 DEF ReportUsage, In, memory
<1>7. ASSUME NEW m \in Mutations, MutateGoal(m) PROVE QueueInv'
  BY <1>2, <1>7 DEF MutateGoal, NoWork
<1>8. CASE Crash
  BY <1>8 DEF Crash, QueueInv, NoWork
<1>9. CASE Restart
  BY <1>2, <1>9 DEF Restart, QueueInv, NoWork
<1>10. CASE Close \/ Interrupt
  BY <1>2, <1>10 DEF Close, Interrupt, In, NoWork
<1>11. ASSUME NEW tool, CallTool(tool) PROVE QueueInv'
  <2>1. WorkShape /\ host = "up" /\ host' = "up" /\ goal.status = "active"
    BY <1>11, Working DEF CallTool, In, LInv
  <2>2. work'.bound = goal.revision /\ goal' = goal
    BY <1>11, <2>1 DEF CallTool, WorkShape, Fields, storeVars
  <2> QED
    BY <2>1, <2>2 DEF QueueInv
<1>12. ASSUME \/ \E decision \in {"cleanup", "conflict", "contract"}, contract \in SUBSET Kinds :
                   ClassifyScope(decision, contract)
              \/ AcceptProof \/ AcceptResponse \/ Read
       PROVE  QueueInv'
  <2>1. WorkShape /\ work.phase = "turn" /\ host' = "up"
    BY <1>12, Working DEF ClassifyScope, AcceptProof, AcceptResponse, Read, In, LInv
  <2>2. work'.phase = work.phase
    BY <1>12, <2>1 DEF ClassifyScope, AcceptProof, AcceptResponse, Read, WorkShape, Fields
  <2> QED
    BY <1>2, <2>1, <2>2
<1>13. ASSUME \/ \E unfinished \in 0..MaxItems : UpdateGoalPlan(unfinished)
              \/ CheckpointGoal \/ RequestFinish \/ RequestBlock \/ RefuseTool
              \/ BeginEffect \/ ApplyEffect
              \/ \E kind \in Kinds : ReceiveReceipt(kind) \/ EffectFails(kind)
       PROVE  QueueInv'
  <2>1. WorkShape /\ host' = "up"
    BY <1>13, Working DEF UpdateGoalPlan, CheckpointGoal, RequestFinish, RequestBlock, RefuseTool,
       BeginEffect, ApplyEffect, ReceiveReceipt, EffectFails, Reached, In, LInv
  <2>2. work'.phase # "queued"
    BY <1>13, <2>1 DEF UpdateGoalPlan, CheckpointGoal, RequestFinish, RequestBlock, RefuseTool,
       BeginEffect, ApplyEffect, ReceiveReceipt, EffectFails, WorkShape, Fields
  <2> QED
    BY <1>2, <2>1, <2>2
<1>14. CASE Yield \/ Fail \/ Answer
  <2>1. WorkShape /\ host' = "up"
    BY <1>14, Working DEF Yield, Fail, Answer, In, LInv
  <2>2. work'.phase # "queued"
    BY <1>14, <2>1 DEF Yield, Fail, Answer, WorkShape, Fields
  <2> QED
    BY <1>2, <2>1, <2>2
<1>15. ASSUME CancelRun \/ RunTimesOut
              \/ \E m \in Mutations, action \in Actions : BeginMutation(m, action)
       PROVE  QueueInv'
  <2>1. host' = "up" /\ goal' = goal
    BY <1>15 DEF CancelRun, RunTimesOut, BeginMutation, Stoppable, storeVars
  <2>2. CASE work.run = NoRun
    BY <1>15, <2>1, <2>2
       DEF CancelRun, RunTimesOut, BeginMutation, Stoppable, Cancelled, QueueInv
  <2>3. CASE work.run # NoRun
    <3>1. WorkShape
      BY <1>1, <2>3 DEF WorkInv, NoWork
    <3>2. work'.phase = work.phase /\ work'.bound = work.bound
      BY <1>15, <2>3, <3>1
         DEF CancelRun, RunTimesOut, BeginMutation, Cancelled, WorkShape, Fields
    <3> QED
      BY <2>1, <3>2 DEF QueueInv
  <2> QED
    BY <2>2, <2>3
<1> QED
  BY <1>3, <1>4, <1>5, <1>6, <1>7, <1>8, <1>9, <1>10, <1>11, <1>12, <1>13, <1>14, <1>15, Steps

(* The revision a lifecycle call was bound to is still the goal's when the *)
(* queue reaches the call, whatever the user and the clock did meanwhile:  *)
(* a mutation waits for the run (mutateGoal), recovery for a new process.  *)
THEOREM BoundRevisionIsCurrent == Spec => []BoundRevisionStaysCurrent
<1>1. Init => QueueInv
  BY DEF Init, QueueInv, NoWork
<1>2. LInv /\ QueueInv /\ [Next]_vars => QueueInv'
  BY QueueStep
<1>3. QueueInv => BoundRevisionStaysCurrent
  BY DEF QueueInv, BoundRevisionStaysCurrent
<1> QED
  BY LInductive, <1>1, <1>2, <1>3, PTL DEF Spec
-----------------------------------------------------------------------------
(* What a run did, what its checkpoints followed and what its proof was    *)
(* about: the counts that performRun keeps against what really happened.   *)
Counted == {"run", "phase", "stop", "tool", "legacy", "decision", "lifecycle", "effects",
            "checkpointed", "checkpointEffects", "proof", "pending"}

(* Nothing may be done before a decision on what the run is to work on.    *)
Undecided == \/ work.legacy
             \/ /\ work.lifecycle = 0
                /\ \/ work.decision \in {"cleanup", "conflict"}
                   \/ Unfinished /\ work.decision = "none"

CountShape ==
    /\ Counted \subseteq DOMAIN work
    /\ work.run \in Runs /\ runs[work.run].status = "running"
    /\ goal.status = "active"
    /\ work.effects \in Nat /\ work.lifecycle \in Nat
    /\ work.stop # "no" => work.run \in stopped

(* The host has counted the effects but for the one whose receipt is due.  *)
EffectsAreCounted ==
    /\ work.phase = "applied" => applied[work.run] = work.effects + 1
    /\ ~Ending /\ work.phase # "applied" => applied[work.run] = work.effects

CheckpointIsCounted == ~Ending /\ work.checkpointed => recorded[work.run] = work.checkpointEffects
ProofIsCounted == work.proof # None => proved[work.run] = work.proof.effects

(* What a run is to do to its goal at its end was asked for after its last *)
(* effect.                                                                 *)
FinishIsLast ==
    work.pending # NoFinish =>
        /\ work.phase = "turn" \/ Ending
        /\ recorded[work.run] = applied[work.run]
        /\ work.pending.status = "completed" => proved[work.run] = applied[work.run]

UndecidedIsIdle ==
    /\ Undecided => /\ work.effects = 0
                    /\ work.phase \notin {"executing", "applied"}
                    /\ work.phase = "queued" => work.tool # "effect"
    /\ work.phase = "queued" /\ work.tool = "plan" /\ work.lifecycle = 0 => Undecided
    /\ work.phase = "queued" /\ work.tool = "block" => work.effects = 0

EndIsRecorded == Ending /\ work.stop = "no" => recorded[work.run] = applied[work.run]

CountInv ==
    /\ CountShape
    /\ EffectsAreCounted /\ CheckpointIsCounted /\ ProofIsCounted
    /\ recorded[work.run] <= applied[work.run]
    /\ FinishIsLast /\ UndecidedIsIdle /\ EndIsRecorded

HistoryInv ==
    /\ applied \in [Runs -> Nat] /\ recorded \in [Runs -> Nat] /\ proved \in [Runs -> Nat]
    /\ \A r \in Runs : runs[r].status = "none" => applied[r] = 0 /\ recorded[r] = 0
    /\ host = "down" => RunningRuns \subseteq crashed
    /\ CompletionIsProved /\ EffectsAreRecorded

EvidenceInv == HistoryInv /\ (work # NoWork => CountInv)

LEMMA EvidenceInit == Init => EvidenceInv
<1> SUFFICES ASSUME Init PROVE EvidenceInv
  OBVIOUS
<1>1. CompletionIsProved /\ EffectsAreRecorded
  BY DEF Init, StoreInit, CompletionIsProved, EffectsAreRecorded, TerminalRunStatuses
<1> QED
  BY <1>1 DEF Init, StoreInit, EvidenceInv, HistoryInv, NoWork

LEMMA AtWork ==
  ASSUME LInv, EvidenceInv, work.phase # "none"
  PROVE  /\ WorkShape /\ CountInv /\ work # NoWork
         /\ applied[work.run] \in Nat /\ recorded[work.run] \in Nat /\ proved[work.run] \in Nat
<1>1. work # NoWork
  BY DEF NoWork
<1> QED
  BY <1>1, Working DEF LInv, EvidenceInv, HistoryInv, CountInv, CountShape

(* What the active run does to its own history leaves that of the others   *)
(* alone: a run on record has ended, or has not begun.                     *)
LEMMA OthersAreKept ==
  ASSUME LInv, HistoryInv, host = "up", host' = "up",
         work.run \in Runs, runs[work.run].status = "running",
         runs' = runs, finishes' = finishes, stopped \subseteq stopped', crashed' = crashed,
         applied' \in [Runs -> Nat], recorded' \in [Runs -> Nat], proved' \in [Runs -> Nat],
         \A r \in Runs \ {work.run} : /\ applied'[r] = applied[r]
                                      /\ recorded'[r] = recorded[r]
                                      /\ proved'[r] = proved[r]
  PROVE  HistoryInv'
<1>1. StoreTypeOK /\ CompletionHasEvidence
  BY DEF LInv, IInv
<1>2. CompletionIsProved'
  <2>1. ASSUME NEW i \in DOMAIN finishes PROVE finishes[i].run \in Runs \ {work.run}
    <3>1. finishes[i].run \in Runs
      <4> DEFINE Ends == [run : Runs, status : {"blocked", "completed"}, revision : Revisions]
      <4>1. finishes \in Seq(Ends)
        BY <1>1 DEF StoreTypeOK
      <4>2. finishes[i] \in Ends
        <5> HIDE DEF Ends
        <5> QED
          BY <2>1, <4>1
      <4> QED
        BY <4>2
    <3>2. runs[finishes[i].run].status = "completed"
      BY <1>1, <2>1 DEF CompletionHasEvidence
    <3> QED
      BY <3>1, <3>2
  <2> QED
    BY <2>1 DEF HistoryInv, CompletionIsProved
<1>3. EffectsAreRecorded'
  BY DEF HistoryInv, EffectsAreRecorded, TerminalRunStatuses
<1> QED
  BY <1>2, <1>3 DEF HistoryInv
-----------------------------------------------------------------------------
Same(fields) == \A f \in fields : work'[f] = work[f]

LEMMA TurnCounts ==
  ASSUME LInv, EvidenceInv,
         \/ \E decision \in {"cleanup", "conflict", "contract"}, contract \in SUBSET Kinds :
              ClassifyScope(decision, contract)
         \/ Read
  PROVE  CountInv'
<1>1. WorkShape /\ CountInv
  BY AtWork DEF ClassifyScope, Read, In
<1>2. /\ UNCHANGED <<goal, plans, runs, applied, recorded, proved, stopped>>
      /\ work.phase = "turn" /\ work.stop = "no" /\ work.pending = NoFinish
  BY DEF ClassifyScope, Read, In, storeVars, history
<1>3. ASSUME NEW decision \in {"cleanup", "conflict", "contract"}, NEW contract \in SUBSET Kinds,
             ClassifyScope(decision, contract)
      PROVE  CountInv'
  <2>1. /\ DOMAIN work' = DOMAIN work
        /\ Same(Counted \ {"decision"})
    BY <1>1, <1>3 DEF ClassifyScope, Counted, CountInv, CountShape, Same
  <2>2. Undecided
    BY <1>3 DEF ClassifyScope, Undecided
  <2>3. /\ work'.run = work.run /\ work'.phase = work.phase /\ work'.stop = work.stop
        /\ work'.effects = work.effects /\ work'.lifecycle = work.lifecycle /\ work'.pending = work.pending
        /\ work'.checkpointed = work.checkpointed /\ work'.checkpointEffects = work.checkpointEffects
        /\ work'.proof = work.proof
    BY <2>1 DEF Same, Counted
  <2> QED
    BY <1>1, <1>2, <2>1, <2>2, <2>3 DEF CountInv, CountShape, EffectsAreCounted, CheckpointIsCounted,
       ProofIsCounted, FinishIsLast, UndecidedIsIdle, EndIsRecorded, Ending
<1>4. CASE Read
  <2>1. DOMAIN work' = DOMAIN work /\ Same(Counted)
    BY <1>1, <1>4 DEF Read, Counted, CountInv, CountShape, Same
  <2>2. Undecided' = Undecided
    BY <1>2, <2>1 DEF Same, Undecided, Unfinished, PlanCompleted, PlanRevision, Counted
  <2> QED
    BY <1>1, <1>2, <2>1, <2>2 DEF Same, Counted, CountInv, CountShape, EffectsAreCounted, CheckpointIsCounted,
       ProofIsCounted, FinishIsLast, UndecidedIsIdle, EndIsRecorded, Ending
<1> QED
  BY <1>3, <1>4

LEMMA ProofCounts ==
  ASSUME LInv, EvidenceInv, AcceptProof \/ AcceptResponse
  PROVE  CountInv' /\ HistoryInv'
<1>1. /\ WorkShape /\ CountInv
      /\ applied[work.run] \in Nat /\ recorded[work.run] \in Nat /\ HistoryInv
  BY AtWork DEF AcceptProof, AcceptResponse, In, EvidenceInv
<1>2. /\ UNCHANGED <<goal, plans, runs, finishes, applied, recorded, stopped, crashed>>
      /\ host = "up" /\ host' = "up"
      /\ work.phase = "turn" /\ work.stop = "no" /\ work.pending = NoFinish
      /\ proved' = [proved EXCEPT ![work.run] = applied[work.run]]
  BY DEF AcceptProof, AcceptResponse, In, storeVars
<1>3. /\ DOMAIN work' = DOMAIN work /\ Same(Counted \ {"proof"})
      /\ work'.proof # None => work'.proof.effects = work.effects
  <2>1. CASE AcceptProof
    <3>1. PICK verifier, critic \in Verdicts :
            work' = [work EXCEPT !.proof = OutcomeProof(verifier, critic)]
      BY <2>1 DEF AcceptProof
    <3> QED
      BY <1>1, <3>1 DEF OutcomeProof, ProofNow, Counted, CountInv, CountShape, Same
  <2>2. CASE AcceptResponse
    BY <1>1, <2>2 DEF AcceptResponse, ProofNow, Counted, CountInv, CountShape, Same
  <2> QED
    BY <2>1, <2>2
<1>4. /\ work'.run = work.run /\ work'.phase = work.phase /\ work'.stop = work.stop
      /\ work'.effects = work.effects /\ work'.lifecycle = work.lifecycle /\ work'.pending = work.pending
      /\ work'.checkpointed = work.checkpointed /\ work'.checkpointEffects = work.checkpointEffects
      /\ work'.legacy = work.legacy /\ work'.decision = work.decision /\ work'.tool = work.tool
  BY <1>3 DEF Same, Counted
<1>5. Undecided' = Undecided
  BY <1>2, <1>4 DEF Undecided, Unfinished, PlanCompleted, PlanRevision
<1>6. proved' \in [Runs -> Nat] /\ proved'[work.run] = applied[work.run]
  BY <1>1, <1>2 DEF HistoryInv, CountInv, CountShape
<1>7. CountInv'
  BY <1>1, <1>2, <1>3, <1>4, <1>5, <1>6 DEF CountInv, CountShape, EffectsAreCounted,
     CheckpointIsCounted, ProofIsCounted, FinishIsLast, UndecidedIsIdle, EndIsRecorded, Ending
<1>8. HistoryInv'
  <2>1. \A r \in Runs \ {work.run} : proved'[r] = proved[r]
    BY <1>2 DEF HistoryInv
  <2> QED
    BY <1>1, <1>2, <1>6, <2>1, OthersAreKept DEF HistoryInv, CountInv, CountShape
<1> QED
  BY <1>7, <1>8

LEMMA CallCounts ==
  ASSUME LInv, EvidenceInv, NEW tool, CallTool(tool)
  PROVE  CountInv'
<1>1. WorkShape /\ CountInv
  BY AtWork DEF CallTool, In
<1>2. /\ UNCHANGED <<goal, plans, runs, applied, recorded, proved, stopped>>
      /\ work.phase = "turn" /\ work.stop = "no" /\ work.pending = NoFinish
      /\ Offered(tool)
  BY DEF CallTool, In, storeVars, history
<1>3. /\ DOMAIN work' = DOMAIN work
      /\ Same(Counted \ {"phase", "tool", "lifecycle"})
      /\ work'.phase = "queued" /\ work'.tool = tool
      /\ work'.lifecycle = IF tool = "effect" \/ work.legacy \/ Cleaning
                           THEN work.lifecycle ELSE work.lifecycle + 1
  BY <1>1 DEF CallTool, Counted, CountInv, CountShape, Same
<1>4. /\ work'.run = work.run /\ work'.stop = work.stop
      /\ work'.effects = work.effects /\ work'.pending = work.pending
      /\ work'.checkpointed = work.checkpointed /\ work'.checkpointEffects = work.checkpointEffects
      /\ work'.legacy = work.legacy /\ work'.decision = work.decision /\ work'.proof = work.proof
  BY <1>3 DEF Same, Counted
<1>5. Unfinished' = Unfinished
  BY <1>2 DEF Unfinished, PlanCompleted, PlanRevision
<1>6. UndecidedIsIdle'
  <2>1. work.lifecycle \in Nat
    BY <1>1 DEF CountInv, CountShape
  <2>2. Undecided' => Undecided
    BY <1>3, <1>4, <1>5, <2>1 DEF Undecided
  <2>3. tool = "effect" => ~Undecided
    BY <1>2 DEF Offered, MustPrepare, Cleaning, Conflicting, Prepares, Scoped, Undecided
  <2>4. tool = "block" => Undecided
    BY <1>2 DEF Offered, Prepares, Conflicting, Undecided
  <2>5. tool = "plan" /\ work'.lifecycle = 0 => Undecided'
    BY <1>3, <1>4, <2>1 DEF Undecided, Cleaning
  <2>6. Undecided => work.effects = 0
    BY <1>1 DEF CountInv, UndecidedIsIdle
  <2> QED
    BY <1>3, <1>4, <2>2, <2>3, <2>4, <2>5, <2>6 DEF UndecidedIsIdle
<1>7. work'.lifecycle \in Nat
  BY <1>1, <1>3 DEF CountInv, CountShape
<1> QED
  BY <1>1, <1>2, <1>3, <1>4, <1>6, <1>7 DEF CountInv, CountShape, EffectsAreCounted,
     CheckpointIsCounted, ProofIsCounted, FinishIsLast, EndIsRecorded, Ending

LEMMA PlanCounts ==
  ASSUME LInv, EvidenceInv, NEW unfinished \in 0..MaxItems, UpdateGoalPlan(unfinished)
  PROVE  CountInv'
<1>1. WorkShape /\ CountInv
  BY AtWork DEF UpdateGoalPlan, Reached, In
<1>2. /\ UNCHANGED <<runs, applied, recorded, proved, stopped>>
      /\ goal' = [goal EXCEPT !.revision = @ + 1]
      /\ work.phase = "queued" /\ work.tool = "plan" /\ work.stop = "no"
  BY DEF UpdateGoalPlan, AppendGoalPlan, Reached, In, history
<1>3. /\ DOMAIN work' = DOMAIN work
      /\ Same(Counted \ {"phase", "tool", "decision", "legacy", "proof"})
      /\ work'.phase = "turn" /\ work'.legacy = FALSE
      /\ work'.proof = ProofAfterPlan(unfinished)
  BY <1>1 DEF UpdateGoalPlan, Counted, CountInv, CountShape, Same
<1>4. /\ work'.run = work.run /\ work'.stop = work.stop
      /\ work'.effects = work.effects /\ work'.pending = work.pending /\ work'.lifecycle = work.lifecycle
      /\ work'.checkpointed = work.checkpointed /\ work'.checkpointEffects = work.checkpointEffects
  BY <1>3 DEF Same, Counted
<1>5. goal'.status = "active"
  BY <1>1, <1>2 DEF CountInv, CountShape, LInv, IInv, StoreTypeOK
<1>6. work'.proof # None => work.proof # None /\ work'.proof.effects = work.proof.effects
  <2>1. CASE work'.proof = None
    BY <2>1
  <2>2. CASE work'.proof # None
    <3>1. /\ MatchesSource
          /\ work'.proof = [work.proof EXCEPT !.revision = goal.revision + 1,
                                              !.planRevision = PlanRevision + 1, !.moved = TRUE]
      BY <1>3, <2>2 DEF ProofAfterPlan
    <3> QED
      BY <3>1 DEF MatchesSource, BoundTo
  <2> QED
    BY <2>1, <2>2
<1>7. UndecidedIsIdle'
  <2>1. work.effects = 0 \/ work.lifecycle # 0
    BY <1>1, <1>2 DEF CountInv, UndecidedIsIdle
  <2>2. Undecided' => work.lifecycle = 0
    BY <1>3, <1>4 DEF Undecided
  <2> QED
    BY <1>3, <1>4, <2>1, <2>2 DEF UndecidedIsIdle
<1> QED
  BY <1>1, <1>2, <1>3, <1>4, <1>5, <1>6, <1>7 DEF CountInv, CountShape, EffectsAreCounted,
     CheckpointIsCounted, ProofIsCounted, FinishIsLast, EndIsRecorded, Ending

LEMMA CheckpointCounts ==
  ASSUME LInv, EvidenceInv, CheckpointGoal
  PROVE  CountInv' /\ HistoryInv'
<1>1. /\ WorkShape /\ CountInv /\ HistoryInv
      /\ applied[work.run] \in Nat
  BY AtWork DEF CheckpointGoal, Reached, In, EvidenceInv
<1>2. /\ UNCHANGED <<plans, runs, finishes, applied, proved, stopped, crashed>>
      /\ goal' = [goal EXCEPT !.revision = @ + 1]
      /\ host = "up" /\ host' = "up"
      /\ work.phase = "queued" /\ work.tool = "checkpoint" /\ work.stop = "no"
      /\ recorded' = [recorded EXCEPT ![work.run] = applied[work.run]]
  BY DEF CheckpointGoal, AppendGoalCheckpoint, Reached, In
<1>3. /\ DOMAIN work' = DOMAIN work
      /\ Same(Counted \ {"phase", "tool", "checkpointed", "checkpointEffects", "proof"})
      /\ work'.phase = "turn" /\ work'.checkpointEffects = work.effects
      /\ work'.proof = IF work.proof.moved /\ work.proof.planRevision = PlanRevision
                       THEN [work.proof EXCEPT !.revision = goal.revision + 1] ELSE work.proof
  BY <1>1 DEF CheckpointGoal, Counted, CountInv, CountShape, Same
<1>4. /\ work'.run = work.run /\ work'.stop = work.stop
      /\ work'.effects = work.effects /\ work'.pending = work.pending /\ work'.lifecycle = work.lifecycle
      /\ work'.legacy = work.legacy /\ work'.decision = work.decision
  BY <1>3 DEF Same, Counted
<1>5. goal'.status = "active"
  BY <1>1, <1>2 DEF CountInv, CountShape, LInv, IInv, StoreTypeOK
<1>6. work'.proof # None => work.proof # None /\ work'.proof.effects = work.proof.effects
  BY <1>3 DEF None
<1>7. recorded' \in [Runs -> Nat] /\ recorded'[work.run] = applied[work.run]
  BY <1>1, <1>2 DEF HistoryInv, CountInv, CountShape
<1>8. Undecided' = Undecided
  BY <1>2, <1>4 DEF Undecided, Unfinished, PlanCompleted, PlanRevision
<1>9. CountInv'
  BY <1>1, <1>2, <1>3, <1>4, <1>5, <1>6, <1>7, <1>8 DEF CountInv, CountShape, EffectsAreCounted,
     CheckpointIsCounted, ProofIsCounted, FinishIsLast, UndecidedIsIdle, EndIsRecorded, Ending
<1>10. HistoryInv'
  <2>1. \A r \in Runs \ {work.run} : recorded'[r] = recorded[r]
    BY <1>2 DEF HistoryInv
  <2> QED
    BY <1>1, <1>2, <1>7, <2>1, OthersAreKept DEF HistoryInv, CountInv, CountShape
<1> QED
  BY <1>9, <1>10

LEMMA RequestCounts ==
  ASSUME LInv, EvidenceInv, RequestFinish \/ RequestBlock
  PROVE  CountInv'
<1>1. /\ WorkShape /\ CountInv
      /\ applied[work.run] \in Nat /\ recorded[work.run] \in Nat
  BY AtWork DEF RequestFinish, RequestBlock, Reached, In
<1>2. /\ UNCHANGED <<goal, plans, runs, applied, recorded, proved, stopped>>
      /\ work.phase = "queued" /\ work.stop = "no"
  BY DEF RequestFinish, RequestBlock, Reached, In, storeVars, history
<1>3. applied[work.run] = work.effects /\ recorded[work.run] <= applied[work.run]
  BY <1>1, <1>2 DEF CountInv, EffectsAreCounted, Ending
<1>4. /\ DOMAIN work' = DOMAIN work
      /\ Same(Counted \ {"phase", "tool", "decision", "pending"})
      /\ work'.phase = "turn"
  BY <1>1 DEF RequestFinish, RequestBlock, Counted, CountInv, CountShape, Same
<1>5. /\ work'.run = work.run /\ work'.stop = work.stop
      /\ work'.effects = work.effects /\ work'.lifecycle = work.lifecycle
      /\ work'.checkpointed = work.checkpointed /\ work'.checkpointEffects = work.checkpointEffects
      /\ work'.legacy = work.legacy /\ work'.proof = work.proof
  BY <1>4 DEF Same, Counted
<1>6. FinishIsLast'
  <2>1. CASE RequestFinish
    <3>1. recorded[work.run] = applied[work.run]
      BY <1>1, <1>2, <1>3, <2>1 DEF RequestFinish, Fresh, CountInv, CheckpointIsCounted, Ending
    <3>2. proved[work.run] = applied[work.run]
      BY <1>1, <1>3, <2>1 DEF RequestFinish, Transitioned, BoundTo, CountInv, ProofIsCounted
    <3> QED
      BY <1>2, <1>4, <1>5, <3>1, <3>2 DEF FinishIsLast
  <2>2. CASE RequestBlock
    <3>1. work.effects = 0
      BY <1>1, <2>2 DEF RequestBlock, Reached, In, CountInv, UndecidedIsIdle
    <3>2. recorded[work.run] = applied[work.run]
      BY <1>1, <1>3, <3>1
    <3>3. work'.pending.status = "blocked"
      BY <1>1, <2>2 DEF RequestBlock, Counted, CountInv, CountShape
    <3> QED
      BY <1>2, <1>4, <1>5, <3>2, <3>3 DEF FinishIsLast
  <2> QED
    BY <2>1, <2>2
<1>7. Undecided' => work.effects = 0
  <2>1. Unfinished' = Unfinished
    BY <1>2 DEF Unfinished, PlanCompleted, PlanRevision
  <2>2. CASE RequestFinish
    <3>1. work'.decision = work.decision
      BY <1>1, <2>2 DEF RequestFinish, Counted, CountInv, CountShape
    <3> QED
      BY <1>1, <1>5, <2>1, <3>1 DEF Undecided, CountInv, UndecidedIsIdle
  <2>3. CASE RequestBlock
    BY <1>1, <2>3 DEF RequestBlock, Reached, In, CountInv, UndecidedIsIdle
  <2> QED
    BY <2>2, <2>3
<1> QED
  BY <1>1, <1>2, <1>3, <1>4, <1>5, <1>6, <1>7 DEF CountInv, CountShape, EffectsAreCounted,
     CheckpointIsCounted, ProofIsCounted, UndecidedIsIdle, EndIsRecorded, Ending

(* The steps of a call that neither apply nor count an effect, and the     *)
(* answer.                                                                 *)
LEMMA PhaseCounts ==
  ASSUME LInv, EvidenceInv,
         \/ RefuseTool \/ BeginEffect \/ Answer
         \/ \E kind \in Kinds : EffectFails(kind)
  PROVE  CountInv'
<1>1. WorkShape /\ CountInv
  BY AtWork DEF RefuseTool, BeginEffect, Answer, EffectFails, Reached, In
<1>2. UNCHANGED <<goal, plans, runs, applied, recorded, proved, stopped>>
  BY DEF RefuseTool, BeginEffect, Answer, EffectFails, storeVars, history
<1>3. /\ DOMAIN work' = DOMAIN work
      /\ Same(Counted \ {"phase", "tool"})
  BY <1>1 DEF RefuseTool, BeginEffect, Answer, EffectFails, Counted, CountInv, CountShape, Same
<1>4. \/ work.phase = "queued" /\ work'.phase = "turn"
      \/ work.phase = "queued" /\ work.tool = "effect" /\ work'.phase = "executing"
      \/ work.phase = "executing" /\ work'.phase = "turn"
      \/ work.phase = "ending" /\ work'.phase = "closing"
  BY <1>1 DEF RefuseTool, BeginEffect, Answer, EffectFails, Reached, In, Counted, CountInv, CountShape
<1>5. /\ work'.run = work.run /\ work'.stop = work.stop
      /\ work'.effects = work.effects /\ work'.lifecycle = work.lifecycle /\ work'.pending = work.pending
      /\ work'.checkpointed = work.checkpointed /\ work'.checkpointEffects = work.checkpointEffects
      /\ work'.legacy = work.legacy /\ work'.proof = work.proof /\ work'.decision = work.decision
  BY <1>3 DEF Same, Counted
<1>6. Undecided' = Undecided
  BY <1>2, <1>5 DEF Undecided, Unfinished, PlanCompleted, PlanRevision
<1> QED
  BY <1>1, <1>2, <1>3, <1>4, <1>5, <1>6 DEF CountInv, CountShape, EffectsAreCounted, FinishIsLast,
     CheckpointIsCounted, ProofIsCounted, UndecidedIsIdle, EndIsRecorded, Ending

(* An effect happens, and its receipt is counted.                          *)
LEMMA EffectCounts ==
  ASSUME LInv, EvidenceInv, ApplyEffect \/ \E kind \in Kinds : ReceiveReceipt(kind)
  PROVE  CountInv' /\ HistoryInv'
<1>1. /\ WorkShape /\ CountInv /\ HistoryInv
      /\ applied[work.run] \in Nat /\ recorded[work.run] \in Nat
  BY AtWork DEF ApplyEffect, ReceiveReceipt, In, EvidenceInv
<1>2. /\ UNCHANGED <<goal, plans, runs, finishes, recorded, proved, stopped, crashed>>
      /\ host = "up" /\ host' = "up"
      /\ work.phase \in {"executing", "applied"}
  BY DEF ApplyEffect, ReceiveReceipt, In, storeVars, history
<1>3. /\ DOMAIN work' = DOMAIN work
      /\ Same(Counted \ {"phase", "tool", "effects"})
      /\ \/ /\ work.phase = "executing" /\ work'.phase = "applied" /\ work'.effects = work.effects
            /\ applied' = [applied EXCEPT ![work.run] = @ + 1]
         \/ /\ work.phase = "applied" /\ work'.phase = "turn" /\ work'.effects = work.effects + 1
            /\ applied' = applied
  <2>1. CASE ApplyEffect
    BY <1>1, <2>1 DEF ApplyEffect, In, Counted, CountInv, CountShape, Same
  <2>2. ASSUME NEW kind \in Kinds, ReceiveReceipt(kind)
        PROVE  /\ DOMAIN work' = DOMAIN work
               /\ Same(Counted \ {"phase", "tool", "effects"})
               /\ work.phase = "applied" /\ work'.phase = "turn" /\ work'.effects = work.effects + 1
               /\ applied' = applied
    BY <1>1, <2>2 DEF ReceiveReceipt, In, history, Counted, CountInv, CountShape, Same
  <2> QED
    BY <2>1, <2>2
<1>4. /\ work'.run = work.run /\ work'.stop = work.stop
      /\ work'.lifecycle = work.lifecycle /\ work'.pending = work.pending
      /\ work'.checkpointed = work.checkpointed /\ work'.checkpointEffects = work.checkpointEffects
      /\ work'.legacy = work.legacy /\ work'.proof = work.proof /\ work'.decision = work.decision
  BY <1>3 DEF Same, Counted
<1>5. ~Undecided'
  <2>1. Undecided' = Undecided
    BY <1>2, <1>4 DEF Undecided, Unfinished, PlanCompleted, PlanRevision
  <2> QED
    BY <1>1, <1>2, <2>1 DEF CountInv, UndecidedIsIdle
<1>6. /\ applied' \in [Runs -> Nat]
      /\ applied'[work.run] = IF work.phase = "executing" THEN applied[work.run] + 1 ELSE applied[work.run]
      /\ \A r \in Runs \ {work.run} : applied'[r] = applied[r]
  BY <1>1, <1>3 DEF HistoryInv, CountInv, CountShape
<1>7. CountInv'
  BY <1>1, <1>2, <1>3, <1>4, <1>5, <1>6 DEF CountInv, CountShape, EffectsAreCounted, FinishIsLast,
     CheckpointIsCounted, ProofIsCounted, UndecidedIsIdle, EndIsRecorded, Ending
<1>8. HistoryInv'
  BY <1>1, <1>2, <1>6, OthersAreKept DEF HistoryInv, CountInv, CountShape
<1> QED
  BY <1>7, <1>8

(* An end, by a report or by an error: the host leaves a checkpoint where  *)
(* the last one does not follow all effects.                               *)
LEMMA EndCounts ==
  ASSUME LInv, EvidenceInv, Yield \/ Fail
  PROVE  CountInv' /\ HistoryInv'
<1>1. /\ WorkShape /\ CountInv /\ HistoryInv
      /\ applied[work.run] \in Nat /\ recorded[work.run] \in Nat
  BY AtWork DEF Yield, Fail, In, EvidenceInv
<1>2. /\ UNCHANGED <<runs, finishes, applied, proved, stopped, crashed>>
      /\ host = "up" /\ host' = "up" /\ ~Ending
      /\ work.stop = "no" => work.phase = "turn"
      /\ EnsureGoalRunCheckpoint
  BY DEF Yield, Fail, In, EnsureGoalRunCheckpoint, AppendGoalCheckpoint, storeVars, Ending
<1>3. /\ DOMAIN work' = DOMAIN work
      /\ Same(Counted \ {"phase", "pending"})
      /\ work'.phase = "ending"
      /\ \/ work'.pending = NoFinish
         \/ work'.pending = work.pending /\ work.stop = "no"
  BY <1>1 DEF Yield, Fail, Counted, CountInv, CountShape, Same
<1>4. /\ work'.run = work.run /\ work'.stop = work.stop
      /\ work'.effects = work.effects /\ work'.lifecycle = work.lifecycle
      /\ work'.legacy = work.legacy /\ work'.proof = work.proof /\ work'.decision = work.decision
  BY <1>3 DEF Same, Counted
<1>5. goal'.status = "active" /\ plans' = plans
  BY <1>1, <1>2 DEF EnsureGoalRunCheckpoint, AppendGoalCheckpoint, storeVars,
     CountInv, CountShape, LInv, IInv, StoreTypeOK
<1>6. /\ recorded' \in [Runs -> Nat]
      /\ recorded'[work.run] = recorded[work.run] \/ recorded'[work.run] = applied[work.run]
      /\ \A r \in Runs \ {work.run} : recorded'[r] = recorded[r]
  BY <1>1, <1>2 DEF EnsureGoalRunCheckpoint, HistoryInv, CountInv, CountShape
<1>7. work.stop = "no" \/ work.pending # NoFinish => recorded'[work.run] = applied[work.run]
  <2>1. CASE work.pending # NoFinish
    BY <1>1, <1>6, <2>1 DEF CountInv, FinishIsLast
  <2>2. CASE work.pending = NoFinish /\ work.stop = "no"
    <3>1. CASE NeedsNoCheckpoint
      <4>1. recorded[work.run] = applied[work.run]
        BY <1>1, <1>2, <2>2, <3>1 DEF NeedsNoCheckpoint, Fresh, CountInv, EffectsAreCounted,
           CheckpointIsCounted
      <4> QED
        BY <1>6, <4>1
    <3>2. CASE ~NeedsNoCheckpoint
      BY <1>1, <1>2, <2>2, <3>2 DEF EnsureGoalRunCheckpoint, HistoryInv, CountInv, CountShape
    <3> QED
      BY <3>1, <3>2
  <2> QED
    BY <2>1, <2>2
<1>8. Undecided' = Undecided
  BY <1>4, <1>5 DEF Undecided, Unfinished, PlanCompleted, PlanRevision
<1>9. FinishIsLast'
  BY <1>1, <1>2, <1>3, <1>4, <1>7 DEF FinishIsLast, Ending, CountInv
<1>10. CountInv'
  BY <1>1, <1>2, <1>3, <1>4, <1>5, <1>6, <1>7, <1>8, <1>9 DEF CountInv, CountShape, EffectsAreCounted,
     CheckpointIsCounted, ProofIsCounted, UndecidedIsIdle, EndIsRecorded, Ending
<1>11. HistoryInv'
  BY <1>1, <1>2, <1>6, OthersAreKept DEF HistoryInv, CountInv, CountShape
<1> QED
  BY <1>10, <1>11

LEMMA StartCounts ==
  ASSUME LInv, EvidenceInv, NEW r \in Runs, StartRun(r)
  PROVE  CountInv' /\ HistoryInv'
<1>1. /\ HistoryInv /\ StoreTypeOK /\ runs[r].status = "none" /\ goal.status = "active"
      /\ runs' = [runs EXCEPT ![r].status = "running"]
      /\ UNCHANGED <<goal, plans, checkpoints, finishes, history>>
      /\ host = "up" /\ host' = "up"
      /\ work' = NewWork(r)
  BY DEF EvidenceInv, StartRun, InsertRun, LInv, IInv
<1>2. /\ Counted \subseteq DOMAIN work'
      /\ work'.run = r /\ work'.phase = "turn" /\ work'.effects = 0 /\ work'.lifecycle = 0
      /\ work'.stop = "no" /\ work'.checkpointed = FALSE /\ work'.proof = None
      /\ work'.pending = NoFinish
  BY <1>1 DEF NewWork, Counted
<1>3. applied[r] = 0 /\ recorded[r] = 0
  BY <1>1 DEF HistoryInv
<1>4. runs'[r].status = "running" /\ \A s \in Runs \ {r} : runs'[s] = runs[s]
  BY <1>1 DEF StoreTypeOK
<1>5. CountInv'
  BY <1>1, <1>2, <1>3, <1>4 DEF CountInv, CountShape, EffectsAreCounted, FinishIsLast,
     CheckpointIsCounted, ProofIsCounted, UndecidedIsIdle, EndIsRecorded, Ending, history
<1>6. HistoryInv'
  <2>1. CompletionIsProved'
    BY <1>1 DEF HistoryInv, CompletionIsProved, history
  <2>2. EffectsAreRecorded'
    BY <1>1, <1>4 DEF HistoryInv, EffectsAreRecorded, TerminalRunStatuses, history
  <2> QED
    BY <1>1, <1>4, <2>1, <2>2 DEF HistoryInv, history
<1> QED
  BY <1>5, <1>6

LEMMA UsageCounts ==
  ASSUME LInv, EvidenceInv, NEW total \in 1..MaxTokens, ReportUsage(total)
  PROVE  CountInv' /\ HistoryInv'
<1>1. /\ WorkShape /\ CountInv /\ HistoryInv
  BY AtWork DEF ReportUsage, In, EvidenceInv
<1>2. /\ UNCHANGED <<plans, checkpoints, finishes, work, history>>
      /\ host = "up" /\ host' = "up"
      /\ goal'.status = goal.status
      /\ \A r \in Runs : runs'[r].status = runs[r].status
  BY DEF ReportUsage, RecordRunUsage, In, memory, LInv, IInv, StoreTypeOK
<1>3. Undecided' = Undecided
  BY <1>2 DEF Undecided, Unfinished, PlanCompleted, PlanRevision
<1>4. CountInv'
  BY <1>1, <1>2, <1>3 DEF CountInv, CountShape, EffectsAreCounted, FinishIsLast, history,
     CheckpointIsCounted, ProofIsCounted, UndecidedIsIdle, EndIsRecorded, Ending
<1>5. HistoryInv'
  BY <1>1, <1>2 DEF HistoryInv, CompletionIsProved, EffectsAreRecorded, history
<1> QED
  BY <1>4, <1>5

(* The user and the timer stop a run that is not at its end.               *)
LEMMA StopCounts ==
  ASSUME LInv, EvidenceInv, work # NoWork,
         \/ CancelRun \/ RunTimesOut
         \/ \E m \in Mutations, action \in Actions : BeginMutation(m, action)
  PROVE  CountInv'
<1>1. WorkShape /\ CountInv /\ work.run # NoRun
  <2>1. CountInv /\ WorkShape
    BY DEF EvidenceInv, LInv, WorkInv
  <2> QED
    BY <2>1, LifecycleAssumption DEF WorkShape
<1>2. /\ UNCHANGED <<goal, plans, runs, applied, recorded, proved>>
      /\ stopped \subseteq stopped' /\ work.run \in stopped' /\ ~Ending
  BY <1>1 DEF CancelRun, RunTimesOut, BeginMutation, Stoppable, storeVars
<1>3. DOMAIN work' = DOMAIN work /\ Same(Counted \ {"stop"})
  BY <1>1 DEF CancelRun, RunTimesOut, BeginMutation, Cancelled, Counted, CountInv, CountShape, Same
<1>4. /\ work'.run = work.run /\ work'.phase = work.phase /\ work'.tool = work.tool
      /\ work'.effects = work.effects /\ work'.lifecycle = work.lifecycle /\ work'.pending = work.pending
      /\ work'.checkpointed = work.checkpointed /\ work'.checkpointEffects = work.checkpointEffects
      /\ work'.legacy = work.legacy /\ work'.proof = work.proof /\ work'.decision = work.decision
  BY <1>3 DEF Same, Counted
<1>5. Undecided' = Undecided
  BY <1>2, <1>4 DEF Undecided, Unfinished, PlanCompleted, PlanRevision
<1> QED
  BY <1>1, <1>2, <1>3, <1>4, <1>5 DEF CountInv, CountShape, EffectsAreCounted, FinishIsLast,
     CheckpointIsCounted, ProofIsCounted, UndecidedIsIdle, EndIsRecorded, Ending

(* A run leaves its row, its finish and nothing else.                      *)
LEMMA CloseCounts ==
  ASSUME LInv, EvidenceInv, Close \/ Interrupt
  PROVE  HistoryInv'
<1>1. /\ WorkShape /\ CountInv /\ HistoryInv /\ StoreTypeOK /\ CompletionHasEvidence
  BY AtWork DEF Close, Interrupt, In, EvidenceInv, LInv, IInv
<1>2. /\ Ending /\ UNCHANGED history /\ host = "up" /\ host' = "up"
  BY DEF Close, Interrupt, In, Ending
<1>3. PICK status \in TerminalRunStatuses, finish \in Finishes :
        /\ FinishRun(work.run, status, runs[work.run].totalTokens, finish)
        /\ finish = NoFinish \/ finish = work.pending
  <2>1. CASE Close
    BY <1>1, <1>2, <2>1 DEF Close, WorkShape
  <2>2. CASE Interrupt
    <3>1. "interrupted" \in TerminalRunStatuses /\ NoFinish \in Finishes
      BY DEF TerminalRunStatuses, Finishes
    <3> QED
      BY <2>2, <3>1 DEF Interrupt
  <2> QED
    BY <2>1, <2>2
<1>4. /\ runs'[work.run].status = status
      /\ \A r \in Runs \ {work.run} : runs'[r] = runs[r]
  BY <1>1, <1>3 DEF FinishRun, StoreTypeOK, WorkShape
<1>5. CompletionIsProved'
  <2>1. CASE finish = NoFinish
    BY <1>1, <1>2, <1>3, <2>1 DEF FinishRun, HistoryInv, CompletionIsProved, history
  <2>2. CASE finish # NoFinish
    <3>1. finishes' = Append(finishes, [run |-> work.run, status |-> finish.status,
                                        revision |-> goal.revision + 1])
      BY <1>3, <2>2 DEF FinishRun
    <3>2. finish.status = "completed" => /\ proved[work.run] = applied[work.run]
                                         /\ recorded[work.run] = applied[work.run]
      BY <1>1, <1>3, <2>2 DEF CountInv, FinishIsLast
    <3>3. finishes \in Seq([run : Runs, status : {"blocked", "completed"}, revision : Revisions])
      BY <1>1 DEF StoreTypeOK
    <3>4. ASSUME NEW i \in DOMAIN finishes', finishes'[i].status = "completed"
          PROVE  /\ proved[finishes'[i].run] = applied[finishes'[i].run]
                 /\ recorded[finishes'[i].run] = applied[finishes'[i].run]
      <4>1. CASE i = Len(finishes) + 1
        BY <3>1, <3>2, <3>3, <3>4, <4>1
      <4>2. CASE i # Len(finishes) + 1
        <5>1. i \in DOMAIN finishes /\ finishes'[i] = finishes[i]
          BY <3>1, <3>3, <3>4, <4>2
        <5> QED
          BY <1>1, <3>4, <5>1 DEF HistoryInv, CompletionIsProved
      <4> QED
        BY <4>1, <4>2
    <3> QED
      BY <1>2, <3>4 DEF CompletionIsProved, history
  <2> QED
    BY <2>1, <2>2
<1>6. EffectsAreRecorded'
  <2>1. work.run \notin stopped => recorded[work.run] = applied[work.run]
    BY <1>1, <1>2 DEF CountInv, CountShape, EndIsRecorded
  <2> QED
    BY <1>1, <1>2, <1>4, <2>1 DEF HistoryInv, EffectsAreRecorded, history
<1>7. \A r \in Runs : runs'[r].status = "none" => applied[r] = 0 /\ recorded[r] = 0
  BY <1>1, <1>4 DEF HistoryInv, TerminalRunStatuses
<1> QED
  BY <1>1, <1>2, <1>5, <1>6, <1>7 DEF HistoryInv, history

LEMMA RestartCounts ==
  ASSUME LInv, QueueInv, EvidenceInv, Restart
  PROVE  HistoryInv' /\ work' = NoWork
<1>1. HistoryInv /\ StoreTypeOK /\ CompletionHasEvidence
  BY DEF EvidenceInv, LInv, IInv
<1>2. /\ UNCHANGED <<finishes, work, applied, proved, stopped, crashed>>
      /\ host = "down" /\ host' = "up" /\ work = NoWork
      /\ recorded' = [r \in Runs |-> IF r \in Unrecorded THEN applied[r] ELSE recorded[r]]
  BY DEF Restart, RecoverInterruptedRuns, storeVars, QueueInv
<1>3. Unrecorded \subseteq RunningRuns /\ RunningRuns \subseteq crashed
  BY <1>1, <1>2 DEF Unrecorded, HistoryInv
<1>4. \A r \in Runs : \/ runs'[r].status = runs[r].status
                      \/ r \in RunningRuns /\ runs'[r].status = "interrupted"
  BY <1>1 DEF Restart, RecoverInterruptedRuns, storeVars, StoreTypeOK
<1>5. CompletionIsProved'
  <2>1. ASSUME NEW i \in DOMAIN finishes PROVE finishes[i].run \in Runs \ Unrecorded
    <3> DEFINE Ends == [run : Runs, status : {"blocked", "completed"}, revision : Revisions]
    <3>1. finishes \in Seq(Ends)
      BY <1>1 DEF StoreTypeOK
    <3>2. finishes[i] \in Ends
      <4> HIDE DEF Ends
      <4> QED
        BY <2>1, <3>1
    <3>3. runs[finishes[i].run].status = "completed"
      BY <1>1, <2>1 DEF CompletionHasEvidence
    <3> QED
      BY <1>3, <3>2, <3>3 DEF RunningRuns
  <2> QED
    BY <1>1, <1>2, <2>1 DEF HistoryInv, CompletionIsProved
<1>6. EffectsAreRecorded'
  BY <1>1, <1>2, <1>3, <1>4 DEF HistoryInv, EffectsAreRecorded
<1>7. recorded' \in [Runs -> Nat]
  BY <1>1, <1>2 DEF HistoryInv
<1>8. \A r \in Runs : runs'[r].status = "none" => applied[r] = 0 /\ recorded'[r] = 0
  BY <1>1, <1>2, <1>4 DEF HistoryInv
<1> QED
  BY <1>1, <1>2, <1>5, <1>6, <1>7, <1>8 DEF HistoryInv

(* The steps of the host while no run is at work.                          *)
LEMMA IdleCounts ==
  ASSUME LInv, EvidenceInv, Create \/ Crash \/ \E m \in Mutations : MutateGoal(m)
  PROVE  HistoryInv' /\ work' = NoWork
<1>1. HistoryInv
  BY DEF EvidenceInv
<1>2. /\ UNCHANGED <<runs, finishes, applied, recorded, proved, stopped>>
      /\ \/ host = "up" /\ host' = "up" /\ crashed' = crashed
         \/ host' = "down" /\ crashed' = crashed \cup RunningRuns
  BY DEF Create, CreateGoal, Crash, MutateGoal, UpdateGoal, history, memory, storeVars
<1>3. HistoryInv'
  BY <1>1, <1>2 DEF HistoryInv, CompletionIsProved, EffectsAreRecorded, RunningRuns
<1>4. work' = NoWork
  BY DEF Create, CreateGoal, Crash, MutateGoal, memory, EvidenceInv, CountInv, CountShape
<1> QED
  BY <1>3, <1>4

LEMMA CountStep ==
  ASSUME LInv, QueueInv, EvidenceInv, [Next]_vars
  PROVE  EvidenceInv'
<1>1. ASSUME /\ UNCHANGED <<runs, finishes, applied, recorded, proved, crashed, host>>
             /\ stopped \subseteq stopped'
      PROVE  HistoryInv'
  BY <1>1 DEF EvidenceInv, HistoryInv, CompletionIsProved, EffectsAreRecorded, RunningRuns
<1>2. CASE UNCHANGED vars
  <2>1. UNCHANGED <<goal, plans, runs, finishes, applied, recorded, proved, crashed, stopped, host, work>>
    BY <1>2 DEF vars, memory, storeVars, history
  <2>2. CountInv => CountInv'
    BY <2>1 DEF CountInv, CountShape, EffectsAreCounted, FinishIsLast, CheckpointIsCounted, ProofIsCounted,
       UndecidedIsIdle, EndIsRecorded, Ending, Undecided, Unfinished, PlanCompleted, PlanRevision
  <2> QED
    BY <1>1, <2>1, <2>2 DEF EvidenceInv
<1>3. ASSUME \/ \E decision \in {"cleanup", "conflict", "contract"}, contract \in SUBSET Kinds :
                  ClassifyScope(decision, contract)
             \/ Read
             \/ \E tool \in {"plan", "checkpoint", "finish", "block", "effect"} : CallTool(tool)
             \/ \E unfinished \in 0..MaxItems : UpdateGoalPlan(unfinished)
             \/ RequestFinish \/ RequestBlock
             \/ RefuseTool \/ BeginEffect \/ Answer
             \/ \E kind \in Kinds : EffectFails(kind)
      PROVE  EvidenceInv'
  <2>1. CountInv'
    BY <1>3, TurnCounts, CallCounts, PlanCounts, RequestCounts, PhaseCounts
  <2>2. HistoryInv'
    <3>1. /\ UNCHANGED <<runs, finishes, host>>
          /\ UNCHANGED history
      BY <1>3 DEF ClassifyScope, Read, CallTool, UpdateGoalPlan, AppendGoalPlan, RequestFinish,
         RequestBlock, RefuseTool, BeginEffect, Answer, EffectFails, storeVars
    <3> QED
      BY <1>1, <3>1 DEF history
  <2> QED
    BY <2>1, <2>2 DEF EvidenceInv
<1>4. ASSUME \/ CancelRun \/ RunTimesOut
             \/ \E m \in Mutations, action \in Actions : BeginMutation(m, action)
      PROVE  EvidenceInv'
  <2>1. HistoryInv'
    <3>1. UNCHANGED <<runs, finishes, applied, recorded, proved, crashed, host>> /\ stopped \subseteq stopped'
      BY <1>4 DEF CancelRun, RunTimesOut, BeginMutation, storeVars
    <3> QED
      BY <1>1, <3>1
  <2>2. work = NoWork => work' = NoWork
    BY <1>4 DEF CancelRun, RunTimesOut, BeginMutation, Stoppable, Cancelled, NoWork
  <2> QED
    BY <1>4, <2>1, <2>2, StopCounts DEF EvidenceInv
<1>5. ASSUME \/ AcceptProof \/ AcceptResponse \/ CheckpointGoal \/ ApplyEffect \/ Yield \/ Fail
             \/ \E kind \in Kinds : ReceiveReceipt(kind)
             \/ \E r \in Runs : StartRun(r)
             \/ \E total \in 1..MaxTokens : ReportUsage(total)
      PROVE  EvidenceInv'
  BY <1>5, ProofCounts, CheckpointCounts, EffectCounts, EndCounts, StartCounts, UsageCounts DEF EvidenceInv
<1>6. ASSUME Close \/ Interrupt PROVE EvidenceInv'
  BY <1>6, CloseCounts DEF EvidenceInv, Close, Interrupt
<1>7. ASSUME Create \/ Crash \/ Restart \/ \E m \in Mutations : MutateGoal(m) PROVE EvidenceInv'
  BY <1>7, IdleCounts, RestartCounts DEF EvidenceInv
<1>8. ASSUME NEW kind \in Kinds, ReceiveReceipt(kind) \/ EffectFails(kind) PROVE EvidenceInv'
  BY <1>3, <1>5, <1>8
<1>9. ASSUME Next PROVE EvidenceInv'
  BY <1>3, <1>4, <1>5, <1>6, <1>7, <1>8, <1>9, Steps
<1> QED
  BY <1>2, <1>9

LEMMA EvidenceHolds == Spec => []EvidenceInv
<1>1. Init => QueueInv
  BY DEF Init, QueueInv, NoWork
<1>2. LInv /\ QueueInv /\ [Next]_vars => QueueInv'
  BY QueueStep
<1>3. LInv /\ QueueInv /\ EvidenceInv /\ [Next]_vars => EvidenceInv'
  BY CountStep
<1> QED
  BY LInductive, EvidenceInit, <1>1, <1>2, <1>3, PTL DEF Spec

(* A goal that a run completed was proved by exactly the effects the run   *)
(* had, and its last checkpoint followed all of them (finish_goal,         *)
(* assertPendingGoalFinishCurrent and applyGoalFinish together).           *)
THEOREM CompletionRestsOnProof == Spec => []CompletionIsProved
<1>1. EvidenceInv => CompletionIsProved
  BY DEF EvidenceInv, HistoryInv
<1> QED
  BY EvidenceHolds, <1>1, PTL

(* A run that ended by a report or an error has no effect that its last    *)
(* checkpoint does not follow (ensureGoalRunCheckpoint).                   *)
THEOREM EffectsAreOnRecord == Spec => []EffectsAreRecorded
<1>1. EvidenceInv => EffectsAreRecorded
  BY DEF EvidenceInv, HistoryInv
<1> QED
  BY EvidenceHolds, <1>1, PTL

=============================================================================
