----------------------------- MODULE GoalStore -----------------------------
(***************************************************************************)
(* One goal and its runs as ConversationRepository and RunJournal keep     *)
(* them (services/conversations.ts).  Every operation is one synchronous   *)
(* SQLite transaction, hence one step; an operation that throws rolls back *)
(* and is no step.  Whoever calls them, with whichever snapshot: the       *)
(* protocol of the callers is in GoalLifecycle.                            *)
(***************************************************************************)
EXTENDS Naturals, Sequences, FiniteSets, Functions

CONSTANTS Runs,         \* ids of the runs that may be attached to the goal
          MaxItems,     \* LIMITS.goalPlanItems
          MaxTokens,    \* bound: tokens one run may report
          MaxRevision   \* Number.MAX_SAFE_INTEGER

ASSUME StoreAssumption ==
    /\ IsFiniteSet(Runs)
    /\ MaxItems \in Nat
    /\ MaxTokens \in Nat
    /\ MaxRevision \in Nat \ {0}

VARIABLES goal,         \* the row of goals; usedTokens counts without a new revision
          plans,        \* goal_plan_revisions: per revision, the items not completed
          checkpoints,  \* goal_checkpoints, oldest first
          runs,         \* the rows of runs
          finishes      \* the audit events 'Goal finished with its run.'

storeVars == <<goal, plans, checkpoints, runs, finishes>>

OpenStatuses == {"active", "paused", "blocked"}
TerminalStatuses == {"completed", "cleared"}
GoalStatuses == OpenStatuses \cup TerminalStatuses
TerminalRunStatuses == {"completed", "cancelled", "error", "interrupted"}
NoFinish == [status |-> "none", expected |-> 0]

StoreInit ==
    /\ goal = [status |-> "absent", revision |-> 0, usedTokens |-> 0]
    /\ plans = <<>>
    /\ checkpoints = <<>>
    /\ runs = [r \in Runs |-> [status |-> "none", totalTokens |-> 0]]
    /\ finishes = <<>>

PlanRevision == Len(plans)
PlanCompleted == plans # <<>> /\ plans[PlanRevision] = 0
Checkpointed(r) == \E i \in DOMAIN checkpoints : checkpoints[i].run = r
CheckpointedOn(r, planRevision) ==
    \E i \in DOMAIN checkpoints : /\ checkpoints[i].run = r
                                  /\ checkpoints[i].planRevision = planRevision

(* The compare-and-set of every revision-bound write.                      *)
MatchesRevision(expected) == goal.revision = expected /\ goal.revision < MaxRevision
-----------------------------------------------------------------------------
(* The operations.                                                         *)

CreateGoal ==
    /\ goal.status = "absent"
    /\ goal' = [status |-> "active", revision |-> 1, usedTokens |-> 0]
    /\ UNCHANGED <<plans, checkpoints, runs, finishes>>

InsertRun(r) ==
    /\ runs[r].status = "none"
    /\ goal.status = "active"
    /\ runs' = [runs EXCEPT ![r].status = "running"]
    /\ UNCHANGED <<goal, plans, checkpoints, finishes>>

(* applyUsageSnapshot: the goal's ledger takes the growth of a cumulative  *)
(* snapshot.                                                               *)
UsageGrowth(r, total) == total - runs[r].totalTokens

RecordRunUsage(r, total) ==
    /\ runs[r].status = "running"
    /\ total > runs[r].totalTokens
    /\ goal' = [goal EXCEPT !.usedTokens = @ + UsageGrowth(r, total)]
    /\ runs' = [runs EXCEPT ![r].totalTokens = total]
    /\ UNCHANGED <<plans, checkpoints, finishes>>

(* What applyGoalFinish asks of the goal.                                  *)
MayFinishGoal(r, finish) ==
    finish # NoFinish => /\ goal.status = "active"
                         /\ MatchesRevision(finish.expected)
                         /\ finish.status = "completed" =>
                              PlanCompleted /\ CheckpointedOn(r, PlanRevision)

(* The terminal row of the run and the transition of its goal are one      *)
(* transaction.                                                            *)
FinishRun(r, status, total, finish) ==
    /\ runs[r].status = "running"
    /\ total >= runs[r].totalTokens
    /\ finish # NoFinish => status = "completed"
    /\ MayFinishGoal(r, finish)
    /\ runs' = [runs EXCEPT ![r] = [status |-> status, totalTokens |-> total]]
    /\ LET used == goal.usedTokens + UsageGrowth(r, total) IN
         IF finish = NoFinish
         THEN goal' = [goal EXCEPT !.usedTokens = used] /\ UNCHANGED finishes
         ELSE /\ goal' = [status |-> finish.status, revision |-> goal.revision + 1,
                          usedTokens |-> used]
              /\ finishes' = Append(finishes, [run |-> r, status |-> finish.status,
                                               revision |-> goal.revision + 1])
    /\ UNCHANGED <<plans, checkpoints>>

(* assertGoalTransition.                                                   *)
MayBecome(to) == goal.status \in TerminalStatuses => to = goal.status

UpdateGoal(expected, to) ==
    /\ goal.status # "absent"
    /\ MatchesRevision(expected)
    /\ MayBecome(to)
    /\ goal' = [goal EXCEPT !.status = to, !.revision = @ + 1]
    /\ UNCHANGED <<plans, checkpoints, runs, finishes>>

(* A run that leaves evidence is attached and still running; its goal is   *)
(* open.                                                                   *)
MayRecord(r, expected) ==
    /\ MatchesRevision(expected)
    /\ goal.status \in OpenStatuses
    /\ runs[r].status = "running"

AppendGoalPlan(r, expected, unfinished) ==
    /\ MayRecord(r, expected)
    /\ plans' = Append(plans, unfinished)
    /\ goal' = [goal EXCEPT !.revision = @ + 1]
    /\ UNCHANGED <<checkpoints, runs, finishes>>

CheckpointRow(r, revision) ==
    [run |-> r, revision |-> revision, planRevision |-> PlanRevision]

AppendGoalCheckpoint(r, expected) ==
    /\ MayRecord(r, expected)
    /\ checkpoints' = Append(checkpoints, CheckpointRow(r, goal.revision + 1))
    /\ goal' = [goal EXCEPT !.revision = @ + 1]
    /\ UNCHANGED <<plans, runs, finishes>>

RunningRuns == {r \in Runs : runs[r].status = "running"}

(* Interrupted runs of an open goal that left no checkpoint at all.        *)
Unrecorded == IF goal.status \in OpenStatuses
              THEN {r \in RunningRuns : ~Checkpointed(r)} ELSE {}

Orders(S) == {s \in [1..Cardinality(S) -> S] : \A i, j \in DOMAIN s : s[i] = s[j] => i = j}

(* Start-up: every running row becomes interrupted, in the order of the    *)
(* runs, and the host checkpoints those without a checkpoint.              *)
RecoverInterruptedRuns ==
    /\ RunningRuns # {}
    /\ goal.revision + Cardinality(Unrecorded) <= MaxRevision
    /\ runs' = [r \in Runs |-> IF r \in RunningRuns
                               THEN [runs[r] EXCEPT !.status = "interrupted"] ELSE runs[r]]
    /\ \E order \in Orders(Unrecorded) :
         checkpoints' = checkpoints \o [i \in DOMAIN order |-> CheckpointRow(order[i],
                                                                             goal.revision + i)]
    /\ goal' = [goal EXCEPT !.revision = @ + Cardinality(Unrecorded)]
    /\ UNCHANGED <<plans, finishes>>

(* Any caller, any snapshot of the past, any argument.                     *)
StoreNext ==
    \/ CreateGoal
    \/ RecoverInterruptedRuns
    \/ \E expected \in 1..goal.revision, to \in GoalStatuses : UpdateGoal(expected, to)
    \/ \E r \in Runs :
         \/ InsertRun(r)
         \/ \E total \in 1..MaxTokens : RecordRunUsage(r, total)
         \/ \E expected \in 1..goal.revision :
              \/ \E unfinished \in 0..MaxItems : AppendGoalPlan(r, expected, unfinished)
              \/ AppendGoalCheckpoint(r, expected)
         \/ \E status \in TerminalRunStatuses, total \in 0..MaxTokens,
               finish \in [status : {"blocked", "completed"}, expected : 1..goal.revision]
                            \cup {NoFinish} : FinishRun(r, status, total, finish)

(* What its callers rely on: the goal changes by these transactions only,  *)
(* each against the revision its caller named.                             *)
StoreSpec == StoreInit /\ [][UNCHANGED storeVars \/ StoreNext]_storeVars
-----------------------------------------------------------------------------
Revisions == 0..MaxRevision

(* The types of the tables.                                                *)
StoreTypeOK ==
    /\ goal \in [status : GoalStatuses \cup {"absent"}, revision : Revisions, usedTokens : Nat]
    /\ plans \in Seq(0..MaxItems)
    /\ checkpoints \in Seq([run : Runs, revision : Revisions, planRevision : Nat])
    /\ runs \in [Runs -> [status : {"none", "running"} \cup TerminalRunStatuses,
                          totalTokens : 0..MaxTokens]]
    /\ finishes \in Seq([run : Runs, status : {"blocked", "completed"}, revision : Revisions])

(* A revision names one state of the goal: whatever moves its status, plan *)
(* or checkpoints moves the revision, so that a snapshot that still        *)
(* matches has missed nothing (the compare-and-set of every write).        *)
RevisionNamesOneState ==
    [][<<goal.status, plans, checkpoints>>' # <<goal.status, plans, checkpoints>>
         => goal.revision' > goal.revision]_storeVars

(* A completed or cleared goal stays what it is, with its plan and its     *)
(* checkpoints; a run that ended keeps its outcome and its usage.          *)
TerminalIsFinal ==
    [][/\ goal.status \in TerminalStatuses =>
            <<goal.status, plans, checkpoints>>' = <<goal.status, plans, checkpoints>>
       /\ \A r \in Runs : runs[r].status \in TerminalRunStatuses => runs'[r] = runs[r]
      ]_storeVars

(* A goal that a run completed has a completed plan and a checkpoint of    *)
(* that run on this plan, written before; and the run itself completed.    *)
CompletionHasEvidence ==
    \A i \in DOMAIN finishes :
        LET finish == finishes[i] IN
        /\ runs[finish.run].status = "completed"
        /\ finish.status = "completed" =>
             /\ goal.status = "completed"
             /\ PlanCompleted
             /\ \E j \in DOMAIN checkpoints : /\ checkpoints[j].run = finish.run
                                              /\ checkpoints[j].planRevision = PlanRevision
                                              /\ checkpoints[j].revision < finish.revision

=============================================================================
