--------------------------- MODULE GoalLifecycle ---------------------------
(***************************************************************************)
(* A goal, the runs that work on it one after the other, the user's        *)
(* mutations of it, and crashes: performRun and its goal tools             *)
(* (services/agent.ts), mutateGoal (ipc.ts), the recovery at start-up      *)
(* (index.ts), over the transactions of GoalStore.                         *)
(*                                                                         *)
(* What a run does between two awaits is one step, except that each of its *)
(* transactions is a step of its own when a crash can separate them.       *)
(* What the model or a classifier answers is a choice.                     *)
(***************************************************************************)
EXTENDS GoalStore

CONSTANTS Kinds,            \* kinds of effects a work contract may ask for
          Mutations,        \* calls of mutateGoal
          TokenBudget,      \* tokenBudget of the goal
          MaxCalls,         \* maxTotalToolCalls
          LifecycleRounds,  \* GOAL_LIFECYCLE_RESERVED_ROUNDS
          PreparingRounds,  \* GOAL_SCOPE_CLEANUP_ and GOAL_RECOVERY_PLAN_MAX_ROUNDS
          NoRun

ASSUME LifecycleAssumption ==
    /\ NoRun \notin Runs
    /\ TokenBudget \in Nat \ {0}
    /\ MaxCalls \in Nat /\ LifecycleRounds \in Nat /\ PreparingRounds \in Nat

VARIABLES host,      \* the process: up, or down until recovery has run
          work,      \* the run in activeGoals and what performRun holds in memory
          mutation,  \* per call of mutateGoal
          answer,    \* per run: the text of its assistant message
          applied,   \* history: effects the run really had
          recorded,  \* history: how many of them its last checkpoint followed
          proved,    \* history: how many of them its accepted proof was about
          stopped,   \* history: runs that were cancelled or timed out
          crashed    \* history: runs the process died with

memory == <<host, work, mutation>>
history == <<applied, recorded, proved, stopped, crashed>>
vars == <<storeVars, memory, answer, history>>

None == [effects |-> 0, revision |-> 0, planRevision |-> 0, moved |-> FALSE]
NoWork == [run |-> NoRun, phase |-> "none"]

(* A run has persisted its rows; legacy says that its plan was found       *)
(* completed and has to be replaced before any work.                       *)
NewWork(r) ==
    [run |-> r, phase |-> "turn", stop |-> "no", tool |-> "none", bound |-> 0,
     legacy |-> PlanCompleted, decision |-> "none", contract |-> {},
     recoveries |-> 0, cleanups |-> 0,
     calls |-> 0, lifecycle |-> 0, planned |-> FALSE,
     effects |-> 0, checkpointed |-> FALSE, checkpointEffects |-> 0,
     succeeded |-> {}, failed |-> {}, evidence |-> FALSE,
     proof |-> None, pending |-> NoFinish, outcome |-> "none"]

Init ==
    /\ StoreInit
    /\ host = "up"
    /\ work = NoWork
    /\ mutation = [m \in Mutations |-> [stage |-> "idle", action |-> "none", seen |-> 0]]
    /\ answer = [r \in Runs |-> "partial"]
    /\ applied = [r \in Runs |-> 0]
    /\ recorded = [r \in Runs |-> 0]
    /\ proved = [r \in Runs |-> 0]
    /\ stopped = {}
    /\ crashed = {}

(* Between these phases performRun does not await: nothing but a crash     *)
(* comes between them.                                                     *)
Ending == work.phase \in {"ending", "closing"}
In(phase) == host = "up" /\ work.phase = phase

(* goalCheckpointFresh.                                                    *)
Fresh == work.checkpointed /\ work.checkpointEffects = work.effects
Missing == work.contract \ (work.succeeded \cup work.failed)
Satisfied == work.contract # {} /\ work.contract \subseteq work.succeeded

Exhausted == goal.usedTokens >= TokenBudget

(* The plan has an item to work on.                                        *)
Unfinished == plans # <<>> /\ ~PlanCompleted

(* The proof still is about this goal, this plan and these effects: before *)
(* and after the plan transition that it justified.                        *)
BoundTo(proof) == /\ proof # None
                  /\ proof.revision = goal.revision
                  /\ proof.planRevision = PlanRevision
                  /\ proof.effects = work.effects
MatchesSource == BoundTo(work.proof) /\ ~work.proof.moved
Transitioned == BoundTo(work.proof) /\ work.proof.moved

(* What the preflight of a goal tool reads again from the repository.      *)
ProofCurrent == MatchesSource \/ Transitioned
-----------------------------------------------------------------------------
(* A turn: what the host lets the provider do next.                        *)

(* The goal lock is taken by startRun and the rows are written by          *)
(* PersistentRun.initialize; RunCoordinator has what lies between.         *)
StartRun(r) ==
    /\ host = "up"
    /\ work = NoWork
    /\ \A m \in Mutations : mutation[m].stage # "waiting"
    /\ ~Exhausted
    /\ InsertRun(r)
    /\ work' = NewWork(r)
    /\ UNCHANGED <<host, mutation, answer, history>>

(* A stream reports a cumulative usage.                                    *)
ReportUsage(total) ==
    /\ In("turn")
    /\ RecordRunUsage(work.run, total)
    /\ UNCHANGED <<memory, answer, history>>

(* classifyGoalWorkScope, before any work on an unfinished plan: it finds  *)
(* items outside the objective, a conflict, or the work contract of the    *)
(* selected item (no effect asked for: a response).                        *)
ClassifyScope(decision, contract) ==
    /\ In("turn")
    /\ work.stop = "no" /\ work.pending = NoFinish /\ ~work.legacy
    /\ Unfinished
    /\ work.lifecycle = 0 /\ work.decision = "none"
    /\ decision # "contract" => contract = {}
    /\ work' = [work EXCEPT !.decision = decision, !.contract = contract]
    /\ UNCHANGED <<storeVars, host, mutation, answer, history>>

(* A proof of the selected item is bound to what it was made from.         *)
ProofNow == [effects |-> work.effects, revision |-> goal.revision,
             planRevision |-> PlanRevision, moved |-> FALSE]

(* What a verifier and a critic, neither of whom sees the other's answer,  *)
(* both find complete is proved.                                           *)
Verdicts == {"complete", "incomplete", "uncertain", "none"}
OutcomeProof(verifier, critic) ==
    IF verifier = "complete" /\ critic = "complete" THEN ProofNow ELSE None

(* The receipts of all the effects of the contract are accepted as the     *)
(* proof that the selected item is done.                                   *)
AcceptProof ==
    /\ In("turn")
    /\ work.stop = "no" /\ work.pending = NoFinish
    /\ work.lifecycle = 0 /\ work.decision = "contract" /\ ~MatchesSource
    /\ Satisfied
    /\ \E verifier, critic \in Verdicts :
          /\ OutcomeProof(verifier, critic) # None
          /\ work' = [work EXCEPT !.proof = OutcomeProof(verifier, critic)]
    /\ proved' = [proved EXCEPT ![work.run] = applied[work.run]]
    /\ UNCHANGED <<storeVars, host, mutation, answer, applied, recorded, stopped, crashed>>

(* What has to be done before any work: a new plan for a goal whose plan   *)
(* the run found completed, the removal of items outside the objective, or *)
(* a scope conflict.  A decision counts before the first lifecycle round.  *)
Cleaning == work.decision = "cleanup" /\ work.lifecycle = 0
Conflicting == work.decision = "conflict" /\ work.lifecycle = 0
MustPrepare == work.legacy \/ Cleaning \/ Conflicting

Prepares(tool) ==
    \/ work.legacy /\ work.recoveries < PreparingRounds /\ tool = "plan"
    \/ Cleaning /\ work.cleanups < PreparingRounds /\ tool = "plan"
    \/ Conflicting /\ tool = "block"

(* shouldEnterGoalLifecycle.  Whether the budget of rounds or calls runs   *)
(* low, or work stalled, is a choice; the first lifecycle round commits    *)
(* the run to the others.                                                  *)
ClosesWork ==
    /\ ~Fresh
    /\ work.lifecycle < LifecycleRounds
    /\ \/ work.lifecycle > 0 \/ Exhausted
       \/ plans = <<>> \/ PlanCompleted
       \/ Satisfied \/ work.failed # {} \/ MatchesSource

MayFinish == /\ Fresh
             /\ PlanCompleted
             /\ work.evidence
             /\ ProofCurrent
             /\ work.failed = {}
             /\ work.lifecycle < LifecycleRounds

(* goalFinalReportRequested: a turn without tools, unless an effect of the *)
(* contract is still missing.                                              *)
ReportOnly == /\ \/ Fresh \/ Exhausted
                 \/ work.calls = MaxCalls \/ work.lifecycle >= LifecycleRounds
              /\ Missing = {}

(* An unfinished plan is worked on only under a scope decision.            *)
Scoped == Unfinished /\ work.lifecycle = 0 => work.decision = "contract"
Authorized(kind) == Unfinished /\ work.decision = "contract" => kind \in work.contract

MustClose == ClosesWork /\ (work.lifecycle > 0 \/ Exhausted)

(* The one lifecycle tool of a forced turn, or an effect.                  *)
Offered(tool) ==
    IF MustPrepare THEN Prepares(tool)
    ELSE \/ ClosesWork /\ Scoped /\ tool = IF work.planned THEN "checkpoint" ELSE "plan"
         \/ ~ClosesWork /\ MayFinish /\ tool = "finish"
         \/ /\ ~MustClose /\ ~MayFinish /\ ~ReportOnly
            /\ work.calls < MaxCalls /\ ~Exhausted
            /\ Scoped
            /\ \E kind \in Kinds : Authorized(kind)
            /\ tool = "effect"

(* The provider answers with a call; executeToolCall finds the run not     *)
(* aborted and the goal active, and queues it.  A lifecycle call is bound  *)
(* to the revision the turn started from.                                  *)
CallTool(tool) ==
    /\ In("turn")
    /\ work.stop = "no" /\ work.pending = NoFinish
    /\ goal.status = "active"
    /\ Offered(tool)
    /\ work' = [work EXCEPT !.phase = "queued", !.tool = tool, !.bound = goal.revision,
                            !.calls = IF tool = "effect" THEN @ + 1 ELSE @,
                            !.recoveries = IF work.legacy THEN @ + 1 ELSE @,
                            !.cleanups = IF Cleaning /\ ~work.legacy THEN @ + 1 ELSE @,
                            !.lifecycle = IF tool = "effect" \/ work.legacy \/ Cleaning
                                          THEN @ ELSE @ + 1]
    /\ UNCHANGED <<storeVars, host, mutation, answer, history>>

(* A turn without a call under a contract that asks for no effect: its     *)
(* text is an answer to the selected item, and the classifier accepts it.  *)
(* (An answer that it discards leaves nothing behind.)                     *)
AcceptResponse ==
    /\ In("turn")
    /\ work.stop = "no" /\ work.pending = NoFinish
    /\ work.lifecycle = 0 /\ work.decision = "contract" /\ ~MatchesSource
    /\ work.contract = {}
    /\ ~MustPrepare /\ ~MustClose /\ ~MayFinish /\ ~ReportOnly
    /\ work' = [work EXCEPT !.proof = ProofNow, !.evidence = TRUE]
    /\ proved' = [proved EXCEPT ![work.run] = applied[work.run]]
    /\ UNCHANGED <<storeVars, host, mutation, answer, applied, recorded, stopped, crashed>>

(* A file is read.                                                         *)
Read ==
    /\ In("turn")
    /\ work.stop = "no" /\ work.pending = NoFinish /\ ~work.evidence
    /\ ~MustPrepare /\ ~MustClose /\ ~MayFinish /\ ~ReportOnly /\ Scoped
    /\ work' = [work EXCEPT !.evidence = TRUE]
    /\ UNCHANGED <<storeVars, host, mutation, answer, history>>
-----------------------------------------------------------------------------
(* The queue has reached the call: the registry looks at the signal once   *)
(* more, and a goal tool runs without an await.                            *)

Reached(tool) == In("queued") /\ work.tool = tool /\ work.stop = "no"

(* The plans that the preflight of update_goal_plan lets pass, by items    *)
(* left to do: a recovery plan, a cleaned plan, an initial plan, and one   *)
(* that advances the selected item at most.                                *)
MayRecordPlan(unfinished) ==
    IF work.legacy THEN unfinished > 0
    ELSE IF Cleaning THEN unfinished < plans[PlanRevision]
    ELSE IF plans = <<>> THEN unfinished > 0
    ELSE \/ PlanCompleted
         \/ unfinished >= plans[PlanRevision]
         \/ ProofCurrent /\ unfinished = plans[PlanRevision] - 1

(* The proof of the item that this plan completes is bound to the goal and *)
(* the plan that came of it; another plan leaves it without effect.        *)
ProofAfterPlan(unfinished) ==
    IF ~MustPrepare /\ plans # <<>> /\ MatchesSource
         /\ unfinished = plans[PlanRevision] - 1
    THEN [work.proof EXCEPT !.revision = goal.revision + 1,
                            !.planRevision = PlanRevision + 1, !.moved = TRUE]
    ELSE None

UpdateGoalPlan(unfinished) ==
    /\ Reached("plan")
    /\ MayRecordPlan(unfinished)
    /\ AppendGoalPlan(work.run, work.bound, unfinished)
    /\ work' = [work EXCEPT !.phase = "turn", !.tool = "none",
                            !.planned = ~MustPrepare \/ unfinished = 0,
                            !.decision = IF MustPrepare THEN "none" ELSE @,
                            !.legacy = FALSE,
                            !.proof = ProofAfterPlan(unfinished)]
    /\ UNCHANGED <<host, mutation, answer, history>>

(* The proof follows the goal to the revision of the checkpoint.           *)
CheckpointGoal ==
    /\ Reached("checkpoint")
    /\ AppendGoalCheckpoint(work.run, work.bound)
    /\ recorded' = [recorded EXCEPT ![work.run] = applied[work.run]]
    /\ work' = [work EXCEPT !.phase = "turn", !.tool = "none",
                            !.checkpointed = TRUE, !.checkpointEffects = work.effects,
                            !.proof = IF work.proof.moved /\ work.proof.planRevision = PlanRevision
                                      THEN [@ EXCEPT !.revision = goal.revision + 1] ELSE @]
    /\ UNCHANGED <<host, mutation, answer, applied, proved, stopped, crashed>>

(* finish_goal only notes what the end of the run shall do to the goal.    *)
RequestFinish ==
    /\ Reached("finish")
    /\ PlanCompleted /\ CheckpointedOn(work.run, PlanRevision)
    /\ Fresh /\ work.evidence /\ work.failed = {}
    /\ Transitioned
    /\ work' = [work EXCEPT !.phase = "turn", !.tool = "none",
                            !.pending = [status |-> "completed", expected |-> work.bound]]
    /\ UNCHANGED <<storeVars, host, mutation, answer, history>>

(* The host turns a scope conflict into a finish_goal that blocks.         *)
RequestBlock ==
    /\ Reached("block")
    /\ work' = [work EXCEPT !.phase = "turn", !.tool = "none", !.decision = "none",
                            !.pending = [status |-> "blocked", expected |-> work.bound]]
    /\ UNCHANGED <<storeVars, host, mutation, answer, history>>

(* The lifecycle call is refused; the round is spent.                      *)
RefuseTool ==
    /\ In("queued")
    /\ work.tool # "effect"
    /\ work.stop = "no"
    /\ work' = [work EXCEPT !.phase = "turn", !.tool = "none"]
    /\ UNCHANGED <<storeVars, host, mutation, answer, history>>

BeginEffect ==
    /\ Reached("effect")
    /\ work' = [work EXCEPT !.phase = "executing"]
    /\ UNCHANGED <<storeVars, host, mutation, answer, history>>

(* The effect is on the disk; its receipt is not yet with performRun.      *)
ApplyEffect ==
    /\ In("executing")
    /\ applied' = [applied EXCEPT ![work.run] = @ + 1]
    /\ work' = [work EXCEPT !.phase = "applied"]
    /\ UNCHANGED <<storeVars, host, mutation, answer, recorded, proved, stopped, crashed>>

(* Mutant: the receipt does not move the effect revision.                  *)
ReceiveReceiptUncounted(kind) ==
    /\ In("applied") /\ work.stop = "no" /\ Authorized(kind)
    /\ work' = [work EXCEPT !.phase = "turn", !.tool = "none", !.evidence = TRUE,
                            !.succeeded = @ \cup {kind}, !.failed = @ \ {kind}]
    /\ UNCHANGED <<storeVars, host, mutation, answer, history>>

ReceiveReceipt(kind) ==
    /\ In("applied") /\ work.stop = "no" /\ Authorized(kind)
    /\ work' = [work EXCEPT !.phase = "turn", !.tool = "none", !.evidence = TRUE,
                            !.effects = @ + 1,
                            !.succeeded = @ \cup {kind}, !.failed = @ \ {kind}]
    /\ UNCHANGED <<storeVars, host, mutation, answer, history>>

(* The effect was refused, denied or failed.                               *)
EffectFails(kind) ==
    /\ In("executing") /\ work.stop = "no" /\ Authorized(kind)
    /\ work' = [work EXCEPT !.phase = "turn", !.tool = "none", !.failed = @ \cup {kind}]
    /\ UNCHANGED <<storeVars, host, mutation, answer, history>>
-----------------------------------------------------------------------------
(* The end of a run.                                                       *)

(* Mutant: any checkpoint of the run will do.                              *)
HasCheckpoint == work.checkpointed

(* What spares the host its fallback checkpoint.                           *)
NeedsNoCheckpoint == Checkpointed(work.run) /\ Fresh

EnsureGoalRunCheckpoint ==
    IF work.pending # NoFinish \/ goal.status # "active" \/ NeedsNoCheckpoint
    THEN UNCHANGED <<storeVars, recorded>>
    ELSE /\ AppendGoalCheckpoint(work.run, goal.revision)
         /\ recorded' = [recorded EXCEPT ![work.run] = applied[work.run]]

(* assertPendingGoalFinishCurrent.                                         *)
FinishStillCurrent ==
    work.pending.status = "completed" =>
        /\ work.pending.expected = goal.revision
        /\ Transitioned
        /\ PlanCompleted
        /\ \E i \in DOMAIN checkpoints : checkpoints[i] = CheckpointRow(work.run, goal.revision)

(* The turn ends without a call.  The answer to a response contract goes   *)
(* to its validation instead (AcceptResponse).                            *)
Yield ==
    /\ In("turn")
    /\ work.stop = "no"
    /\ goal.status = "active"
    /\ ~MustPrepare /\ ~MustClose /\ Missing = {} /\ Scoped
    /\ work.pending = NoFinish => ~MayFinish
    /\ work.pending = NoFinish /\ Unfinished /\ work.lifecycle = 0 =>
         work.contract # {} \/ ReportOnly
    /\ FinishStillCurrent
    /\ EnsureGoalRunCheckpoint
    /\ work' = [work EXCEPT !.phase = "ending", !.outcome = "completed"]
    /\ UNCHANGED <<host, mutation, answer, applied, proved, stopped, crashed>>

FailedOutcome == IF work.stop = "cancel" THEN "cancelled"
                 ELSE IF work.succeeded # {} THEN "interrupted" ELSE "error"

(* The catch block: a provider error or a broken rule in a turn, or an     *)
(* abort, which reaches a queued call, an effect that has not happened and *)
(* one that has.                                                           *)
Fail ==
    /\ host = "up"
    /\ \/ work.phase = "turn"
       \/ work.phase \in {"queued", "executing", "applied"} /\ work.stop # "no"
    /\ EnsureGoalRunCheckpoint
    /\ work' = [work EXCEPT !.phase = "ending", !.pending = NoFinish,
                            !.outcome = FailedOutcome]
    /\ UNCHANGED <<host, mutation, answer, applied, proved, stopped, crashed>>

(* PersistentRun.finish: the message, and then the run with its goal.      *)
Answer ==
    /\ In("ending")
    /\ work.outcome # "interrupted"
    /\ answer' = [answer EXCEPT ![work.run] = IF work.outcome = "completed" THEN "final" ELSE @]
    /\ work' = [work EXCEPT !.phase = "closing"]
    /\ UNCHANGED <<storeVars, host, mutation, history>>

Close ==
    /\ In("closing")
    /\ FinishRun(work.run, work.outcome, runs[work.run].totalTokens, work.pending)
    /\ work' = NoWork
    /\ UNCHANGED <<host, mutation, answer, history>>

(* finishInterruptedWithHostSummary: one transaction for both.             *)
Interrupt ==
    /\ In("ending")
    /\ work.outcome = "interrupted"
    /\ answer' = [answer EXCEPT ![work.run] = "summary"]
    /\ FinishRun(work.run, "interrupted", runs[work.run].totalTokens, NoFinish)
    /\ work' = NoWork
    /\ UNCHANGED <<host, mutation, history>>
-----------------------------------------------------------------------------
(* The user, the timer, and crashes.                                       *)

Stoppable == host = "up" /\ work.run # NoRun /\ ~Ending

Cancelled == IF work.run = NoRun THEN work
             ELSE [work EXCEPT !.stop = IF @ = "no" THEN "cancel" ELSE @]

CancelRun ==
    /\ Stoppable
    /\ work.stop = "no"
    /\ work' = Cancelled
    /\ stopped' = stopped \cup {work.run}
    /\ UNCHANGED <<storeVars, host, mutation, answer, applied, recorded, proved, crashed>>

(* A run that the timer finds cancelled counts as timed out.               *)
RunTimesOut ==
    /\ Stoppable
    /\ work.stop # "timeout"
    /\ work' = [work EXCEPT !.stop = "timeout"]
    /\ stopped' = stopped \cup {work.run}
    /\ UNCHANGED <<storeVars, host, mutation, answer, applied, recorded, proved, crashed>>

Actions == {"edit", "pause", "resume", "clear", "complete"}

(* assertGoalMutationAllowed.                                              *)
MayMutate(action) ==
    CASE action = "edit" -> goal.status # "absent"
      [] action = "pause" -> goal.status \in {"active", "blocked"}
      [] action = "resume" -> goal.status \in {"paused", "blocked"}
      [] action = "clear" -> goal.status \in OpenStatuses
      [] action = "complete" -> goal.status = "active"

StatusAfter(action) ==
    CASE action = "edit" -> goal.status
      [] action = "pause" -> "paused"
      [] action = "resume" -> "active"
      [] action = "clear" -> "cleared"
      [] action = "complete" -> "completed"

(* The preflight against the revision the renderer has seen, then the      *)
(* cancellation of the run.                                                *)
BeginMutation(m, action) ==
    /\ host = "up" /\ ~Ending
    /\ mutation[m].stage = "idle"
    /\ \A n \in Mutations : mutation[n].stage # "waiting"
    /\ MayMutate(action)
    /\ mutation' = [mutation EXCEPT ![m] = [stage |-> "waiting", action |-> action,
                                            seen |-> goal.revision]]
    /\ work' = Cancelled
    /\ stopped' = stopped \cup ({work.run} \ {NoRun})
    /\ UNCHANGED <<storeVars, host, answer, applied, recorded, proved, crashed>>

(* Mutant: the cancelled run is not awaited.                               *)
MutateAtOnce(m) ==
    /\ host = "up" /\ ~Ending
    /\ mutation[m].stage = "waiting"
    /\ IF MayMutate(mutation[m].action)
       THEN UpdateGoal(goal.revision, StatusAfter(mutation[m].action))
       ELSE UNCHANGED storeVars
    /\ mutation' = [mutation EXCEPT ![m].stage = "done"]
    /\ UNCHANGED <<host, work, answer, history>>

(* Mutant: the mutation does not move the revision.                        *)
MutateInPlace(m) ==
    /\ host = "up" /\ work = NoWork
    /\ mutation[m].stage = "waiting"
    /\ IF MayMutate(mutation[m].action)
       THEN goal' = [goal EXCEPT !.status = StatusAfter(mutation[m].action)]
       ELSE UNCHANGED goal
    /\ mutation' = [mutation EXCEPT ![m].stage = "done"]
    /\ UNCHANGED <<plans, checkpoints, runs, finishes, host, work, answer, history>>

(* The run is over; the mutation is checked again and rebased.             *)
MutateGoal(m) ==
    /\ host = "up" /\ work = NoWork
    /\ mutation[m].stage = "waiting"
    /\ IF MayMutate(mutation[m].action)
       THEN UpdateGoal(goal.revision, StatusAfter(mutation[m].action))
       ELSE UNCHANGED storeVars
    /\ mutation' = [mutation EXCEPT ![m].stage = "done"]
    /\ UNCHANGED <<host, work, answer, history>>

Create ==
    /\ host = "up"
    /\ CreateGoal
    /\ UNCHANGED <<memory, answer, history>>

Crash ==
    /\ host = "up"
    /\ host' = "down"
    /\ work' = NoWork
    /\ mutation' = [m \in Mutations |->
                      IF mutation[m].stage = "waiting" THEN [mutation[m] EXCEPT !.stage = "lost"]
                                                       ELSE mutation[m]]
    /\ crashed' = crashed \cup RunningRuns
    /\ UNCHANGED <<storeVars, answer, applied, recorded, proved, stopped>>

Restart ==
    /\ host = "down"
    /\ host' = "up"
    /\ IF RunningRuns = {} THEN UNCHANGED storeVars ELSE RecoverInterruptedRuns
    /\ recorded' = [r \in Runs |-> IF r \in Unrecorded THEN applied[r] ELSE recorded[r]]
    /\ UNCHANGED <<work, mutation, answer, applied, proved, stopped, crashed>>

RunStep ==
    \/ \E total \in 1..MaxTokens : ReportUsage(total)
    \/ \E decision \in {"cleanup", "conflict", "contract"}, contract \in SUBSET Kinds :
         ClassifyScope(decision, contract)
    \/ AcceptProof
    \/ AcceptResponse
    \/ \E tool \in {"plan", "checkpoint", "finish", "block", "effect"} : CallTool(tool)
    \/ Read
    \/ \E unfinished \in 0..MaxItems : UpdateGoalPlan(unfinished)
    \/ CheckpointGoal
    \/ RequestFinish
    \/ RequestBlock
    \/ RefuseTool
    \/ BeginEffect
    \/ ApplyEffect
    \/ \E kind \in Kinds : ReceiveReceipt(kind) \/ EffectFails(kind)
    \/ Yield
    \/ Fail
    \/ Answer
    \/ Close
    \/ Interrupt

Next ==
    \/ Create
    \/ \E r \in Runs : StartRun(r)
    \/ RunStep
    \/ CancelRun
    \/ RunTimesOut
    \/ \E m \in Mutations : \/ \E action \in Actions : BeginMutation(m, action)
                            \/ MutateGoal(m)
    \/ Crash
    \/ Restart

Spec == Init /\ [][Next]_vars
-----------------------------------------------------------------------------
Phases == {"turn", "queued", "executing", "applied", "ending", "closing"}
Tools == {"none", "plan", "checkpoint", "finish", "block", "effect"}
Counts == 0..MaxCalls

WorkTypeOK ==
    /\ work.run \in Runs
    /\ work.phase \in Phases
    /\ work.stop \in {"no", "cancel", "timeout"}
    /\ work.tool \in Tools
    /\ work.decision \in {"none", "cleanup", "conflict", "contract"}
    /\ work.contract \subseteq Kinds /\ work.succeeded \subseteq Kinds /\ work.failed \subseteq Kinds
    /\ work.recoveries \in 0..PreparingRounds /\ work.cleanups \in 0..PreparingRounds
    /\ work.calls \in Counts /\ work.effects \in Counts /\ work.checkpointEffects \in Counts
    /\ work.lifecycle \in 0..LifecycleRounds
    /\ work.bound \in Revisions
    /\ work.outcome \in {"none"} \cup TerminalRunStatuses

(* The tables have their types, and what the process holds is in its       *)
(* limits: no more rounds and calls than reserved.                         *)
TypeOK ==
    /\ StoreTypeOK
    /\ host \in {"up", "down"}
    /\ work = NoWork \/ WorkTypeOK
    /\ mutation \in [Mutations -> [stage : {"idle", "waiting", "done", "lost"},
                                   action : Actions \cup {"none"}, seen : Revisions]]
    /\ answer \in [Runs -> {"partial", "final", "summary"}]
    /\ applied \in [Runs -> Nat] /\ recorded \in [Runs -> Nat] /\ proved \in [Runs -> Nat]
    /\ stopped \subseteq Runs /\ crashed \subseteq Runs

(* While the host is up, the only running row is that of the run in        *)
(* activeGoals: no end of a run and no crash leaves a row behind.          *)
OnlyTheActiveRunIsRunning ==
    host = "up" => RunningRuns \subseteq {work.run}

(* The revision that the host bound a lifecycle call to is the goal's      *)
(* until the call runs: its compare-and-set never loses to the user.       *)
BoundRevisionStaysCurrent ==
    work.phase = "queued" => goal.revision = work.bound

(* A goal that a run completed was proved by exactly the effects the run   *)
(* had, and its last checkpoint followed all of them.                      *)
CompletionIsProved ==
    \A i \in DOMAIN finishes :
        LET r == finishes[i].run IN
        finishes[i].status = "completed" => /\ proved[r] = applied[r]
                                            /\ recorded[r] = applied[r]

(* A run that ended on its own, by a report or by an error, leaves no      *)
(* effect that its last checkpoint does not follow.                        *)
EffectsAreRecorded ==
    \A r \in Runs \ (stopped \cup crashed) :
        runs[r].status \in TerminalRunStatuses => recorded[r] = applied[r]
=============================================================================
