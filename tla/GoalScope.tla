----------------------------- MODULE GoalScope -----------------------------
(***************************************************************************)
(* How a run of a goal settles what it may do before any work is exposed   *)
(* (services/agent.ts): up to four independent classifier passes vote on   *)
(* the unfinished items of the plan, the host combines the votes, cleans   *)
(* the plan or blocks the goal, and only then offers tools with effects.   *)
(* What a classifier answers is a choice; needed and due are the truth it  *)
(* is asked about.  The plan does not change under a classification: only  *)
(* the run itself writes it (GoalLifecycle), so the snapshot checks pass.  *)
(***************************************************************************)
EXTENDS Naturals, Sequences, FiniteSets

CONSTANTS Items,            \* what an item of a plan may ask for
          Effects,          \* effect kinds: workspace-change, process, mcp
          MaxAttempts,      \* providerRetry.maxAttempts
          CleanupRounds,    \* GOAL_SCOPE_CLEANUP_MAX_ROUNDS
          RecoveryRounds,   \* GOAL_RECOVERY_PLAN_MAX_ROUNDS
          MaxItems,         \* LIMITS.goalPlanItems
          MaxRuns           \* bound: runs of the goal, one after the other

ASSUME ScopeAssumption ==
    /\ IsFiniteSet(Items) /\ IsFiniteSet(Effects)
    /\ {MaxAttempts, CleanupRounds, RecoveryRounds, MaxItems, MaxRuns} \subseteq Nat \ {0}

VARIABLES needed,       \* the items that the objective requires
          due,          \* per item, the effects it takes
          plan,         \* the current plan of the goal
          revision,     \* its plan revision
          run,          \* the local variables of performRun
          pass,         \* the answers of the classification under way or done
          decision,     \* goalWorkScopeDecision; it outlives the plan it was made on
          bypassed,     \* completionPolicyUnavailableIdentities holds this model
          wrong         \* history: passes of the last classification that were untrue

scopeVars == <<needed, due, plan, revision, run, pass, decision, bypassed, wrong>>
truth == <<needed, due>>

Votes == {"required", "outside", "uncertain"}
Statuses == {"pending", "in_progress", "completed"}
Entry == [item : Items, status : Statuses]
(* validateGoalPlanItems; the steps of a plan are told apart by their text.*)
ValidPlan(p) ==
    /\ Len(p) <= MaxItems
    /\ \A i, j \in DOMAIN p : i # j =>
         /\ p[i].item # p[j].item
         /\ ~(p[i].status = "in_progress" /\ p[j].status = "in_progress")
Plans == {p \in UNION {[1..n -> Entry] : n \in 0..MaxItems} : ValidPlan(p)}

None == 0
Unfinished == {i \in DOMAIN plan : plan[i].status # "completed"}
Voted(votes, v) == {i \in DOMAIN votes : votes[i] = v}
Least(S) == CHOOSE i \in S : \A j \in S : i <= j
(* The frontier: the first item in progress, else the first.               *)
Frontier(S) ==
    LET begun == {i \in S : plan[i].status = "in_progress"} IN
    IF S = {} THEN None ELSE IF begun # {} THEN Least(begun) ELSE Least(S)

NoPass == [scope |-> <<>>, scopeWork |-> {}, critic |-> <<>>, criticWork |-> {},
           arbiter |-> <<>>, joint |-> "none", jointWork |-> {}]
NoDecision == [outside |-> {}, selected |-> None, conflict |-> FALSE, work |-> {}, on |-> 0]
Shape(p) == IF p = <<>> THEN "empty"
            ELSE IF \A i \in DOMAIN p : p[i].status = "completed" THEN "completed"
            ELSE "unfinished"
(* A run starts; completionPolicyBypassed is read once.                    *)
FreshRun(n, p) ==
    [number |-> n, stage |-> "round", fallback |-> FALSE, attempt |-> 1, evaluations |-> 0,
     cleanups |-> 0, recoveries |-> 0, shape |-> Shape(p), recovered |-> FALSE,
     contract |-> <<>>]

ScopeInit ==
    /\ needed \in SUBSET Items
    /\ due \in [Items -> SUBSET Effects]
    /\ plan \in Plans
    /\ revision = 1
    /\ run = FreshRun(1, plan)
    /\ pass = NoPass
    /\ decision = NoDecision
    /\ bypassed = FALSE
    /\ wrong = 0
-----------------------------------------------------------------------------
(* The turns of a classifier: a tool call, retried, then one answer as     *)
(* JSON, retried.                                                          *)

Classifiers == {"recovery", "scope", "critic", "arbiter", "joint"}
Ended == {"failed", "blocked", "worked"}
Classifying == run.stage \in Classifiers
ToStage(r, stage) == [r EXCEPT !.stage = stage, !.fallback = FALSE, !.attempt = 1]

(* A retryable failure; one in mid-stream is retried only as JSON.         *)
TurnIsRetried ==
    /\ Classifying
    /\ run.attempt < MaxAttempts
    /\ run' = [run EXCEPT !.attempt = @ + 1]
    /\ UNCHANGED <<truth, plan, revision, pass, decision, bypassed, wrong>>

(* An answer that breaks the contract, a broken stream or a broken tool    *)
(* protocol.                                                               *)
TurnFallsBack ==
    /\ Classifying
    /\ ~run.fallback
    /\ run' = [run EXCEPT !.fallback = TRUE, !.attempt = 1]
    /\ UNCHANGED <<truth, plan, revision, pass, decision, bypassed, wrong>>

(* No parser accepts the JSON, or a vote after the first pass covers the   *)
(* wrong items, or no recovery plan is safe.                               *)
AnswerIsInvalid ==
    /\ Classifying
    /\ run.fallback \/ run.stage # "scope"
    /\ run' = [run EXCEPT !.stage = "failed"]
    /\ UNCHANGED <<truth, plan, revision, pass, decision, bypassed, wrong>>

(* A failure that is not retryable opens the circuit for this provider and *)
(* model; the last retryable one does not.                                 *)
ClassifierFails ==
    /\ Classifying
    /\ run' = [run EXCEPT !.stage = "failed"]
    /\ bypassed' \in {bypassed, TRUE}
    /\ UNCHANGED <<truth, plan, revision, pass, decision, wrong>>
-----------------------------------------------------------------------------
(* The four passes over the plan and what the host makes of them.          *)

Proposed(p) == Voted(p.scope, "required")
Authorized(p) == Voted(p.critic, "required")
Candidates(p) == Voted(p.scope, "outside") \cup Voted(p.critic, "outside")
Confirmed(p) == Voted(p.arbiter, "outside")
NeedsJoint(p) ==
    /\ Confirmed(p) = {}
    /\ Frontier(Authorized(p)) # None
    /\ \/ Frontier(Proposed(p)) # Frontier(Authorized(p))
       \/ p.scopeWork # p.criticWork

(* Mutant: a disagreement about the effects alone needs no confirmation.   *)
AgreedOnItem(p) ==
    NeedsJoint(p) => \/ p.joint = "required" /\ p.jointWork = p.criticWork
                     \/ Frontier(Proposed(p)) = Frontier(Authorized(p))

(* finalizeGoalScopeAuthorizationDecision: no effects unless the plan is   *)
(* clean and two passes agree on the frontier and on its effects.          *)
Agreed(p) == NeedsJoint(p) => p.joint = "required" /\ p.jointWork = p.criticWork

Decision(p) ==
    LET selected == Frontier(Authorized(p))
        exposed == Confirmed(p) = {} /\ selected # None /\ Agreed(p)
    IN [outside |-> Confirmed(p),
        selected |-> selected,
        conflict |-> Confirmed(p) = {} /\ ~exposed,
        work |-> IF exposed THEN p.criticWork ELSE {},
        on |-> revision]

AfterArbiter(p) == IF NeedsJoint(p) THEN "joint" ELSE "round"
AfterCritic(p) == IF Candidates(p) # {} THEN "arbiter" ELSE AfterArbiter(p)
AfterScope(p) == IF Proposed(p) # {} THEN "critic" ELSE AfterCritic(p)

(* An uncertain vote is not untrue.                                        *)
Untrue(vote, i) == \/ vote = "required" /\ plan[i].item \notin needed
                   \/ vote = "outside" /\ plan[i].item \in needed
UntrueVotes(votes) == \E i \in DOMAIN votes : Untrue(votes[i], i)
UntrueWork(S, work) == Frontier(S) # None /\ work # due[plan[Frontier(S)].item]

(* The answer is taken; the last one decides.                              *)
Proceed(p, stage, untrue) ==
    /\ pass' = p
    /\ wrong' = (IF run.stage = "scope" THEN 0 ELSE wrong) + (IF untrue THEN 1 ELSE 0)
    /\ run' = ToStage(run, stage)
    /\ decision' = IF stage = "round" THEN Decision(p) ELSE decision
    /\ UNCHANGED <<truth, plan, revision, bypassed>>

(* validateGoalWorkScopeDecision: a vote on each unfinished item, and no   *)
(* effects without a frontier.                                             *)
ScopeAnswers ==
    /\ run.stage = "scope"
    /\ \E votes \in [Unfinished -> Votes], work \in SUBSET Effects :
         LET p == [NoPass EXCEPT !.scope = votes, !.scopeWork = work] IN
         /\ Proposed(p) = {} => work = {}
         /\ Proceed(p, AfterScope(p), UntrueVotes(votes) \/ UntrueWork(Proposed(p), work))

(* The critic sees what was proposed as required, nothing else.            *)
CriticAnswers ==
    /\ run.stage = "critic"
    /\ \E votes \in [Proposed(pass) -> Votes], work \in SUBSET Effects :
         LET p == [pass EXCEPT !.critic = votes, !.criticWork = work] IN
         /\ Authorized(p) = {} => work = {}
         /\ Proceed(p, AfterCritic(p), UntrueVotes(votes) \/ UntrueWork(Authorized(p), work))

(* Mutant: what one of them would remove needs no confirmation.            *)
ArbiterConfirms ==
    /\ run.stage = "arbiter"
    /\ LET p == [pass EXCEPT !.arbiter = [i \in Candidates(pass) |-> "outside"]] IN
       Proceed(p, AfterArbiter(p), FALSE)

(* The arbiter sees what one of them would remove, not who; whatever it    *)
(* does not confirm stays.                                                 *)
ArbiterAnswers ==
    /\ run.stage = "arbiter"
    /\ \E votes \in [Candidates(pass) -> Votes] :
         LET p == [pass EXCEPT !.arbiter = votes] IN
         Proceed(p, AfterArbiter(p), UntrueVotes(votes))

JointAnswers ==
    /\ run.stage = "joint"
    /\ \E vote \in Votes, work \in SUBSET Effects :
         Proceed([pass EXCEPT !.joint = vote, !.jointWork = work], "round",
                 LET selected == Frontier(Authorized(pass)) IN
                 \/ Untrue(vote, selected)
                 \/ vote = "required" /\ UntrueWork({selected}, work))

(* The recovery plan: fresh pending items, one at least of them a check of *)
(* the objective.  An uncertain answer fails the run.                      *)
RecoveryAnswers ==
    /\ run.stage = "recovery"
    /\ \E p \in {q \in Plans : q # <<>> /\ \A i \in DOMAIN q : q[i].status = "pending"} :
         run' = [ToStage(run, "round") EXCEPT !.contract = p]
    /\ UNCHANGED <<truth, plan, revision, pass, decision, bypassed, wrong>>
-----------------------------------------------------------------------------
(* A round of performRun before there is work.                             *)

RecoveryDue == run.shape \in {"empty", "completed"} /\ ~run.recovered
CleanupDue == decision.outside # {}
ConflictDue == decision.conflict /\ ~CleanupDue
Unclassified == Unfinished # {} /\ decision.on # revision
MaxEvaluations == 1 + CleanupRounds + RecoveryRounds
Fail == run' = [run EXCEPT !.stage = "failed"]

Classify(stage) ==
    IF bypassed \/ run.evaluations >= MaxEvaluations THEN Fail
    ELSE run' = [ToStage(run, stage) EXCEPT !.evaluations = @ + 1]

(* What the next provider turn is for.                                     *)
Purpose ==
    IF RecoveryDue
    THEN IF run.recoveries < RecoveryRounds THEN "replan" ELSE "failed"
    ELSE IF CleanupDue
    THEN IF run.cleanups < CleanupRounds THEN "cleanup" ELSE "failed"
    ELSE IF ConflictDue THEN "conflict" ELSE "work"

Round ==
    /\ run.stage = "round"
    /\ IF RecoveryDue /\ run.contract = <<>> THEN Classify("recovery")
       ELSE IF Unclassified THEN Classify("scope")
       ELSE run' = [run EXCEPT !.stage = Purpose]
    /\ UNCHANGED <<truth, plan, revision, pass, decision, bypassed, wrong>>

WritePlan(p) == plan' = p /\ revision' = revision + 1

(* The plan of the forced call is the host's projection, in the order of   *)
(* the plan (the k-th item has k kept items up to itself); a call whose    *)
(* arguments are refused uses up its round.                                *)
Kept(outside) ==
    LET kept == DOMAIN plan \ outside IN
    [k \in 1..Cardinality(kept) |->
        plan[CHOOSE i \in kept : Cardinality({j \in kept : j <= i}) = k]]

Cleanup ==
    /\ run.stage = "cleanup"
    /\ run' = [run EXCEPT !.stage = "round", !.cleanups = @ + 1]
    /\ WritePlan(Kept(decision.outside)) \/ UNCHANGED <<plan, revision>>
    /\ UNCHANGED <<truth, pass, decision, bypassed, wrong>>

Replan ==
    /\ run.stage = "replan"
    /\ \/ /\ WritePlan(run.contract)
          /\ run' = [run EXCEPT !.stage = "round", !.recoveries = @ + 1, !.recovered = TRUE]
       \/ /\ run' = [run EXCEPT !.stage = "round", !.recoveries = @ + 1]
          /\ UNCHANGED <<plan, revision>>
    /\ UNCHANGED <<truth, pass, decision, bypassed, wrong>>

(* The forced finish_goal, bound to status blocked.                        *)
Block ==
    /\ run.stage = "conflict"
    /\ run' = [run EXCEPT !.stage = "blocked"]
    /\ UNCHANGED <<truth, plan, revision, pass, decision, bypassed, wrong>>

(* validateGoalPlanFrontierTransition: only the selected item advances,    *)
(* and new items are appended as pending.                                  *)
Rank(status) == CASE status = "pending" -> 0 [] status = "in_progress" -> 1
                  [] status = "completed" -> 2
MayFollow(p) ==
    /\ Len(p) >= Len(plan)
    /\ \A i \in DOMAIN p :
         IF i \in DOMAIN plan
         THEN /\ p[i].item = plan[i].item
              /\ i # decision.selected => p[i].status = plan[i].status
              /\ Rank(p[i].status) >= Rank(plan[i].status)
         ELSE p[i].status = "pending"

(* The work of the run and its plan update (GoalLifecycle says when an     *)
(* item may be completed); a run may also end with its plan as it was.     *)
Work ==
    /\ run.stage = "work"
    /\ run' = [run EXCEPT !.stage = "worked"]
    /\ \/ \E p \in Plans : MayFollow(p) /\ WritePlan(p)
       \/ UNCHANGED <<plan, revision>>
    /\ UNCHANGED <<truth, pass, decision, bypassed, wrong>>

(* A cancellation, the deadline, a provider error outside a classifier, or *)
(* a forced turn without exactly one call of the offered tool.             *)
Stop ==
    /\ run.stage \notin Ended \cup {"round"}
    /\ Fail
    /\ UNCHANGED <<truth, plan, revision, pass, decision, bypassed, wrong>>

(* The next run of the goal, resumed by the user where it was blocked.     *)
NextRun ==
    /\ run.stage \in Ended
    /\ run.number < MaxRuns
    /\ run' = FreshRun(run.number + 1, plan)
    /\ pass' = NoPass
    /\ decision' = NoDecision
    /\ wrong' = 0
    /\ UNCHANGED <<truth, plan, revision, bypassed>>

ScopeNext ==
    \/ TurnIsRetried \/ TurnFallsBack \/ AnswerIsInvalid \/ ClassifierFails
    \/ ScopeAnswers \/ CriticAnswers \/ ArbiterAnswers \/ JointAnswers \/ RecoveryAnswers
    \/ Round \/ Cleanup \/ Replan \/ Block \/ Work \/ Stop \/ NextRun

ScopeSpec == ScopeInit /\ [][ScopeNext]_scopeVars
-----------------------------------------------------------------------------
(* One classifier that is wrong, in its vote on any item or in the effects *)
(* it asks for, exposes no work outside the objective and no effect that   *)
(* its item does not take; tools with effects are offered under a decision *)
(* about the current plan only.                                            *)
OneWrongPassExposesNothing ==
    run.stage = "work" /\ wrong <= 1 =>
        /\ decision.on = revision
        /\ decision.selected \in Unfinished
        /\ plan[decision.selected].item \in needed
        /\ decision.work = due[plan[decision.selected].item]

InPlan(p, item) == \E i \in DOMAIN p : p[i].item = item

(* Over every classification, cleanup, recovery and run, an item that the  *)
(* objective needs leaves the plan only by being completed, unless two     *)
(* passes were wrong together (projectGoalScopeCleanupItems).              *)
NeededItemsStay ==
    [][\A i \in Unfinished :
         plan[i].item \in needed /\ wrong <= 1 => InPlan(plan', plan[i].item)]_scopeVars
=============================================================================
