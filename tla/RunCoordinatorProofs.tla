------------------------ MODULE RunCoordinatorProofs ------------------------
(***************************************************************************)
(* The runs and what is around their work.  First RunCoordinator, for any  *)
(* number of runs, conversations, goals, suspending operations and goal    *)
(* mutations: the registries agree, and who waits for runs is alone.  Then *)
(* GoalScope, for any plan, effects, rounds and number of runs: one wrong  *)
(* classifier neither exposes work nor takes a needed item away.           *)
(***************************************************************************)
EXTENDS RunCoordinator, GoalScope, FiniteSetTheorems, WellFoundedInduction, TLAPS

Busy(s) == suspension[s].stage \in {"waiting", "operating"}

(* While an operation suspends the runs the flag is its own, the runs that *)
(* exist are among those it awaits, and when it operates there are none.   *)
SuspensionInv ==
    \A s \in Suspensions : Busy(s) =>
        /\ runsSuspended
        /\ \A other \in Suspensions : Busy(other) => other = s
        /\ runCompletions \subseteq suspension[s].awaits
        /\ suspension[s].stage = "operating" => runCompletions = {}

(* While a mutation waits it holds the lock of its goal alone, and a run   *)
(* that works for the goal is the one it awaits.                           *)
MutationInv ==
    \A m \in Mutations : mutation[m].stage = "waiting" =>
        /\ GoalMutated[m] \in goalMutations
        /\ \A other \in Mutations :
             mutation[other].stage = "waiting" /\ GoalMutated[other] = GoalMutated[m] => other = m
        /\ \A r \in activeRuns : GoalOf[r] = GoalMutated[m] => r \in mutation[m].awaits

(* From the quit on no run is added to those the shutdown awaits.          *)
QuitInv == host # "up" => runCompletions \subseteq quitting

IInv == TypeOK /\ RegistriesAgree /\ SuspensionInv /\ MutationInv /\ QuitInv

-----------------------------------------------------------------------------
LEMMA TypeInit == Init => TypeOK
<1> SUFFICES ASSUME Init PROVE TypeOK
  OBVIOUS
<1>1. [stage |-> "idle", awaits |-> {}] \in Calls
  BY DEF Calls, CallStages
<1> QED
  BY <1>1, RunsAssumption DEF Init, TypeOK, Phases

LEMMA TypeStep == TypeOK /\ [Next]_vars => TypeOK'
<1> SUFFICES ASSUME TypeOK, [Next]_vars PROVE TypeOK'
  OBVIOUS
<1> USE RunsAssumption DEF TypeOK, Phases, Calls, CallStages
<1>1. ASSUME NEW r \in Runs, StartRun(r) PROVE TypeOK'
  BY <1>1 DEF StartRun
<1>2. ASSUME NEW r \in Runs, CancelRun(r) PROVE TypeOK'
  BY <1>2 DEF CancelRun, Cancel
<1>3. ASSUME NEW r \in Runs, RunStep(r) PROVE TypeOK'
  <2>1. CASE EnterBody(r)
    BY <2>1 DEF EnterBody
  <2>2. CASE LeaveBody(r)
    BY <2>2 DEF LeaveBody, Leave
  <2>3. CASE LeaveAbortedBody(r)
    BY <2>3 DEF LeaveAbortedBody
  <2>4. CASE DriverCancelled(r)
    BY <2>4 DEF DriverCancelled, Leave
  <2>5. CASE McpClosed(r)
    BY <2>5 DEF McpClosed
  <2>6. CASE Complete(r)
    BY <2>6 DEF Complete
  <2> QED
    BY <1>3, <2>1, <2>2, <2>3, <2>4, <2>5, <2>6 DEF RunStep
<1>4. ASSUME NEW s \in Suspensions, Suspend(s) PROVE TypeOK'
  BY <1>4 DEF Suspend, Cancel
<1>5. ASSUME NEW s \in Suspensions, Operate(s) PROVE TypeOK'
  BY <1>5 DEF Operate, runVars
<1>6. ASSUME NEW s \in Suspensions, Resume(s) PROVE TypeOK'
  BY <1>6 DEF Resume, runVars
<1>7. ASSUME NEW m \in Mutations, ReserveGoal(m) PROVE TypeOK'
  BY <1>7 DEF ReserveGoal, Cancel, RunOfGoal
<1>8. ASSUME NEW m \in Mutations, MutateGoal(m) PROVE TypeOK'
  BY <1>8 DEF MutateGoal, runVars
<1>9. CASE Quit
  BY <1>9 DEF Quit, Cancel
<1>10. CASE CloseServices
  BY <1>10 DEF CloseServices, runVars
<1>11. CASE GracePeriodEnds
  BY <1>11 DEF GracePeriodEnds, runVars
<1>12. CASE UNCHANGED vars
  BY <1>12 DEF vars, runVars
<1> QED
  BY <1>1, <1>2, <1>3, <1>4, <1>5, <1>6, <1>7, <1>8, <1>9, <1>10, <1>11, <1>12 DEF Next
-----------------------------------------------------------------------------
(* A run that leaves takes its own entries along.                          *)
LEMMA LeaveRegistries ==
  ASSUME TypeOK, RegistriesAgree, NEW r \in Runs, phase[r] \in Working, Leave(r)
  PROVE  RegistriesAgree'
<1> USE RunsAssumption DEF TypeOK
<1>1. phase'[r] \in {"closing", "title"} /\ \A q \in Runs \ {r} : phase'[q] = phase[q]
  BY DEF Leave, Phases
<1>2. r \in activeRuns
  BY DEF RegistriesAgree
<1>3. (activeRuns = {q \in Runs : phase[q] \in Working})'
  BY <1>1 DEF Leave, RegistriesAgree, Working
<1>4. (runCompletions = {q \in Runs : phase[q] \notin {"idle", "over"}})'
  BY <1>1 DEF Leave, RegistriesAgree, Working
<1>5. (\A c \in Conversations, q \in Runs :
         activeConversations[c] = q <=> q \in activeRuns /\ ConversationOf[q] = c)'
  BY DEF Leave, RegistriesAgree
<1>6. (\A g \in Goals, q \in Runs :
         activeGoals[g] = q <=> q \in activeRuns /\ GoalOf[q] = g)'
  BY DEF Leave, RegistriesAgree
<1>7. (Cardinality(activeRuns) <= MaxConcurrentRuns)'
  <2>1. IsFiniteSet(activeRuns)
    BY LimitAssumption, FS_Subset
  <2>2. Cardinality(activeRuns \ {r}) = Cardinality(activeRuns) - 1
    BY <1>2, <2>1, FS_RemoveElement
  <2>3. Cardinality(activeRuns) \in Nat
    BY <2>1, FS_CardinalityType
  <2> QED
    BY <2>2, <2>3, LimitAssumption DEF Leave, RegistriesAgree
<1> QED
  BY <1>3, <1>4, <1>5, <1>6, <1>7 DEF RegistriesAgree

LEMMA StartRegistries ==
  ASSUME TypeOK, RegistriesAgree, NEW r \in Runs, StartRun(r)
  PROVE  RegistriesAgree'
<1> USE RunsAssumption DEF TypeOK
<1>1. phase'[r] = "scheduled" /\ \A q \in Runs \ {r} : phase'[q] = phase[q]
  BY DEF StartRun
<1>2. r \notin activeRuns
  BY DEF StartRun, RegistriesAgree, Working
<1>3. (activeRuns = {q \in Runs : phase[q] \in Working})'
  BY <1>1 DEF StartRun, RegistriesAgree, Working
<1>4. (runCompletions = {q \in Runs : phase[q] \notin {"idle", "over"}})'
  BY <1>1 DEF StartRun, RegistriesAgree, Working
<1>5. (\A c \in Conversations, q \in Runs :
         activeConversations[c] = q <=> q \in activeRuns /\ ConversationOf[q] = c)'
  BY <1>2 DEF StartRun, MayStart, RegistriesAgree
<1>6. (\A g \in Goals, q \in Runs :
         activeGoals[g] = q <=> q \in activeRuns /\ GoalOf[q] = g)'
  BY <1>2 DEF StartRun, MayStart, RegistriesAgree
<1>7. (Cardinality(activeRuns) <= MaxConcurrentRuns)'
  <2>1. IsFiniteSet(activeRuns)
    BY LimitAssumption, FS_Subset
  <2>2. Cardinality(activeRuns \cup {r}) = Cardinality(activeRuns) + 1
    BY <1>2, <2>1, FS_AddElement
  <2>3. Cardinality(activeRuns) \in Nat
    BY <2>1, FS_CardinalityType
  <2> QED
    BY <2>2, <2>3, LimitAssumption DEF StartRun, MayStart
<1> QED
  BY <1>3, <1>4, <1>5, <1>6, <1>7 DEF RegistriesAgree

LEMMA RegistriesStep == TypeOK /\ RegistriesAgree /\ [Next]_vars => RegistriesAgree'
<1> SUFFICES ASSUME TypeOK, RegistriesAgree, [Next]_vars PROVE RegistriesAgree'
  OBVIOUS
<1>1. ASSUME NEW r \in Runs, StartRun(r) PROVE RegistriesAgree'
  BY <1>1, StartRegistries
<1>2. ASSUME NEW r \in Runs, RunStep(r) PROVE RegistriesAgree'
  <2> USE DEF TypeOK
  <2>1. CASE EnterBody(r)
    BY <2>1 DEF EnterBody, RegistriesAgree, Working
  <2>2. CASE LeaveBody(r)
    BY <2>2, LeaveRegistries DEF LeaveBody, Working
  <2>3. CASE LeaveAbortedBody(r)
    BY <2>3 DEF LeaveAbortedBody, RegistriesAgree, Working
  <2>4. CASE DriverCancelled(r)
    BY <2>4, LeaveRegistries DEF DriverCancelled, Working
  <2>5. CASE McpClosed(r)
    BY <2>5 DEF McpClosed, RegistriesAgree, Working
  <2>6. CASE Complete(r)
    BY <2>6 DEF Complete, RegistriesAgree, Working
  <2> QED
    BY <1>2, <2>1, <2>2, <2>3, <2>4, <2>5, <2>6 DEF RunStep
<1>3. CASE UNCHANGED <<phase, activeRuns, activeConversations, activeGoals, runCompletions>>
  BY <1>3 DEF RegistriesAgree
<1> QED
  BY <1>1, <1>2, <1>3
  DEF Next, CancelRun, Suspend, Operate, Resume, ReserveGoal, MutateGoal, Quit, CloseServices,
      GracePeriodEnds, vars, runVars
-----------------------------------------------------------------------------
(* Only StartRun adds a completion, and never while runs are suspended or  *)
(* the process quits.                                                      *)
LEMMA CompletionsShrink ==
  ASSUME TypeOK, [Next]_vars, runsSuspended \/ host # "up"
  PROVE  runCompletions' \subseteq runCompletions
  BY DEF Next, StartRun, MayStart, CancelRun, RunStep, EnterBody, LeaveBody, LeaveAbortedBody,
         DriverCancelled, McpClosed, Complete, Leave, Suspend, Operate, Resume, ReserveGoal,
         MutateGoal, Quit, CloseServices, GracePeriodEnds, vars, runVars

LEMMA SuspensionStep ==
  TypeOK /\ SuspensionInv /\ [Next]_vars => SuspensionInv'
<1> SUFFICES ASSUME TypeOK, SuspensionInv, [Next]_vars PROVE SuspensionInv'
  OBVIOUS
<1> USE DEF TypeOK, Calls, CallStages
<1>1. ASSUME NEW s \in Suspensions, Suspend(s) PROVE SuspensionInv'
  BY <1>1 DEF Suspend, SuspensionInv, Busy
<1>2. ASSUME NEW s \in Suspensions, Operate(s) PROVE SuspensionInv'
  BY <1>2 DEF Operate, SuspensionInv, Busy, Settled, runVars
<1>3. ASSUME NEW s \in Suspensions, Resume(s) PROVE SuspensionInv'
  BY <1>3 DEF Resume, SuspensionInv, Busy, runVars
<1>4. ASSUME UNCHANGED suspension, runsSuspended => runsSuspended' PROVE SuspensionInv'
  BY <1>4, CompletionsShrink DEF SuspensionInv, Busy
<1> QED
  BY <1>1, <1>2, <1>3, <1>4
  DEF Next, StartRun, CancelRun, RunStep, EnterBody, LeaveBody, LeaveAbortedBody,
      DriverCancelled, McpClosed, Complete, ReserveGoal, MutateGoal, Quit, CloseServices,
      GracePeriodEnds, vars, runVars

LEMMA MutationStep ==
  TypeOK /\ RegistriesAgree /\ MutationInv /\ [Next]_vars => MutationInv'
<1> SUFFICES ASSUME TypeOK, RegistriesAgree, MutationInv, [Next]_vars PROVE MutationInv'
  OBVIOUS
<1> USE RunsAssumption DEF TypeOK, Calls, CallStages
<1>1. ASSUME NEW r \in Runs, StartRun(r) PROVE MutationInv'
  BY <1>1 DEF StartRun, MayStart, MutationInv
<1>2. ASSUME NEW m \in Mutations, ReserveGoal(m) PROVE MutationInv'
  <2>1. \A r \in activeRuns : GoalOf[r] = GoalMutated[m] => r \in mutation'[m].awaits
    BY <1>2 DEF ReserveGoal, RunOfGoal, RegistriesAgree
  <2> QED
    BY <1>2, <2>1 DEF ReserveGoal, MutationInv
<1>3. ASSUME NEW m \in Mutations, MutateGoal(m) PROVE MutationInv'
  BY <1>3 DEF MutateGoal, MutationInv, runVars
<1>4. ASSUME UNCHANGED <<mutation, goalMutations>>, activeRuns' \subseteq activeRuns
      PROVE MutationInv'
  BY <1>4 DEF MutationInv
<1> QED
  BY <1>1, <1>2, <1>3, <1>4
  DEF Next, CancelRun, RunStep, EnterBody, LeaveBody, LeaveAbortedBody, DriverCancelled,
      McpClosed, Complete, Leave, Suspend, Operate, Resume, Quit, CloseServices,
      GracePeriodEnds, vars, runVars

LEMMA QuitStep == TypeOK /\ QuitInv /\ [Next]_vars => QuitInv'
<1> SUFFICES ASSUME TypeOK, QuitInv, [Next]_vars, host' # "up"
             PROVE  runCompletions' \subseteq quitting'
  BY DEF QuitInv
<1>1. CASE Quit
  BY <1>1 DEF Quit
<1>2. CASE host # "up" /\ UNCHANGED quitting
  BY <1>2, CompletionsShrink DEF QuitInv
<1> QED
  BY <1>1, <1>2
  DEF Next, StartRun, CancelRun, RunStep, EnterBody, LeaveBody, LeaveAbortedBody,
      DriverCancelled, McpClosed, Complete, Suspend, Operate, Resume, ReserveGoal, MutateGoal,
      CloseServices, GracePeriodEnds, vars, runVars
-----------------------------------------------------------------------------
LEMMA Initially == Init => IInv
<1> SUFFICES ASSUME Init PROVE IInv
  OBVIOUS
<1>1. RegistriesAgree
  <2>1. Cardinality({}) = 0
    BY FS_EmptySet
  <2> QED
    BY <2>1, RunsAssumption, LimitAssumption DEF Init, RegistriesAgree, Working
<1>2. SuspensionInv /\ MutationInv /\ QuitInv
  BY DEF Init, SuspensionInv, Busy, MutationInv, QuitInv
<1> QED
  BY <1>1, <1>2, TypeInit DEF IInv

(* The inductive invariant of the module.                                  *)
LEMMA Inductive == Spec => []IInv
<1>1. IInv /\ [Next]_vars => IInv'
  BY TypeStep, RegistriesStep, SuspensionStep, MutationStep, QuitStep DEF IInv
<1> QED
  BY Initially, <1>1, PTL DEF Spec

(* Whatever runs, operations and mutations there are, the registries never *)
(* disagree about who runs.                                                *)
THEOREM RegistriesAlwaysAgree == Spec => []RegistriesAgree
<1>1. IInv => RegistriesAgree
  BY DEF IInv
<1> QED
  BY Inductive, <1>1, PTL

(* An operation that suspends the runs never meets a run or a second such  *)
(* operation.                                                              *)
THEOREM SuspensionExcludesRuns == Spec => []SuspendedOperationIsAlone
<1>1. IInv => SuspendedOperationIsAlone
  BY DEF IInv, SuspensionInv, Busy, SuspendedOperationIsAlone
<1> QED
  BY Inductive, <1>1, PTL

(* No goal is mutated under a run that works for it.                       *)
THEOREM MutationExcludesRuns == Spec => GoalMutationIsAlone
<1> DEFINE Alone == \A m \in Mutations :
                      mutation[m].stage = "waiting" /\ mutation'[m].stage = "done" =>
                        \A r \in Runs : GoalOf[r] = GoalMutated[m] => phase[r] \notin Working
<1>1. IInv /\ [Next]_vars => [Alone]_vars
  <2> SUFFICES ASSUME IInv, [Next]_vars, NEW m \in Mutations, NEW r \in Runs,
                      mutation[m].stage = "waiting", mutation'[m].stage = "done",
                      GoalOf[r] = GoalMutated[m], phase[r] \in Working
               PROVE  FALSE
    OBVIOUS
  <2>1. r \in activeRuns /\ r \in runCompletions
    BY DEF IInv, RegistriesAgree, Working
  <2>2. r \in mutation[m].awaits
    BY <2>1 DEF IInv, MutationInv
  <2>3. MutateGoal(m)
    BY DEF IInv, TypeOK, Calls, Next, StartRun, CancelRun, RunStep, EnterBody, LeaveBody,
           LeaveAbortedBody, DriverCancelled, McpClosed, Complete, Suspend, Operate, Resume,
           ReserveGoal, MutateGoal, Quit, CloseServices, GracePeriodEnds, vars, runVars
  <2> QED
    BY <2>1, <2>2, <2>3 DEF MutateGoal, Settled
<1> QED
  BY Inductive, <1>1, PTL DEF Spec, GoalMutationIsAlone

(* The repository is never closed under a run.                             *)
THEOREM CloseExcludesRuns == Spec => NoRunAtClose
<1>1. IInv /\ [Next]_vars => [host # "closed" /\ host' = "closed" => runCompletions = {}]_vars
  <2> SUFFICES ASSUME IInv, [Next]_vars, host # "closed", host' = "closed"
               PROVE  runCompletions = {}
    OBVIOUS
  <2>1. CloseServices
    BY DEF Next, StartRun, CancelRun, RunStep, EnterBody, LeaveBody, LeaveAbortedBody,
           DriverCancelled, McpClosed, Complete, Suspend, Operate, Resume, ReserveGoal,
           MutateGoal, Quit, CloseServices, GracePeriodEnds, vars, runVars
  <2> QED
    BY <2>1 DEF CloseServices, Settled, IInv, QuitInv
<1> QED
  BY Inductive, <1>1, PTL DEF Spec, NoRunAtClose

-----------------------------------------------------------------------------
(* The scope of the work of a goal (GoalScope).  What the classifiers got  *)
(* wrong is counted in full for the decision at hand; a decision that is   *)
(* not on the plan as it is leads to a new classification or to an end; a  *)
(* run that has nothing left to do has a recovery or a cleanup before it.  *)

ScopeStages == Ended \cup {"round", "recovery", "scope", "critic", "arbiter", "joint",
                           "replan", "cleanup", "conflict", "work"}
RunRecords == [number : Nat, stage : ScopeStages, fallback : BOOLEAN, attempt : Nat,
               evaluations : Nat, cleanups : Nat, recoveries : Nat,
               shape : {"empty", "completed", "unfinished"}, recovered : BOOLEAN,
               contract : Seq(Entry)]
VoteLists == UNION {[S -> Votes] : S \in SUBSET Nat}
PassRecords == [scope : VoteLists, scopeWork : SUBSET Effects, critic : VoteLists,
                criticWork : SUBSET Effects, arbiter : VoteLists, joint : Votes \cup {"none"},
                jointWork : SUBSET Effects]

ScopeTypes == /\ plan \in Seq(Entry) /\ revision \in Nat \ {0} /\ wrong \in Nat
              /\ run \in RunRecords /\ pass \in PassRecords
              /\ decision.on \in Nat /\ decision.on <= revision

\* What each answer got wrong.
ScopeWrong(p) == UntrueVotes(p.scope) \/ UntrueWork(Proposed(p), p.scopeWork)
CriticWrong(p) == UntrueVotes(p.critic) \/ UntrueWork(Authorized(p), p.criticWork)
ArbiterWrong(p) == UntrueVotes(p.arbiter)
JointWrong(p) ==
  LET selected == Frontier(Authorized(p)) IN
  \/ Untrue(p.joint, selected)
  \/ p.joint = "required" /\ UntrueWork({selected}, p.jointWork)
Bit(b) == IF b THEN 1 ELSE 0
Mistakes(p) ==
  Bit(ScopeWrong(p)) + Bit(CriticWrong(p)) + Bit(ArbiterWrong(p)) + Bit(JointWrong(p))

\* Each pass votes on what it was asked about.
Covered(p) == /\ DOMAIN p.scope = Unfinished /\ DOMAIN p.critic \subseteq Proposed(p)
              /\ DOMAIN p.arbiter \subseteq Candidates(p)

PassInv ==
  /\ run.stage \in {"critic", "arbiter", "joint"} \/ decision.on = revision =>
       Covered(pass) /\ Mistakes(pass) <= wrong
  /\ run.stage = "critic" => pass.critic = <<>> /\ pass.criticWork = {}
  /\ run.stage \in {"critic", "arbiter"} => pass.arbiter = <<>>
  /\ run.stage \in {"critic", "arbiter", "joint"} => pass.joint = "none"
  /\ decision.on = revision => decision = Decision(pass)

RoundInv ==
  /\ run.stage \in {"scope", "critic", "arbiter", "joint"} =>
       Unfinished # {} /\ decision.on # revision
  /\ run.stage \notin Ended => /\ Unfinished = {} => RecoveryDue \/ CleanupDue
                               /\ RecoveryDue => Unfinished = {}
  /\ run.stage \in {"replan", "cleanup", "conflict", "work"} => ~Unclassified
  /\ run.stage = "replan" => RecoveryDue /\ run.contract # <<>>
  /\ run.stage = "cleanup" => ~RecoveryDue /\ CleanupDue
  /\ run.stage = "work" => ~RecoveryDue /\ ~CleanupDue /\ ~ConflictDue
  /\ \A i \in DOMAIN run.contract : run.contract[i].status = "pending"

ScopeInv == ScopeTypes /\ PassInv /\ RoundInv

-----------------------------------------------------------------------------
LEMMA LeastItem ==
  ASSUME NEW T \in SUBSET Nat, T # {}
  PROVE  Least(T) \in T
<1> DEFINE R == OpToRel(<, Nat)
<1>1. IsWellFoundedOn(R, Nat)
  BY NatLessThanWellFounded
<1>2. \A x, y \in Nat : y < x => <<y, x>> \in R
  BY DEF OpToRel
<1> HIDE DEF R
<1>3. PICK n \in T : \A m \in T : <<m, n>> \notin R
  BY <1>1, WFMin
<1>4. \A m \in T : ~(m < n)
  BY <1>2, <1>3
<1>5. \A m \in T : n <= m
  BY <1>4
<1>6. QED BY <1>5 DEF Least

\* The frontier of a set of items is one of them.
LEMMA FrontierMeans ==
  ASSUME plan \in Seq(Entry), NEW S \in SUBSET DOMAIN plan
  PROVE  /\ S = {} => Frontier(S) = None
         /\ S # {} => Frontier(S) \in S
         /\ Frontier(S) # None => Frontier(S) \in S
<1> DEFINE begun == {i \in S : plan[i].status = "in_progress"}
<1>1. S \subseteq Nat /\ begun \subseteq Nat /\ begun \subseteq S /\ 0 \notin S
  OBVIOUS
<1>2. CASE S = {}
  BY <1>2 DEF Frontier
<1>3. CASE S # {} /\ begun # {}
  <2>1. Least(begun) \in begun /\ Frontier(S) = Least(begun)
    BY <1>1, <1>3, LeastItem DEF Frontier
  <2>2. QED BY <1>1, <1>3, <2>1 DEF None
<1>4. CASE S # {} /\ begun = {}
  <2>1. Least(S) \in S /\ Frontier(S) = Least(S)
    BY <1>1, <1>4, LeastItem DEF Frontier
  <2>2. QED BY <1>1, <1>4, <2>1 DEF None
<1>5. QED BY <1>2, <1>3, <1>4

LEMMA SameFrontier ==
  ASSUME plan' = plan
  PROVE  \A S : Frontier(S)' = Frontier(S)
<1> SUFFICES ASSUME NEW S PROVE Frontier(S)' = Frontier(S)
  OBVIOUS
<1> DEFINE begun == {i \in S : plan[i].status = "in_progress"}
<1>1. begun' = begun
  OBVIOUS
<1>2. Frontier(S) = IF S = {} THEN None ELSE IF begun # {} THEN Least(begun) ELSE Least(S)
  BY DEF Frontier
<1>3. Frontier(S)' = IF S = {} THEN None ELSE IF begun' # {} THEN Least(begun') ELSE Least(S)
  BY DEF Frontier
<1> HIDE DEF begun
<1>4. QED BY <1>1, <1>2, <1>3

\* Nothing that is said of the answers changes while the plan stays.
LEMMA SamePlan ==
  ASSUME plan' = plan, needed' = needed, due' = due, NEW p
  PROVE  /\ ScopeWrong(p)' <=> ScopeWrong(p)
         /\ CriticWrong(p)' <=> CriticWrong(p)
         /\ ArbiterWrong(p)' <=> ArbiterWrong(p)
         /\ JointWrong(p)' <=> JointWrong(p)
         /\ Covered(p)' <=> Covered(p)
         /\ Mistakes(p)' = Mistakes(p)
         /\ revision' = revision => Decision(p)' = Decision(p)
<1>1. \A S : Frontier(S)' = Frontier(S)
  BY SameFrontier
<1>2. \A S, work : UntrueWork(S, work)' <=> UntrueWork(S, work)
  BY <1>1 DEF UntrueWork
<1>3. \A votes : UntrueVotes(votes)' <=> UntrueVotes(votes)
  BY DEF UntrueVotes, Untrue
<1>4. ScopeWrong(p)' <=> ScopeWrong(p)
  BY <1>2, <1>3 DEF ScopeWrong
<1>5. CriticWrong(p)' <=> CriticWrong(p)
  BY <1>2, <1>3 DEF CriticWrong
<1>6. ArbiterWrong(p)' <=> ArbiterWrong(p)
  BY <1>3 DEF ArbiterWrong
<1>7. JointWrong(p)' <=> JointWrong(p)
  BY <1>1, <1>2 DEF JointWrong, Untrue
<1>8. Covered(p)' <=> Covered(p)
  BY DEF Covered, Unfinished
<1>9. revision' = revision => Decision(p)' = Decision(p)
  BY <1>1 DEF Decision, Agreed, NeedsJoint
<1>10. QED BY <1>4, <1>5, <1>6, <1>7, <1>8, <1>9 DEF Mistakes, Bit

-----------------------------------------------------------------------------
(* The classification *)

LEMMA NothingVoted ==
  ASSUME NEW p, p.critic = <<>>, p.criticWork = {} PROVE ~CriticWrong(p)
<1>1. Authorized(p) = {} /\ ~UntrueVotes(p.critic)
  BY DEF Authorized, Voted, UntrueVotes
<1>2. Frontier(Authorized(p)) = None
  BY <1>1 DEF Frontier
<1>3. QED BY <1>1, <1>2 DEF CriticWrong, UntrueWork

LEMMA NothingConfirmed ==
  ASSUME NEW p
  PROVE  (p.arbiter = <<>> => ~ArbiterWrong(p)) /\ (p.joint = "none" => ~JointWrong(p))
BY DEF ArbiterWrong, UntrueVotes, JointWrong, Untrue

LEMMA VotesAreLists ==
  ASSUME NEW S \in SUBSET Nat, NEW votes \in [S -> Votes]
  PROVE  votes \in VoteLists
BY DEF VoteLists

LEMMA UnfinishedAreItems == ASSUME ScopeTypes PROVE Unfinished \in SUBSET DOMAIN plan
                                     /\ DOMAIN plan \subseteq Nat
BY DEF ScopeTypes, Unfinished

LEMMA ToStageMeans ==
  ASSUME NEW r \in RunRecords, NEW stage \in ScopeStages
  PROVE  /\ ToStage(r, stage) \in RunRecords /\ ToStage(r, stage).stage = stage
         /\ ToStage(r, stage).shape = r.shape /\ ToStage(r, stage).recovered = r.recovered
         /\ ToStage(r, stage).contract = r.contract
         /\ [r EXCEPT !.stage = stage] \in RunRecords /\ [r EXCEPT !.stage = stage].stage = stage
         /\ [r EXCEPT !.stage = stage].shape = r.shape
         /\ [r EXCEPT !.stage = stage].recovered = r.recovered
         /\ [r EXCEPT !.stage = stage].contract = r.contract
BY DEF ToStage, RunRecords

\* The answer of one pass.
LEMMA ProceedKeeps ==
  ASSUME ScopeInv, NEW p \in PassRecords, NEW stage \in {"critic", "arbiter", "joint", "round"},
         NEW untrue,
         Proceed(p, stage, untrue), run.stage \in {"scope", "critic", "arbiter", "joint"},
         Covered(p), Mistakes(p) <= wrong',
         stage = "critic" => p.critic = <<>> /\ p.criticWork = {},
         stage \in {"critic", "arbiter"} => p.arbiter = <<>>,
         stage \in {"critic", "arbiter", "joint"} => p.joint = "none"
  PROVE  ScopeInv'
<1> USE DEF ScopeInv
<1>1. /\ pass' = p /\ run' = ToStage(run, stage) /\ UNCHANGED <<needed, due, plan, revision>>
      /\ decision' = IF stage = "round" THEN Decision(p) ELSE decision
      /\ wrong' \in Nat
  <2>1. wrong' = (IF run.stage = "scope" THEN 0 ELSE wrong) + (IF untrue THEN 1 ELSE 0)
    BY DEF Proceed
  <2>2. wrong' \in Nat
    <3>1. (IF untrue THEN 1 ELSE 0) \in {0, 1}
      BY Zenon
    <3>2. PICK k \in {0, 1} : wrong' = (IF run.stage = "scope" THEN 0 ELSE wrong) + k
      BY <2>1, <3>1
    <3>3. QED BY <3>2 DEF ScopeTypes
  <2>3. QED BY <2>2 DEF Proceed, truth
<1>2. run' \in RunRecords /\ run'.stage = stage /\ run'.shape = run.shape
        /\ run'.recovered = run.recovered
      /\ run'.contract = run.contract
  BY <1>1, ToStageMeans DEF ScopeTypes, ScopeStages
<1>3. Decision(p).on = revision
  BY DEF Decision
<1>4. ScopeTypes'
  BY <1>1, <1>2, <1>3 DEF ScopeTypes
<1>5. Covered(p)' /\ Mistakes(p)' = Mistakes(p) /\ Decision(p)' = Decision(p)
  BY <1>1, SamePlan
<1>6. Covered(pass)' /\ Mistakes(pass)' = Mistakes(p) /\ Decision(pass)' = Decision(p)
  <2>1. Covered(pass)' <=> Covered(p)'
    BY <1>1 DEF Covered
  <2>2. Mistakes(pass)' = Mistakes(p)'
    BY <1>1 DEF Mistakes, ScopeWrong, CriticWrong, ArbiterWrong, JointWrong
  <2>3. Decision(pass)' = Decision(p)'
    BY <1>1 DEF Decision, Agreed, NeedsJoint
  <2>4. QED BY <1>5, <2>1, <2>2, <2>3
<1>7. Unfinished # {} /\ decision.on # revision /\ ~RecoveryDue
  BY DEF RoundInv, Ended
<1>8. PassInv'
  BY <1>1, <1>2, <1>6, <1>7 DEF PassInv
<1>9. Unfinished' = Unfinished /\ (RecoveryDue' <=> RecoveryDue)
  BY <1>1, <1>2 DEF Unfinished, RecoveryDue
<1>10. RoundInv'
  BY <1>1, <1>2, <1>7, <1>9 DEF RoundInv, Ended
<1>11. QED BY <1>4, <1>8, <1>10

LEMMA ScopeAnswersKeeps == ASSUME ScopeInv, ScopeAnswers PROVE ScopeInv'
<1> USE DEF ScopeInv
<1>1. PICK votes \in [Unfinished -> Votes], work \in SUBSET Effects :
         LET p == [NoPass EXCEPT !.scope = votes, !.scopeWork = work] IN
         Proceed(p, AfterScope(p), UntrueVotes(votes) \/ UntrueWork(Proposed(p), work))
  BY DEF ScopeAnswers
<1>2. PICK p : p = [NoPass EXCEPT !.scope = votes, !.scopeWork = work]
  OBVIOUS
<1>3. /\ p.scope = votes /\ p.scopeWork = work /\ p.critic = <<>> /\ p.criticWork = {}
      /\ p.arbiter = <<>> /\ p.joint = "none"
  BY <1>2 DEF NoPass
<1>4. p \in PassRecords
  <2>1. votes \in VoteLists /\ <<>> \in VoteLists
    <3>1. Unfinished \in SUBSET Nat
      BY UnfinishedAreItems
    <3>2. <<>> \in [{} -> Votes] /\ {} \in SUBSET Nat
      OBVIOUS
    <3>3. <<>> \in VoteLists
      BY <3>2 DEF VoteLists
    <3>4. QED BY <3>1, <3>3, VotesAreLists
  <2>2. QED BY <1>2, <2>1 DEF NoPass, PassRecords
<1>5. Proceed(p, AfterScope(p), UntrueVotes(votes) \/ UntrueWork(Proposed(p), work))
  BY <1>1, <1>2
<1>6. ScopeWrong(p) <=> UntrueVotes(votes) \/ UntrueWork(Proposed(p), work)
  BY <1>3 DEF ScopeWrong
<1>7. Mistakes(p) = Bit(ScopeWrong(p))
  BY <1>3, NothingVoted, NothingConfirmed DEF Mistakes, Bit
<1>8. run.stage = "scope"
  BY DEF ScopeAnswers
<1>9. Mistakes(p) <= wrong'
  BY <1>5, <1>6, <1>7, <1>8 DEF Proceed, Bit
<1>10. Covered(p)
  BY <1>3 DEF Covered
<1>11. PICK stage \in {"critic", "arbiter", "joint", "round"} : stage = AfterScope(p)
  BY DEF AfterScope, AfterCritic, AfterArbiter
<1>12. PICK untrue : Proceed(p, stage, untrue)
  BY <1>5, <1>11
<1>13. QED BY <1>3, <1>4, <1>8, <1>9, <1>10, <1>12, ProceedKeeps

LEMMA CriticAnswersKeeps == ASSUME ScopeInv, CriticAnswers PROVE ScopeInv'
<1> USE DEF ScopeInv
<1>1. PICK votes \in [Proposed(pass) -> Votes], work \in SUBSET Effects :
         LET p == [pass EXCEPT !.critic = votes, !.criticWork = work] IN
         Proceed(p, AfterCritic(p), UntrueVotes(votes) \/ UntrueWork(Authorized(p), work))
  BY DEF CriticAnswers
<1>2. run.stage = "critic"
  BY DEF CriticAnswers
<1>3. PICK p : p = [pass EXCEPT !.critic = votes, !.criticWork = work]
  OBVIOUS
<1>4. /\ p.scope = pass.scope /\ p.scopeWork = pass.scopeWork /\ p.critic = votes
      /\ p.criticWork = work
      /\ p.arbiter = <<>> /\ p.joint = "none"
  BY <1>2, <1>3 DEF ScopeTypes, PassRecords, PassInv
<1>5. Covered(pass) /\ Mistakes(pass) <= wrong /\ wrong \in Nat
  BY <1>2 DEF PassInv, ScopeTypes
<1>6. Proposed(pass) \subseteq Unfinished /\ Proposed(p) = Proposed(pass)
  BY <1>4, <1>5 DEF Proposed, Voted, Covered
<1>7. p \in PassRecords
  <2>1. Proposed(pass) \in SUBSET Nat
    BY <1>6, UnfinishedAreItems
  <2>2. votes \in VoteLists
    BY <2>1, VotesAreLists
  <2>3. QED BY <1>3, <2>2 DEF PassRecords, ScopeTypes
<1>8. Proceed(p, AfterCritic(p), UntrueVotes(votes) \/ UntrueWork(Authorized(p), work))
  BY <1>1, <1>3
<1>9. CriticWrong(p) <=> UntrueVotes(votes) \/ UntrueWork(Authorized(p), work)
  BY <1>4 DEF CriticWrong
<1>10. ScopeWrong(p) <=> ScopeWrong(pass)
  BY <1>4, <1>6 DEF ScopeWrong
<1>11. Mistakes(p) = Bit(ScopeWrong(pass)) + Bit(CriticWrong(p))
  BY <1>4, <1>10, NothingConfirmed DEF Mistakes, Bit
<1>12. Bit(ScopeWrong(pass)) <= wrong
  BY <1>5 DEF Mistakes, Bit
<1>13. Mistakes(p) <= wrong'
  BY <1>2, <1>5, <1>8, <1>9, <1>11, <1>12 DEF Proceed, Bit
<1>14. Covered(p)
  BY <1>4, <1>5, <1>6 DEF Covered
<1>15. PICK stage \in {"arbiter", "joint", "round"} : stage = AfterCritic(p)
  BY DEF AfterCritic, AfterArbiter
<1>16. PICK untrue : Proceed(p, stage, untrue)
  BY <1>8, <1>15
<1>17. QED BY <1>2, <1>4, <1>7, <1>13, <1>14, <1>16, ProceedKeeps

LEMMA ArbiterAnswersKeeps == ASSUME ScopeInv, ArbiterAnswers PROVE ScopeInv'
<1> USE DEF ScopeInv
<1>1. PICK votes \in [Candidates(pass) -> Votes] :
         LET p == [pass EXCEPT !.arbiter = votes] IN Proceed(p, AfterArbiter(p), UntrueVotes(votes))
  BY DEF ArbiterAnswers
<1>2. run.stage = "arbiter"
  BY DEF ArbiterAnswers
<1>3. PICK p : p = [pass EXCEPT !.arbiter = votes]
  OBVIOUS
<1>4. /\ p.scope = pass.scope /\ p.scopeWork = pass.scopeWork /\ p.critic = pass.critic
      /\ p.criticWork = pass.criticWork /\ p.arbiter = votes /\ p.joint = "none"
  BY <1>2, <1>3 DEF ScopeTypes, PassRecords, PassInv
<1>5. Covered(pass) /\ Mistakes(pass) <= wrong /\ wrong \in Nat
  BY <1>2 DEF PassInv, ScopeTypes
<1>6. Candidates(pass) \subseteq Unfinished /\ Candidates(p) = Candidates(pass)
      /\ Proposed(p) = Proposed(pass) /\ Authorized(p) = Authorized(pass)
  BY <1>4, <1>5 DEF Candidates, Proposed, Authorized, Voted, Covered
<1>7. p \in PassRecords
  <2>1. Candidates(pass) \in SUBSET Nat
    BY <1>6, UnfinishedAreItems
  <2>2. votes \in VoteLists
    BY <2>1, VotesAreLists
  <2>3. QED BY <1>3, <2>2 DEF PassRecords, ScopeTypes
<1>8. Proceed(p, AfterArbiter(p), UntrueVotes(votes))
  BY <1>1, <1>3
<1>9. (ScopeWrong(p) <=> ScopeWrong(pass)) /\ (CriticWrong(p) <=> CriticWrong(pass))
      /\ (ArbiterWrong(p) <=> UntrueVotes(votes))
  BY <1>4, <1>6 DEF ScopeWrong, CriticWrong, ArbiterWrong
<1>10. Mistakes(p) = Bit(ScopeWrong(pass)) + Bit(CriticWrong(pass)) + Bit(ArbiterWrong(p))
  BY <1>4, <1>9, NothingConfirmed DEF Mistakes, Bit
<1>11. Bit(ScopeWrong(pass)) + Bit(CriticWrong(pass)) <= wrong
  BY <1>5 DEF Mistakes, Bit
<1>12. Mistakes(p) <= wrong'
  BY <1>2, <1>5, <1>8, <1>9, <1>10, <1>11 DEF Proceed, Bit
<1>13. Covered(p)
  BY <1>4, <1>5, <1>6 DEF Covered
<1>14. PICK stage \in {"joint", "round"} : stage = AfterArbiter(p)
  BY DEF AfterArbiter
<1>15. PICK untrue : Proceed(p, stage, untrue)
  BY <1>8, <1>14
<1>16. QED BY <1>2, <1>4, <1>7, <1>12, <1>13, <1>15, ProceedKeeps

LEMMA JointAnswersKeeps == ASSUME ScopeInv, JointAnswers PROVE ScopeInv'
<1> USE DEF ScopeInv
<1>1. PICK vote \in Votes, work \in SUBSET Effects :
         Proceed([pass EXCEPT !.joint = vote, !.jointWork = work], "round",
                 LET selected == Frontier(Authorized(pass)) IN
                 \/ Untrue(vote, selected)
                 \/ vote = "required" /\ UntrueWork({selected}, work))
  BY DEF JointAnswers
<1>2. run.stage = "joint"
  BY DEF JointAnswers
<1>3. PICK p : p = [pass EXCEPT !.joint = vote, !.jointWork = work]
  OBVIOUS
<1>4. /\ p.scope = pass.scope /\ p.scopeWork = pass.scopeWork /\ p.critic = pass.critic
      /\ p.criticWork = pass.criticWork /\ p.arbiter = pass.arbiter /\ p.joint = vote
      /\ p.jointWork = work
  BY <1>3 DEF ScopeTypes, PassRecords
<1>5. Covered(pass) /\ Mistakes(pass) <= wrong /\ wrong \in Nat
  BY <1>2 DEF PassInv, ScopeTypes
<1>6. Candidates(p) = Candidates(pass) /\ Proposed(p) = Proposed(pass)
        /\ Authorized(p) = Authorized(pass)
  BY <1>4 DEF Candidates, Proposed, Authorized
<1>7. p \in PassRecords
  BY <1>3 DEF PassRecords, ScopeTypes
<1>8. Proceed(p, "round", JointWrong(p))
  BY <1>1, <1>3, <1>4, <1>6 DEF JointWrong
<1>9. (ScopeWrong(p) <=> ScopeWrong(pass)) /\ (CriticWrong(p) <=> CriticWrong(pass))
      /\ (ArbiterWrong(p) <=> ArbiterWrong(pass))
  BY <1>4, <1>6 DEF ScopeWrong, CriticWrong, ArbiterWrong
<1>10. Mistakes(p) <= Mistakes(pass) + Bit(JointWrong(p))
  BY <1>9 DEF Mistakes, Bit
<1>11. Mistakes(p) \in Nat /\ Mistakes(pass) \in Nat /\ Bit(JointWrong(p)) \in Nat
  BY DEF Mistakes, Bit
<1>12. wrong' = wrong + Bit(JointWrong(p))
  BY <1>2, <1>8 DEF Proceed, Bit
<1>13. Mistakes(p) <= wrong'
  BY <1>5, <1>10, <1>11, <1>12
<1>14. Covered(p)
  BY <1>4, <1>5, <1>6 DEF Covered
<1>15. PICK untrue : Proceed(p, "round", untrue)
  BY <1>8
<1>16. QED BY <1>2, <1>7, <1>13, <1>14, <1>15, ProceedKeeps

-----------------------------------------------------------------------------
(* The rounds *)

\* A step that leaves plan and decision alone.
LEMMA PassKept ==
  ASSUME ScopeInv, UNCHANGED <<needed, due, plan, revision, pass, decision, wrong>>,
         run' \in RunRecords,
         run'.stage \in {"critic", "arbiter", "joint"} => run'.stage = run.stage
  PROVE  /\ ScopeTypes' /\ PassInv' /\ Unfinished' = Unfinished
         /\ (CleanupDue' <=> CleanupDue) /\ (ConflictDue' <=> ConflictDue)
         /\ (Unclassified' <=> Unclassified)
<1> USE DEF ScopeInv
<1>1. PICK p : p = pass
  OBVIOUS
<1>2. (Covered(p)' <=> Covered(p)) /\ Mistakes(p)' = Mistakes(p) /\ Decision(p)' = Decision(p)
  BY SamePlan
<1>3. pass' = p
  BY <1>1
<1>4. Covered(pass)' <=> Covered(p)'
  BY <1>3 DEF Covered
<1>5. Mistakes(pass)' = Mistakes(p)'
  BY <1>3 DEF Mistakes, ScopeWrong, CriticWrong, ArbiterWrong, JointWrong
<1>6. Decision(pass)' = Decision(p)'
  BY <1>3 DEF Decision, Agreed, NeedsJoint
<1>7. (Covered(pass) <=> Covered(p)) /\ Mistakes(pass) = Mistakes(p) /\ Decision(pass) = Decision(p)
  BY <1>1
<1>8. ScopeTypes'
  BY DEF ScopeTypes
<1>9. PassInv'
  BY <1>2, <1>4, <1>5, <1>6, <1>7 DEF PassInv
<1>10. QED BY <1>8, <1>9 DEF Unfinished, CleanupDue, ConflictDue, Unclassified

LEMMA TurnKeeps ==
  ASSUME ScopeInv,
         TurnIsRetried \/ TurnFallsBack \/ AnswerIsInvalid \/ ClassifierFails \/ Block \/ Stop
  PROVE  ScopeInv'
<1> USE DEF ScopeInv
<1>1. UNCHANGED <<needed, due, plan, revision, pass, decision, wrong>>
  BY DEF TurnIsRetried, TurnFallsBack, AnswerIsInvalid, ClassifierFails, Block, Stop, truth
<1>2. /\ run' \in RunRecords /\ run'.shape = run.shape /\ run'.recovered = run.recovered
      /\ run'.contract = run.contract /\ run'.stage \in {run.stage, "failed", "blocked"}
  <2>1. run \in RunRecords
    BY DEF ScopeTypes
  <2>2. CASE TurnIsRetried
    BY <2>1, <2>2 DEF TurnIsRetried, RunRecords
  <2>3. CASE TurnFallsBack
    BY <2>1, <2>3 DEF TurnFallsBack, RunRecords
  <2>4. CASE run' = [run EXCEPT !.stage = "failed"]
    BY <2>1, <2>4, ToStageMeans DEF ScopeStages, Ended
  <2>5. CASE run' = [run EXCEPT !.stage = "blocked"]
    BY <2>1, <2>5, ToStageMeans DEF ScopeStages, Ended
  <2>6. QED BY <2>2, <2>3, <2>4, <2>5 DEF AnswerIsInvalid, ClassifierFails, Block, Stop, Fail
<1>3. /\ ScopeTypes' /\ PassInv' /\ Unfinished' = Unfinished
      /\ (CleanupDue' <=> CleanupDue) /\ (ConflictDue' <=> ConflictDue)
      /\ (Unclassified' <=> Unclassified)
  BY <1>1, <1>2, PassKept
<1>4. RecoveryDue' <=> RecoveryDue
  BY <1>2 DEF RecoveryDue
<1>5. RoundInv'
  BY <1>1, <1>2, <1>3, <1>4 DEF RoundInv, Ended
<1>6. QED BY <1>3, <1>5

LEMMA RecoveryAnswersKeeps == ASSUME ScopeInv, RecoveryAnswers PROVE ScopeInv'
<1> USE DEF ScopeInv
<1>1. UNCHANGED <<needed, due, plan, revision, pass, decision, wrong>> /\ run.stage = "recovery"
  BY DEF RecoveryAnswers, truth
<1>2. PICK p \in Plans : /\ \A i \in DOMAIN p : p[i].status = "pending"
                         /\ run' = [ToStage(run, "round") EXCEPT !.contract = p]
  BY DEF RecoveryAnswers
<1>3. p \in Seq(Entry)
  BY ScopeAssumption DEF Plans
<1>4. /\ run' \in RunRecords /\ run'.shape = run.shape /\ run'.recovered = run.recovered
      /\ run'.contract = p /\ run'.stage = "round"
  <2> DEFINE r == ToStage(run, "round")
  <2>1. r \in RunRecords /\ r.shape = run.shape /\ r.recovered = run.recovered /\ r.stage = "round"
    BY ToStageMeans DEF ScopeTypes, ScopeStages
  <2>2. run' = [r EXCEPT !.contract = p]
    BY <1>2
  <2> HIDE DEF r
  <2>3. QED BY <1>3, <2>1, <2>2 DEF RunRecords
<1>5. /\ ScopeTypes' /\ PassInv' /\ Unfinished' = Unfinished /\ (CleanupDue' <=> CleanupDue)
  BY <1>1, <1>4, PassKept
<1>6. RecoveryDue' <=> RecoveryDue
  BY <1>4 DEF RecoveryDue
<1>7. RoundInv'
  BY <1>1, <1>2, <1>4, <1>5, <1>6 DEF RoundInv, Ended
<1>8. QED BY <1>5, <1>7

LEMMA RoundKeeps == ASSUME ScopeInv, Round PROVE ScopeInv'
<1> USE DEF ScopeInv
<1>1. UNCHANGED <<needed, due, plan, revision, pass, decision, wrong>> /\ run.stage = "round"
  BY DEF Round, truth
<1>2. /\ run' \in RunRecords /\ run'.shape = run.shape /\ run'.recovered = run.recovered
      /\ run'.contract = run.contract
      /\ \/ run'.stage \in {"recovery", "failed"}
         \/ run'.stage = "scope" /\ Unclassified
         \/ run'.stage = Purpose /\ ~Unclassified /\ (RecoveryDue => run.contract # <<>>)
  <2>1. run \in RunRecords
    BY DEF ScopeTypes
  <2>2. Purpose \in {"replan", "cleanup", "conflict", "work", "failed"}
    BY DEF Purpose
  <2>3. CASE run' = [run EXCEPT !.stage = "failed"]
    BY <2>1, <2>3, ToStageMeans DEF ScopeStages, Ended
  <2>4. CASE run' = [run EXCEPT !.stage = Purpose] /\ ~Unclassified
               /\ (RecoveryDue => run.contract # <<>>)
    BY <2>1, <2>2, <2>4, ToStageMeans DEF ScopeStages, Ended
  <2>5. ASSUME NEW s \in {"recovery", "scope"},
               run' = [ToStage(run, s) EXCEPT !.evaluations = @ + 1]
        PROVE  /\ run' \in RunRecords /\ run'.shape = run.shape /\ run'.recovered = run.recovered
               /\ run'.contract = run.contract /\ run'.stage = s
    <3> DEFINE r == ToStage(run, s)
    <3>1. r \in RunRecords /\ r.shape = run.shape /\ r.recovered = run.recovered
            /\ r.contract = run.contract
          /\ r.stage = s
      BY <2>1, ToStageMeans DEF ScopeStages
    <3>2. run' = [r EXCEPT !.evaluations = @ + 1]
      BY <2>5
    <3> HIDE DEF r
    <3>3. QED BY <3>1, <3>2 DEF RunRecords
  <2>6. QED BY <1>1, <2>3, <2>4, <2>5 DEF Round, Classify, Fail
<1>3. /\ ScopeTypes' /\ PassInv' /\ Unfinished' = Unfinished
      /\ (CleanupDue' <=> CleanupDue) /\ (ConflictDue' <=> ConflictDue)
      /\ (Unclassified' <=> Unclassified)
  <2>1. Purpose \notin {"critic", "arbiter", "joint"}
    BY DEF Purpose
  <2>2. QED BY <1>1, <1>2, <2>1, PassKept
<1>4. RecoveryDue' <=> RecoveryDue
  BY <1>2 DEF RecoveryDue
<1>5. RoundInv'
  BY <1>1, <1>2, <1>3, <1>4 DEF RoundInv, Ended, Purpose, Unclassified
<1>6. QED BY <1>3, <1>5

\* The kept items, in the order of the plan.
LEMMA KeptMeans ==
  ASSUME plan \in Seq(Entry), NEW outside
  PROVE  /\ Kept(outside) \in Seq(Entry)
         /\ \A i \in DOMAIN plan \ outside :
              \E k \in DOMAIN Kept(outside) : Kept(outside)[k] = plan[i]
<1> DEFINE kept == DOMAIN plan \ outside
           upTo(i) == {j \in kept : j <= i}
           n == Cardinality(kept)
           rank == [i \in kept |-> Cardinality(upTo(i))]
<1>1. kept \subseteq 1 .. Len(plan) /\ Len(plan) \in Nat
  OBVIOUS
<1>2. IsFiniteSet(kept) /\ n \in Nat
  <2> HIDE DEF kept
  <2>1. IsFiniteSet(1 .. Len(plan))
    BY <1>1, FS_Interval
  <2>2. IsFiniteSet(kept)
    BY <1>1, <2>1, FS_Subset
  <2>3. QED BY <2>2, FS_CardinalityType
<1>3. ASSUME NEW i \in kept
      PROVE  upTo(i) \subseteq kept /\ IsFiniteSet(upTo(i)) /\ Cardinality(upTo(i)) \in 1 .. n
  <2>1. upTo(i) \subseteq kept /\ i \in upTo(i)
    BY <1>1
  <2> HIDE DEF kept, upTo
  <2>2. IsFiniteSet(upTo(i)) /\ Cardinality(upTo(i)) <= n /\ Cardinality(upTo(i)) \in Nat
    BY <1>2, <2>1, FS_Subset, FS_CardinalityType
  <2>3. Cardinality(upTo(i)) # 0
    BY <2>1, <2>2, FS_EmptySet
  <2>4. QED BY <1>2, <2>1, <2>2, <2>3
<1>4. ASSUME NEW i \in kept, NEW j \in kept, i < j
      PROVE  rank[i] # rank[j]
  <2>1. upTo(i) \subseteq upTo(j) /\ j \in upTo(j) /\ j \notin upTo(i)
    BY <1>1, <1>4
  <2> HIDE DEF upTo
  <2>2. IsFiniteSet(upTo(j))
    BY <1>3
  <2>3. Cardinality(upTo(i)) # Cardinality(upTo(j))
    BY <2>1, <2>2, FS_Subset
  <2>4. QED BY <2>3
<1>5. rank \in [kept -> 1 .. n]
  <2> HIDE DEF kept, upTo, n
  <2>1. QED BY <1>3
<1>6. \A i, j \in kept : rank[i] = rank[j] => i = j
  <2>1. \A i, j \in kept : i < j \/ j < i \/ i = j
    BY <1>1
  <2> HIDE DEF kept, rank
  <2>2. QED BY <1>4, <2>1
<1>7. \A k \in 1 .. n : \E i \in kept : rank[i] = k
  <2> HIDE DEF kept, rank, n
  <2>1. rank \in Injection(kept, 1 .. n)
    BY <1>5, <1>6 DEF Injection, IsInjective
  <2>2. IsFiniteSet(1 .. n) /\ Cardinality(1 .. n) = n
    BY <1>2, FS_Interval
  <2>3. rank \in Surjection(kept, 1 .. n)
    BY <1>2, <2>1, <2>2, FS_Injection DEF n
  <2>4. QED BY <2>3 DEF Surjection
<1> DEFINE at(k) == CHOOSE i \in kept : Cardinality(upTo(i)) = k
<1>8. \A i \in kept : rank[i] = Cardinality(upTo(i))
  OBVIOUS
<1>9. Kept(outside) = [k \in 1 .. n |-> plan[at(k)]]
  BY Zenon DEF Kept
<1>10. ASSUME NEW k \in 1 .. n PROVE at(k) \in kept /\ rank[at(k)] = k
  <2>1. \E i \in kept : Cardinality(upTo(i)) = k
    BY <1>7, <1>8
  <2>2. at(k) \in kept /\ Cardinality(upTo(at(k))) = k
    <3> HIDE DEF kept, upTo
    <3>1. QED BY <2>1
  <2> HIDE DEF at, kept, upTo, rank
  <2>3. QED BY <1>8, <2>2
<1> HIDE DEF at, rank, upTo
<1>11. \A i \in kept : plan[i] \in Entry
  BY <1>1
<1>12. Kept(outside) \in [1 .. n -> Entry]
  BY <1>9, <1>10, <1>11
<1>13. ASSUME NEW i \in kept PROVE rank[i] \in DOMAIN Kept(outside)
                /\ Kept(outside)[rank[i]] = plan[i]
  <2>1. rank[i] \in 1 .. n
    BY <1>5
  <2>2. at(rank[i]) = i
    BY <1>6, <1>10, <2>1
  <2>3. QED BY <1>9, <2>1, <2>2
<1>14. Kept(outside) \in Seq(Entry)
  <2> HIDE DEF n
  <2>1. QED BY <1>2, <1>12
<1>15. QED BY <1>13, <1>14

\* A plan that is written leaves the decision behind.
LEMMA WriteKeeps ==
  ASSUME ScopeInv, plan' \in Seq(Entry), revision' = revision + 1, run' \in RunRecords,
         UNCHANGED <<pass, decision, wrong>>, run'.stage \in {"round", "worked"}
  PROVE  ScopeTypes' /\ PassInv'
<1>1. ScopeTypes'
  BY DEF ScopeInv, ScopeTypes
<1>2. decision'.on # revision'
  BY DEF ScopeInv, ScopeTypes
<1>3. QED BY <1>1, <1>2 DEF PassInv

LEMMA CleanupKeeps == ASSUME ScopeInv, Cleanup PROVE ScopeInv'
<1> USE DEF ScopeInv
<1>1. /\ run' \in RunRecords /\ run'.shape = run.shape /\ run'.recovered = run.recovered
      /\ run'.contract = run.contract /\ run'.stage = "round"
      /\ UNCHANGED <<needed, due, pass, decision, wrong>>
  <2>1. run \in RunRecords /\ run' = [run EXCEPT !.stage = "round", !.cleanups = @ + 1]
    BY DEF Cleanup, ScopeTypes
  <2>2. /\ run' \in RunRecords /\ run'.shape = run.shape /\ run'.recovered = run.recovered
        /\ run'.contract = run.contract /\ run'.stage = "round"
    <3>1. "round" \in ScopeStages
      BY DEF ScopeStages
    <3>2. PICK n \in Nat : n = run.cleanups + 1
      BY <2>1 DEF RunRecords
    <3>3. run' = [run EXCEPT !.stage = "round", !.cleanups = n]
      BY <2>1, <3>2
    <3>4. QED BY <2>1, <3>1, <3>3 DEF RunRecords
  <2>3. QED BY <2>2 DEF Cleanup, truth
<1>2. ~RecoveryDue /\ CleanupDue
  BY DEF Cleanup, RoundInv
<1>3. ~RecoveryDue' /\ CleanupDue'
  BY <1>1, <1>2 DEF RecoveryDue, CleanupDue
<1>4. RoundInv'
  BY <1>1, <1>3 DEF RoundInv
<1>5. CASE UNCHANGED <<plan, revision>>
  <2>1. ScopeTypes' /\ PassInv'
    BY <1>1, <1>5, PassKept
  <2>2. QED BY <1>4, <2>1
<1>6. CASE WritePlan(Kept(decision.outside))
  <2>1. plan' \in Seq(Entry) /\ revision' = revision + 1
    BY <1>6, KeptMeans DEF WritePlan, ScopeTypes
  <2>2. QED BY <1>1, <1>4, <2>1, WriteKeeps
<1>7. QED BY <1>5, <1>6 DEF Cleanup

LEMMA ReplanKeeps == ASSUME ScopeInv, Replan PROVE ScopeInv'
<1> USE DEF ScopeInv
<1>1. /\ run' \in RunRecords /\ run'.shape = run.shape /\ run'.contract = run.contract
      /\ run'.stage = "round"
      /\ UNCHANGED <<needed, due, pass, decision, wrong>>
  <2>1. run \in RunRecords /\ "round" \in ScopeStages
    BY DEF ScopeTypes, ScopeStages
  <2>2. PICK n \in Nat : n = run.recoveries + 1
    BY <2>1 DEF RunRecords
  <2>3. \/ run' = [run EXCEPT !.stage = "round", !.recoveries = n, !.recovered = TRUE]
        \/ run' = [run EXCEPT !.stage = "round", !.recoveries = n]
    BY <2>2 DEF Replan
  <2>4. UNCHANGED <<needed, due, pass, decision, wrong>>
    BY DEF Replan, truth
  <2>5. /\ run' \in RunRecords /\ run'.shape = run.shape /\ run'.contract = run.contract
        /\ run'.stage = "round"
    BY <2>1, <2>2, <2>3 DEF RunRecords
  <2>6. QED BY <2>4, <2>5
<1>2. CASE UNCHANGED <<plan, revision>> /\ run'.recovered = run.recovered
  <2>1. /\ ScopeTypes' /\ PassInv' /\ Unfinished' = Unfinished /\ (CleanupDue' <=> CleanupDue)
    BY <1>1, <1>2, PassKept
  <2>2. RecoveryDue' <=> RecoveryDue
    BY <1>1, <1>2 DEF RecoveryDue
  <2>3. RoundInv'
    BY <1>1, <2>1, <2>2 DEF RoundInv, Ended, Replan
  <2>4. QED BY <2>1, <2>3
<1>3. CASE WritePlan(run.contract) /\ run'.recovered = TRUE
  <2>1. plan' = run.contract /\ revision' = revision + 1 /\ run.contract \in Seq(Entry)
    BY <1>3 DEF WritePlan, ScopeTypes, RunRecords
  <2>2. ScopeTypes' /\ PassInv'
    BY <1>1, <2>1, WriteKeeps
  <2>3. run.contract # <<>> /\ \A i \in DOMAIN run.contract : run.contract[i].status = "pending"
    BY DEF Replan, RoundInv
  <2>4. 1 \in DOMAIN run.contract
    BY <2>1, <2>3
  <2>5. Unfinished' # {} /\ ~RecoveryDue'
    BY <1>3, <2>1, <2>3, <2>4 DEF Unfinished, RecoveryDue
  <2>6. RoundInv'
    BY <1>1, <2>3, <2>5 DEF RoundInv
  <2>7. QED BY <2>2, <2>6
<1>4. QED
  <2>1. run \in RunRecords
    BY DEF ScopeTypes
  <2>2. CASE WritePlan(run.contract)
               /\ run' = [run EXCEPT !.stage = "round", !.recoveries = @ + 1, !.recovered = TRUE]
    BY <1>3, <2>1, <2>2 DEF RunRecords
  <2>3. CASE UNCHANGED <<plan, revision>>
               /\ run' = [run EXCEPT !.stage = "round", !.recoveries = @ + 1]
    BY <1>2, <2>1, <2>3 DEF RunRecords
  <2>4. QED BY <2>2, <2>3 DEF Replan

LEMMA WorkKeeps == ASSUME ScopeInv, Work PROVE ScopeInv'
<1> USE DEF ScopeInv
<1>1. /\ run' \in RunRecords /\ run'.contract = run.contract /\ run'.stage = "worked"
      /\ UNCHANGED <<needed, due, pass, decision, wrong>>
  BY DEF Work, ScopeTypes, RunRecords, ScopeStages, Ended, truth
<1>2. RoundInv'
  BY <1>1 DEF RoundInv, Ended
<1>3. CASE UNCHANGED <<plan, revision>>
  BY <1>1, <1>2, <1>3, PassKept
<1>4. CASE \E p \in Plans : MayFollow(p) /\ WritePlan(p)
  <2>1. plan' \in Seq(Entry) /\ revision' = revision + 1
    BY <1>4, ScopeAssumption DEF Plans, WritePlan
  <2>2. QED BY <1>1, <1>2, <2>1, WriteKeeps
<1>5. QED BY <1>3, <1>4 DEF Work

\* A run that starts takes its plan as it is.
LEMMA FreshRunMeans ==
  ASSUME plan \in Seq(Entry), NEW n \in Nat
  PROVE  /\ FreshRun(n, plan) \in RunRecords /\ FreshRun(n, plan).stage = "round"
         /\ FreshRun(n, plan).contract = <<>> /\ ~FreshRun(n, plan).recovered
         /\ FreshRun(n, plan).shape \in {"empty", "completed"} <=> Unfinished = {}
<1>1. Shape(plan) \in {"empty", "completed", "unfinished"}
      /\ (Shape(plan) \in {"empty", "completed"} <=> Unfinished = {})
  BY DEF Shape, Unfinished
<1>2. <<>> \in Seq(Entry)
  OBVIOUS
<1>3. QED BY <1>1, <1>2 DEF FreshRun, RunRecords, ScopeStages

LEMMA ScopeStarts ==
  ASSUME plan \in Seq(Entry), revision \in Nat \ {0}, NEW n \in Nat, run = FreshRun(n, plan),
         pass = NoPass, decision = NoDecision, wrong = 0
  PROVE  ScopeInv
<1>1. /\ run \in RunRecords /\ run.stage = "round" /\ run.contract = <<>> /\ ~run.recovered
      /\ run.shape \in {"empty", "completed"} <=> Unfinished = {}
  BY FreshRunMeans
<1>2. NoPass \in PassRecords /\ NoDecision.on = 0
  <2>1. <<>> \in [{} -> Votes] /\ {} \in SUBSET Nat
    OBVIOUS
  <2>2. <<>> \in VoteLists
    BY <2>1 DEF VoteLists
  <2>3. QED BY <2>2 DEF NoPass, PassRecords, NoDecision
<1>3. ScopeTypes
  BY <1>1, <1>2 DEF ScopeTypes
<1>4. PassInv
  BY <1>1, <1>2 DEF PassInv
<1>5. RoundInv
  BY <1>1 DEF RoundInv, RecoveryDue
<1>6. QED BY <1>3, <1>4, <1>5 DEF ScopeInv

LEMMA ScopeStep == ASSUME ScopeInv, [ScopeNext]_scopeVars PROVE ScopeInv'
<1>1. CASE TurnIsRetried \/ TurnFallsBack \/ AnswerIsInvalid \/ ClassifierFails \/ Block \/ Stop
  BY <1>1, TurnKeeps
<1>2. CASE ScopeAnswers \/ CriticAnswers \/ ArbiterAnswers \/ JointAnswers \/ RecoveryAnswers
  BY <1>2, ScopeAnswersKeeps, CriticAnswersKeeps, ArbiterAnswersKeeps, JointAnswersKeeps,
     RecoveryAnswersKeeps
<1>3. CASE Round \/ Cleanup \/ Replan \/ Work
  BY <1>3, RoundKeeps, CleanupKeeps, ReplanKeeps, WorkKeeps
<1>4. CASE NextRun
  <2>1. /\ plan \in Seq(Entry) /\ run.number + 1 \in Nat /\ revision \in Nat \ {0}
        /\ plan' = plan /\ revision' = revision
        /\ run' = FreshRun(run.number + 1, plan) /\ pass' = NoPass /\ decision' = NoDecision
        /\ wrong' = 0
    BY <1>4 DEF NextRun, ScopeInv, ScopeTypes, RunRecords
  <2>2. PICK n \in Nat : run' = FreshRun(n, plan)
    BY <2>1
  <2>3. /\ run' \in RunRecords /\ run'.stage = "round" /\ run'.contract = <<>> /\ ~run'.recovered
        /\ run'.shape \in {"empty", "completed"} <=> Unfinished = {}
    BY <2>1, <2>2, FreshRunMeans
  <2>4. Unfinished' = Unfinished
    BY <2>1 DEF Unfinished
  <2>5. NoPass \in PassRecords /\ NoDecision.on = 0
    <3>1. <<>> \in [{} -> Votes] /\ {} \in SUBSET Nat
      OBVIOUS
    <3>2. <<>> \in VoteLists
      BY <3>1 DEF VoteLists
    <3>3. QED BY <3>2 DEF NoPass, PassRecords, NoDecision
  <2>6. ScopeTypes'
    BY <2>1, <2>3, <2>5 DEF ScopeTypes
  <2>7. PassInv'
    BY <2>1, <2>3, <2>5 DEF PassInv
  <2>8. RoundInv'
    BY <2>3, <2>4 DEF RoundInv, RecoveryDue
  <2>9. QED BY <2>6, <2>7, <2>8 DEF ScopeInv
<1>5. CASE UNCHANGED scopeVars
  <2>1. UNCHANGED <<needed, due, plan, revision, run, pass, decision, wrong>>
    BY <1>5 DEF scopeVars
  <2>2. run' \in RunRecords
    BY <2>1 DEF ScopeInv, ScopeTypes
  <2>3. /\ ScopeTypes' /\ PassInv' /\ Unfinished' = Unfinished
        /\ (CleanupDue' <=> CleanupDue) /\ (ConflictDue' <=> ConflictDue)
        /\ (Unclassified' <=> Unclassified)
    BY <2>1, <2>2, PassKept
  <2>4. RecoveryDue' <=> RecoveryDue
    BY <2>1 DEF RecoveryDue
  <2>5. RoundInv'
    BY <2>1, <2>3, <2>4 DEF RoundInv, ScopeInv
  <2>6. QED BY <2>3, <2>5 DEF ScopeInv
<1>6. QED BY <1>1, <1>2, <1>3, <1>4, <1>5 DEF ScopeNext

LEMMA ScopeIsSettled == ScopeSpec => []ScopeInv
<1>1. ScopeInit => ScopeInv
  <2> SUFFICES ASSUME ScopeInit PROVE ScopeInv
    OBVIOUS
  <2>1. plan \in Seq(Entry)
    BY ScopeAssumption DEF ScopeInit, Plans
  <2>2. revision \in Nat \ {0} /\ run = FreshRun(1, plan) /\ pass = NoPass
          /\ decision = NoDecision /\ wrong = 0
    BY DEF ScopeInit
  <2>3. PICK n \in Nat : run = FreshRun(n, plan)
    BY <2>2
  <2>4. QED BY <2>1, <2>2, <2>3, ScopeStarts
<1>2. ScopeInv /\ [ScopeNext]_scopeVars => ScopeInv'
  BY ScopeStep
<1>3. QED BY <1>1, <1>2, PTL DEF ScopeSpec

-----------------------------------------------------------------------------
\* What a decision that exposes work rests on.
LEMMA ExposedWork ==
  ASSUME ScopeInv, run.stage = "work"
  PROVE  /\ decision.on = revision /\ Covered(pass) /\ Mistakes(pass) <= wrong /\ Agreed(pass)
         /\ Confirmed(pass) = {} /\ decision.selected = Frontier(Authorized(pass))
         /\ Frontier(Authorized(pass)) # None /\ decision.work = pass.criticWork
<1> USE DEF ScopeInv
<1>1. ~RecoveryDue /\ ~CleanupDue /\ ~ConflictDue /\ ~Unclassified
  BY DEF RoundInv
<1>2. Unfinished # {}
  BY <1>1 DEF RoundInv, Ended
<1>3. decision.on = revision
  BY <1>1, <1>2 DEF Unclassified
<1>4. decision = Decision(pass) /\ Covered(pass) /\ Mistakes(pass) <= wrong
  BY <1>3 DEF PassInv
<1> DEFINE exposes == Confirmed(pass) = {} /\ Frontier(Authorized(pass)) # None /\ Agreed(pass)
<1>5. /\ decision.outside = Confirmed(pass) /\ decision.selected = Frontier(Authorized(pass))
      /\ decision.conflict <=> (Confirmed(pass) = {} /\ ~exposes)
      /\ exposes => decision.work = pass.criticWork
  BY <1>4 DEF Decision
<1>6. QED BY <1>1, <1>3, <1>4, <1>5 DEF CleanupDue, ConflictDue

(* One classifier that is wrong, in its vote on any item or in the effects *)
(* it asks for, exposes no work outside the objective and no effect that   *)
(* its item does not take; tools with effects are offered under a decision *)
(* about the current plan only.                                            *)
THEOREM WorkIsAuthorized == ScopeSpec => []OneWrongPassExposesNothing
<1>1. ScopeInv => OneWrongPassExposesNothing
  <2> SUFFICES ASSUME ScopeInv, run.stage = "work", wrong <= 1
               PROVE  /\ decision.on = revision
                      /\ decision.selected \in Unfinished
                      /\ plan[decision.selected].item \in needed
                      /\ decision.work = due[plan[decision.selected].item]
    BY DEF OneWrongPassExposesNothing
  <2> USE DEF ScopeInv
  <2> DEFINE s == Frontier(Authorized(pass))
  <2>1. /\ decision.on = revision /\ Covered(pass) /\ Mistakes(pass) <= wrong /\ Agreed(pass)
        /\ Confirmed(pass) = {} /\ decision.selected = s /\ s # None
        /\ decision.work = pass.criticWork
    BY ExposedWork
  <2>2. Proposed(pass) \subseteq Unfinished /\ Authorized(pass) \subseteq Proposed(pass)
    BY <2>1 DEF Covered, Proposed, Authorized, Voted
  <2>3. plan \in Seq(Entry) /\ Authorized(pass) \in SUBSET DOMAIN plan
    BY <2>2, UnfinishedAreItems DEF ScopeTypes
  <2>4. s \in Authorized(pass)
    BY <2>1, <2>3, FrontierMeans
  <2>5. /\ s \in DOMAIN pass.scope /\ pass.scope[s] = "required"
        /\ s \in DOMAIN pass.critic /\ pass.critic[s] = "required"
    BY <2>2, <2>4 DEF Proposed, Authorized, Voted
  <2>6. ~(ScopeWrong(pass) /\ CriticWrong(pass)) /\ ~(CriticWrong(pass) /\ JointWrong(pass))
    BY <2>1 DEF Mistakes, Bit, ScopeTypes
  <2>7. plan[s].item \in needed
    <3>1. plan[s].item \notin needed => Untrue(pass.scope[s], s) /\ Untrue(pass.critic[s], s)
      BY <2>5 DEF Untrue
    <3>2. plan[s].item \notin needed => UntrueVotes(pass.scope) /\ UntrueVotes(pass.critic)
      BY <2>5, <3>1 DEF UntrueVotes
    <3>3. QED BY <2>6, <3>2 DEF ScopeWrong, CriticWrong
  <2>8. ASSUME pass.criticWork # due[plan[s].item] PROVE FALSE
    <3>1. CriticWrong(pass)
      BY <2>1, <2>8 DEF CriticWrong, UntrueWork
    <3>2. CASE ~NeedsJoint(pass)
      <4>1. Frontier(Proposed(pass)) = s /\ pass.scopeWork = pass.criticWork
        BY <2>1, <3>2 DEF NeedsJoint
      <4>2. ScopeWrong(pass)
        BY <2>1, <2>8, <4>1 DEF ScopeWrong, UntrueWork
      <4>3. QED BY <2>6, <3>1, <4>2
    <3>3. CASE NeedsJoint(pass)
      <4>1. pass.joint = "required" /\ pass.jointWork = pass.criticWork
        BY <2>1, <3>3 DEF Agreed
      <4>2. Frontier({s}) = s
        <5>1. {s} \in SUBSET DOMAIN plan /\ {s} # {}
          BY <2>3, <2>4
        <5>2. Frontier({s}) \in {s}
          BY <2>3, <5>1, FrontierMeans
        <5>3. QED BY <5>2
      <4>3. UntrueWork({s}, pass.jointWork)
        BY <2>1, <2>8, <4>1, <4>2 DEF UntrueWork
      <4>4. JointWrong(pass)
        BY <4>1, <4>3 DEF JointWrong
      <4>5. QED BY <2>6, <3>1, <4>4
    <3>4. QED BY <3>2, <3>3
  <2>9. QED BY <2>1, <2>2, <2>4, <2>7, <2>8
<1>2. QED BY <1>1, ScopeIsSettled, PTL

(* Over every classification, cleanup, recovery and run, an item that the  *)
(* objective needs leaves the plan only by being completed, unless two     *)
(* passes were wrong together.                                             *)
THEOREM NeededItemsAreKept == ScopeSpec => NeededItemsStay
<1> DEFINE Stay == \A i \in Unfinished :
                     plan[i].item \in needed /\ wrong <= 1 => InPlan(plan', plan[i].item)
<1>1. ScopeInv /\ [ScopeNext]_scopeVars => [Stay]_scopeVars
  <2> SUFFICES ASSUME ScopeInv, ScopeNext, NEW i \in Unfinished, plan[i].item \in needed, wrong <= 1
               PROVE  InPlan(plan', plan[i].item)
    OBVIOUS
  <2> USE DEF ScopeInv
  <2>1. plan \in Seq(Entry) /\ i \in DOMAIN plan
    BY UnfinishedAreItems DEF ScopeTypes
  <2>2. CASE plan' = plan
    BY <2>1, <2>2 DEF InPlan
  <2>3. CASE Cleanup /\ plan' = Kept(decision.outside)
    <3>1. decision.on = revision
      BY <2>3 DEF Cleanup, RoundInv, Unclassified
    <3>2. decision.outside = Confirmed(pass) /\ Covered(pass) /\ Mistakes(pass) <= wrong
      BY <3>1 DEF PassInv, Decision
    <3>3. i \notin Confirmed(pass)
      <4> SUFFICES ASSUME i \in Confirmed(pass) PROVE FALSE
        OBVIOUS
      <4>1. i \in DOMAIN pass.arbiter /\ pass.arbiter[i] = "outside" /\ i \in Candidates(pass)
        BY <3>2 DEF Confirmed, Voted, Covered
      <4>2. ArbiterWrong(pass)
        BY <4>1 DEF ArbiterWrong, UntrueVotes, Untrue
      <4>3. ScopeWrong(pass) \/ CriticWrong(pass)
        <5>1. \/ i \in DOMAIN pass.scope /\ pass.scope[i] = "outside"
              \/ i \in DOMAIN pass.critic /\ pass.critic[i] = "outside"
          BY <4>1 DEF Candidates, Voted
        <5>2. UntrueVotes(pass.scope) \/ UntrueVotes(pass.critic)
          BY <5>1 DEF UntrueVotes, Untrue
        <5>3. QED BY <5>2 DEF ScopeWrong, CriticWrong
      <4>4. QED BY <3>2, <4>2, <4>3 DEF Mistakes, Bit, ScopeTypes
    <3>4. PICK k \in DOMAIN Kept(decision.outside) : Kept(decision.outside)[k] = plan[i]
      BY <2>1, <3>2, <3>3, KeptMeans
    <3>5. QED BY <2>3, <3>4 DEF InPlan
  <2>4. CASE Replan /\ plan' # plan
    BY <2>4 DEF Replan, RoundInv, Ended
  <2>5. CASE Work /\ plan' # plan
    <3>1. MayFollow(plan') /\ plan' \in Seq(Entry)
      BY <2>5, ScopeAssumption DEF Work, WritePlan, Plans
    <3>2. i \in DOMAIN plan'
      BY <2>1, <3>1 DEF MayFollow
    <3>3. plan'[i].item = plan[i].item
      BY <2>1, <3>1, <3>2 DEF MayFollow
    <3>4. QED BY <3>2, <3>3 DEF InPlan
  <2>6. QED
    <3>1. CASE Round \/ NextRun \/ ScopeAnswers \/ CriticAnswers \/ ArbiterAnswers
                 \/ JointAnswers \/ RecoveryAnswers
      BY <2>2, <3>1 DEF Round, NextRun, ScopeAnswers, CriticAnswers, ArbiterAnswers, JointAnswers,
                        RecoveryAnswers, Proceed
    <3>2. CASE TurnIsRetried \/ TurnFallsBack \/ AnswerIsInvalid \/ ClassifierFails \/ Block \/ Stop
      BY <2>2, <3>2 DEF TurnIsRetried, TurnFallsBack, AnswerIsInvalid, ClassifierFails,
         Block, Stop
    <3>3. CASE Cleanup \/ Replan \/ Work
      BY <2>2, <2>3, <2>4, <2>5, <3>3 DEF Cleanup, Replan, Work, WritePlan
    <3>4. QED BY <3>1, <3>2, <3>3 DEF ScopeNext
<1>2. QED BY <1>1, ScopeIsSettled, PTL DEF ScopeSpec, NeededItemsStay
=============================================================================
