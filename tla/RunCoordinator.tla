--------------------------- MODULE RunCoordinator ---------------------------
(***************************************************************************)
(* Which runs AgentService lets exist (services/agent.ts), and the three   *)
(* kinds of work that must not meet a run: the operations of ipc.ts that   *)
(* suspend all runs (another workspace, trust, undo, deleting a            *)
(* conversation), the mutations of one goal, and the shutdown of index.ts. *)
(*                                                                         *)
(* A run is one performRun: scheduled, its body (every turn and tool call  *)
(* of it), and the steps of its finally block up to the promise that       *)
(* runCompletions holds.  What runs without an await in between is one     *)
(* step.                                                                   *)
(***************************************************************************)
EXTENDS Naturals, FiniteSets

CONSTANTS Runs,               \* runs that may be started
          Conversations,
          Goals,
          NoGoal,             \* a run without a goal
          NoRun,              \* a key the maps do not hold
          ConversationOf,     \* input.conversationId of each run
          GoalOf,             \* input.goalId of each run
          Suspensions,        \* calls of withRunsSuspended
          Mutations,          \* calls of withGoalMutation
          GoalMutated,        \* the goal of each such call
          MaxConcurrentRuns   \* MAX_CONCURRENT_RUNS

ASSUME RunsAssumption ==
    /\ NoRun \notin Runs
    /\ NoGoal \notin Goals
    /\ ConversationOf \in [Runs -> Conversations]
    /\ GoalOf \in [Runs -> Goals \cup {NoGoal}]
    /\ GoalMutated \in [Mutations -> Goals]

ASSUME LimitAssumption == MaxConcurrentRuns \in Nat \ {0} /\ IsFiniteSet(Runs)

VARIABLES phase,                \* per run: where performRun is
          aborted,              \* runs whose AbortController has aborted
          activeRuns,
          activeConversations,
          activeGoals,
          runCompletions,       \* runs whose completion has not resolved
          goalMutations,        \* goals reserved by a mutation
          runsSuspended,
          suspension,           \* per call: stage, and the completions it awaits
          mutation,             \* per call: stage, and the run it awaits
          host,                 \* the process: up, disposed (quitting), closed or exited
          quitting              \* the completions shutdown awaits

runVars == <<phase, aborted, activeRuns, activeConversations, activeGoals, runCompletions>>
vars == <<runVars, goalMutations, runsSuspended, suspension, mutation, host, quitting>>

Phases == {"idle", "scheduled", "body", "cancelling", "closing", "title", "over"}
Working == {"scheduled", "body", "cancelling"}
CallStages == {"idle", "waiting", "operating", "done"}

Init ==
    /\ phase = [r \in Runs |-> "idle"]
    /\ aborted = {}
    /\ activeRuns = {}
    /\ activeConversations = [c \in Conversations |-> NoRun]
    /\ activeGoals = [g \in Goals |-> NoRun]
    /\ runCompletions = {}
    /\ goalMutations = {}
    /\ runsSuspended = FALSE
    /\ suspension = [s \in Suspensions |-> [stage |-> "idle", awaits |-> {}]]
    /\ mutation = [m \in Mutations |-> [stage |-> "idle", awaits |-> {}]]
    /\ host = "up"
    /\ quitting = {}

Alive == host \in {"up", "disposed"}

(* cancelRun of every run of R; one that left activeRuns has no controller *)
(* to abort any more.                                                      *)
Cancel(R) == aborted' = aborted \cup (R \cap activeRuns)

(* Promise.allSettled of a snapshot of runCompletions has resolved.        *)
Settled(awaited) == awaited \cap runCompletions = {}
-----------------------------------------------------------------------------
(* The life of a run.                                                      *)

(* Mutant: the goal lock is not looked at.                                 *)
MayStartDuringMutation(r) ==
    /\ ~runsSuspended
    /\ activeConversations[ConversationOf[r]] = NoRun
    /\ GoalOf[r] # NoGoal => activeGoals[GoalOf[r]] = NoRun
    /\ Cardinality(activeRuns) < MaxConcurrentRuns

(* The order of the guards is the code's; the goal lock is the last but    *)
(* one.  No await lies between the guards and the maps.                    *)
MayStart(r) ==
    /\ ~runsSuspended
    /\ activeConversations[ConversationOf[r]] = NoRun
    /\ GoalOf[r] # NoGoal => /\ activeGoals[GoalOf[r]] = NoRun
                             /\ GoalOf[r] \notin goalMutations
    /\ Cardinality(activeRuns) < MaxConcurrentRuns

(* Mutant: runsSuspended alone keeps runs out of a shutdown.               *)
StartRunAfterDispose(r) ==
    /\ Alive
    /\ phase[r] = "idle"
    /\ MayStart(r)
    /\ phase' = [phase EXCEPT ![r] = "scheduled"]
    /\ activeRuns' = activeRuns \cup {r}
    /\ activeConversations' = [activeConversations EXCEPT ![ConversationOf[r]] = r]
    /\ activeGoals' = [g \in Goals |-> IF g = GoalOf[r] THEN r ELSE activeGoals[g]]
    /\ runCompletions' = runCompletions \cup {r}
    /\ UNCHANGED <<aborted, goalMutations, runsSuspended, suspension, mutation, host, quitting>>

StartRun(r) ==
    /\ host = "up"
    /\ phase[r] = "idle"
    /\ MayStart(r)
    /\ phase' = [phase EXCEPT ![r] = "scheduled"]
    /\ activeRuns' = activeRuns \cup {r}
    /\ activeConversations' = [activeConversations EXCEPT ![ConversationOf[r]] = r]
    /\ activeGoals' = [g \in Goals |-> IF g = GoalOf[r] THEN r ELSE activeGoals[g]]
    /\ runCompletions' = runCompletions \cup {r}
    /\ UNCHANGED <<aborted, goalMutations, runsSuspended, suspension, mutation, host, quitting>>

(* setImmediate: performRun is entered.                                    *)
EnterBody(r) ==
    /\ Alive
    /\ phase[r] = "scheduled"
    /\ phase' = [phase EXCEPT ![r] = "body"]
    /\ UNCHANGED <<aborted, activeRuns, activeConversations, activeGoals, runCompletions,
                   goalMutations, runsSuspended, suspension, mutation, host, quitting>>

(* The entries of the run leave the maps, each only if it is still its     *)
(* own; the last run takes the MCP servers with it.                        *)
Leave(r) ==
    /\ activeRuns' = activeRuns \ {r}
    /\ activeConversations' =
         [c \in Conversations |-> IF activeConversations[c] = r THEN NoRun
                                                                ELSE activeConversations[c]]
    /\ activeGoals' = [g \in Goals |-> IF activeGoals[g] = r THEN NoRun ELSE activeGoals[g]]
    /\ phase' = [phase EXCEPT ![r] = IF activeRuns' = {} THEN "closing" ELSE "title"]
    /\ UNCHANGED <<aborted, runCompletions>>

(* The try and catch blocks are over: completed, failed, or cancelled.     *)
LeaveBody(r) ==
    /\ Alive
    /\ phase[r] = "body"
    /\ r \notin aborted
    /\ Leave(r)
    /\ UNCHANGED <<goalMutations, runsSuspended, suspension, mutation, host, quitting>>

(* An aborted run first waits for the cancel hook of its driver.           *)
LeaveAbortedBody(r) ==
    /\ Alive
    /\ phase[r] = "body"
    /\ r \in aborted
    /\ phase' = [phase EXCEPT ![r] = "cancelling"]
    /\ UNCHANGED <<aborted, activeRuns, activeConversations, activeGoals, runCompletions,
                   goalMutations, runsSuspended, suspension, mutation, host, quitting>>

DriverCancelled(r) ==
    /\ Alive
    /\ phase[r] = "cancelling"
    /\ Leave(r)
    /\ UNCHANGED <<goalMutations, runsSuspended, suspension, mutation, host, quitting>>

(* mcp.close() has resolved; the terminal event goes out.                  *)
McpClosed(r) ==
    /\ Alive
    /\ phase[r] = "closing"
    /\ phase' = [phase EXCEPT ![r] = "title"]
    /\ UNCHANGED <<aborted, activeRuns, activeConversations, activeGoals, runCompletions,
                   goalMutations, runsSuspended, suspension, mutation, host, quitting>>

(* generateTitleAfterRun has resolved, and with it the completion.         *)
Complete(r) ==
    /\ Alive
    /\ phase[r] = "title"
    /\ phase' = [phase EXCEPT ![r] = "over"]
    /\ runCompletions' = runCompletions \ {r}
    /\ UNCHANGED <<aborted, activeRuns, activeConversations, activeGoals,
                   goalMutations, runsSuspended, suspension, mutation, host, quitting>>

(* cancelRun by its renderer, or the run timeout.                          *)
CancelRun(r) ==
    /\ Alive
    /\ r \in activeRuns \ aborted
    /\ Cancel({r})
    /\ UNCHANGED <<phase, activeRuns, activeConversations, activeGoals, runCompletions,
                   goalMutations, runsSuspended, suspension, mutation, host, quitting>>
-----------------------------------------------------------------------------
(* withRunsSuspended.                                                      *)

(* Mutant: the runs are suspended but the active ones are not cancelled.   *)
SuspendWithoutCancel(s) ==
    /\ Alive
    /\ suspension[s].stage = "idle"
    /\ ~runsSuspended
    /\ runsSuspended' = TRUE
    /\ suspension' = [suspension EXCEPT ![s] = [stage |-> "waiting", awaits |-> runCompletions]]
    /\ UNCHANGED <<runVars, goalMutations, mutation, host, quitting>>

(* Mutant: only the runs still in activeRuns are awaited.                  *)
SuspendAwaitingActive(s) ==
    /\ Alive
    /\ suspension[s].stage = "idle"
    /\ ~runsSuspended
    /\ runsSuspended' = TRUE
    /\ Cancel(activeRuns)
    /\ suspension' = [suspension EXCEPT ![s] = [stage |-> "waiting", awaits |-> activeRuns]]
    /\ UNCHANGED <<phase, activeRuns, activeConversations, activeGoals, runCompletions,
                   goalMutations, mutation, host, quitting>>

(* A second call throws while the first holds the flag.                    *)
Suspend(s) ==
    /\ Alive
    /\ suspension[s].stage = "idle"
    /\ ~runsSuspended
    /\ runsSuspended' = TRUE
    /\ Cancel(activeRuns)
    /\ suspension' = [suspension EXCEPT ![s] = [stage |-> "waiting", awaits |-> runCompletions]]
    /\ UNCHANGED <<phase, activeRuns, activeConversations, activeGoals, runCompletions,
                   goalMutations, mutation, host, quitting>>

Operate(s) ==
    /\ Alive
    /\ suspension[s].stage = "waiting"
    /\ Settled(suspension[s].awaits)
    /\ suspension' = [suspension EXCEPT ![s].stage = "operating"]
    /\ UNCHANGED <<runVars, goalMutations, runsSuspended, mutation, host, quitting>>

(* The finally block: the operation succeeded or threw.                    *)
Resume(s) ==
    /\ Alive
    /\ suspension[s].stage = "operating"
    /\ suspension' = [suspension EXCEPT ![s].stage = "done"]
    /\ runsSuspended' = FALSE
    /\ UNCHANGED <<runVars, goalMutations, mutation, host, quitting>>
-----------------------------------------------------------------------------
(* withGoalMutation, with a preflight that passes: one that throws takes   *)
(* the lock and gives it back in the same step.                            *)

RunOfGoal(g) == {activeGoals[g]} \ {NoRun}

ReserveGoal(m) ==
    LET g == GoalMutated[m]
    IN /\ host = "up"
       /\ mutation[m].stage = "idle"
       /\ g \notin goalMutations
       /\ goalMutations' = goalMutations \cup {g}
       /\ Cancel(RunOfGoal(g))
       /\ mutation' = [mutation EXCEPT ![m] = [stage |-> "waiting", awaits |-> RunOfGoal(g)]]
       /\ UNCHANGED <<phase, activeRuns, activeConversations, activeGoals, runCompletions,
                      runsSuspended, suspension, host, quitting>>

(* The operation of mutateGoal has no await; the lock goes in its finally. *)
MutateGoal(m) ==
    /\ Alive
    /\ mutation[m].stage = "waiting"
    /\ Settled(mutation[m].awaits)
    /\ mutation' = [mutation EXCEPT ![m].stage = "done"]
    /\ goalMutations' = goalMutations \ {GoalMutated[m]}
    /\ UNCHANGED <<runVars, runsSuspended, suspension, host, quitting>>
-----------------------------------------------------------------------------
(* before-quit: the IPC handlers go, then AgentService shuts down.         *)
Quit ==
    /\ host = "up"
    /\ host' = "disposed"
    /\ runsSuspended' = TRUE
    /\ Cancel(activeRuns)
    /\ quitting' = runCompletions
    /\ UNCHANGED <<phase, activeRuns, activeConversations, activeGoals, runCompletions,
                   goalMutations, suspension, mutation>>

(* Every run it waited for is over: the repository is closed.              *)
CloseServices ==
    /\ host = "disposed"
    /\ Settled(quitting)
    /\ host' = "closed"
    /\ UNCHANGED <<runVars, goalMutations, runsSuspended, suspension, mutation, quitting>>

(* SHUTDOWN_GRACE_PERIOD_MS is over: the process exits as it is.           *)
GracePeriodEnds ==
    /\ host = "disposed"
    /\ host' = "exited"
    /\ UNCHANGED <<runVars, goalMutations, runsSuspended, suspension, mutation, quitting>>
-----------------------------------------------------------------------------
RunStep(r) ==
    \/ EnterBody(r)
    \/ LeaveBody(r)
    \/ LeaveAbortedBody(r)
    \/ DriverCancelled(r)
    \/ McpClosed(r)
    \/ Complete(r)

Next ==
    \/ \E r \in Runs : StartRun(r) \/ CancelRun(r) \/ RunStep(r)
    \/ \E s \in Suspensions : Suspend(s) \/ Operate(s) \/ Resume(s)
    \/ \E m \in Mutations : ReserveGoal(m) \/ MutateGoal(m)
    \/ Quit
    \/ CloseServices
    \/ GracePeriodEnds

Spec == Init /\ [][Next]_vars

(* A body that is not cancelled may go on for ever; a cancelled one ends,  *)
(* because every await of it takes the abort signal.  The other steps are  *)
(* promises that settle: the driver's cancel hook, mcp.close(), the title  *)
(* request with its own timeout.  Of an operation only its start is due.   *)
FairSpec ==
    /\ Spec
    /\ \A r \in Runs :
         WF_vars(EnterBody(r) \/ LeaveAbortedBody(r) \/ DriverCancelled(r)
                 \/ McpClosed(r) \/ Complete(r))
    /\ \A s \in Suspensions : WF_vars(Operate(s))
    /\ \A m \in Mutations : WF_vars(MutateGoal(m))
-----------------------------------------------------------------------------
Calls == [stage : CallStages, awaits : SUBSET Runs]

(* What every variable holds.                                              *)
TypeOK ==
    /\ phase \in [Runs -> Phases]
    /\ aborted \subseteq Runs
    /\ activeRuns \subseteq Runs
    /\ activeConversations \in [Conversations -> Runs \cup {NoRun}]
    /\ activeGoals \in [Goals -> Runs \cup {NoRun}]
    /\ runCompletions \subseteq Runs
    /\ goalMutations \subseteq Goals
    /\ runsSuspended \in BOOLEAN
    /\ suspension \in [Suspensions -> Calls]
    /\ mutation \in [Mutations -> Calls]
    /\ host \in {"up", "disposed", "closed", "exited"}
    /\ quitting \subseteq Runs

(* The four registries describe the same runs: a conversation and a goal   *)
(* name exactly the active run that works for them, so that no two active  *)
(* runs share either, and a run is awaitable until its last step.          *)
RegistriesAgree ==
    /\ activeRuns = {r \in Runs : phase[r] \in Working}
    /\ runCompletions = {r \in Runs : phase[r] \notin {"idle", "over"}}
    /\ \A c \in Conversations, r \in Runs :
         activeConversations[c] = r <=> r \in activeRuns /\ ConversationOf[r] = c
    /\ \A g \in Goals, r \in Runs :
         activeGoals[g] = r <=> r \in activeRuns /\ GoalOf[r] = g
    /\ Cardinality(activeRuns) <= MaxConcurrentRuns

(* While another workspace is chosen, trust changes or an undo runs, no    *)
(* run exists in any phase, and no second such operation does.             *)
SuspendedOperationIsAlone ==
    \A s \in Suspensions : suspension[s].stage = "operating" =>
        /\ runCompletions = {}
        /\ \A other \in Suspensions \ {s} : suspension[other].stage # "operating"

(* A goal mutation is written when no run works for that goal: the one it  *)
(* found was awaited to the end, and the lock admitted no other.           *)
GoalMutationIsAlone ==
    [][\A m \in Mutations :
         mutation[m].stage = "waiting" /\ mutation'[m].stage = "done" =>
             \A r \in Runs : GoalOf[r] = GoalMutated[m] => phase[r] \notin Working]_vars

(* The repository is closed under no run, although an operation that       *)
(* suspended the runs clears the flag during the shutdown.                 *)
NoRunAtClose ==
    [][host # "closed" /\ host' = "closed" => runCompletions = {}]_vars

(* Whoever waits for runs (another workspace, an undo, a deletion, a goal  *)
(* mutation) gets its turn, unless the application quits first.            *)
OperationsProceed ==
    /\ \A s \in Suspensions :
         suspension[s].stage = "waiting" ~> (suspension[s].stage = "operating" \/ ~Alive)
    /\ \A m \in Mutations :
         mutation[m].stage = "waiting" ~> (mutation[m].stage = "done" \/ ~Alive)
=============================================================================
