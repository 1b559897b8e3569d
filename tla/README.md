# TLA+ specifications of the desktop assistant's host process

The program is an Electron application. The renderer shows conversations, goals,
approvals and files. The host (`src/main`) runs the agent, owns every secret and
every file, and is the only part that may change anything. This directory holds
TLA+ modules that model the host, TLC configurations that check them on small
instances, and proofs, checked by TLAPS, of theorems that hold for every instance.

Paths below are relative to the repository (`src/main/...`); module names are
files of this directory.

- [Inventory](#inventory): the parts of the system, and what makes each correct
- [Modules](#modules): which module models what, and how it corresponds to the code
- [Runs](#runs): what each model-checking run checks, its bounds and its fairness
- [Proofs](#proofs): what is proved, and along which argument
- [Disagreements found](#disagreements-between-code-and-documentation)
- [Limits](#limits): what is only model-checked and what is not modelled
- [Plan](#plan): modules, runs and theorems still to come

## Inventory

| Component | State it keeps | Operations | Talks to | What is hard | What makes it correct |
|---|---|---|---|---|---|
| `MutationService` (`services/mutation.ts`) | prepared actions in memory; per action a journal file whose suffix is its status; backups and staged files beside the targets | `prepare`, `preparePatch`, `apply`, `undoLast`, `recoverPending` | file system, agent, IPC (`undoLast`), bootstrap (recovery) | the process dies between two renames; a call fails half-way and the rollback fails too; another program edits a file meanwhile | an action happens wholly or not at all; undo restores exactly what was there; no edit of someone else is lost; the workspace never stays in need of recovery |
| `ApprovalBroker` (`services/approvals.ts`) with `awaitApproval` and `serializeSideEffect` of `services/agent.ts` and the run ownership of `ipc.ts` | pending tickets with a timer and an abort listener; the promise chain `sideEffectTail`; `runOwners` | `request`, `resolve`, `cancelRun`, `cancelAll`; proposing a call, starting its effect | renderer documents, policy, settings, every tool with a side effect | the window reloads or goes away, the run is cancelled, the ticket expires, each at any moment around the user's answer | one side effect at a time; only the document that started the run approves, in time; nothing starts after a cancel; no ticket blocks the others for ever |
| Run coordination of `AgentService` (`services/agent.ts`), used by `ipc.ts` and `index.ts` | `activeRuns`, `activeConversations`, `activeGoals`, `runCompletions`, `goalMutations`, `runsSuspended` | `startRun`, `cancelRun`, `cancelGoalRun`, `cancelAllRuns`, `withGoalMutation`, `withRunsSuspended`, `shutdown`, the end of `performRun` | broker, drivers, MCP, repository | a run ends over several awaits while others start, are suspended, or the application quits | the registries agree; an exclusive operation meets no run; the repository closes under no run; whoever waits gets a turn |
| Completion contract and Goal proof (`services/agent.ts`) | per run: scope decision and work contract, effects and their receipts, outcome proof, reserved lifecycle rounds, pending finish | which tool a turn is offered; `update_goal_plan`, `checkpoint_goal`, `finish_goal`; the fallback checkpoint; the end of the run | repository, tools, drivers | a proof older than a later effect; a plan that moved while a call was queued; a run that is stopped between an effect and its receipt | a goal is completed only on a proof and a checkpoint newer than the last effect; what a run did is on record |
| `ConversationRepository` (`services/conversations.ts`) | SQLite: conversations, messages, runs, audit events, goals with a revision, plans, checkpoints and a history, usage; a schema version; files set aside | opening, migration and quarantine; conversations: create, archive, fork, delete; messages of a run; goal CRUD with compare-and-swap, checkpoints, `finishRun`, `recoverInterruptedRuns` | agent, IPC, subagents | a crash with running rows or between two schema versions; a damaged file; an edit against an old revision; a budget crossed by a late usage record | a lost update is impossible; no run is left running; a message is as finished as its run; a migration loses nothing |
| IPC layer (`ipc.ts`) | `runOwners`, `disposed` | one handler per channel; `withTrustedWorkspace`, `mutateGoal` | every service | checks before an await, use after it | the workspace, trust and ownership that were checked are the ones in force |
| `SettingsStore` (`services/settings.ts`, with `macos-credential-broker.ts`) | settings file, cached promise, `mutationTail`, a ciphertext and a generation per provider | `mutate`, provider CRUD, `getProvider`, replacement of a ciphertext, startup migration of credentials | safe storage or credential broker, IPC, drivers | a failing write in a chain; a key encrypted anew while its provider is edited; another build that reads the file | the file is always some committed version; no key moves to another provider, URL or generation |
| `TrustStore` (`services/trust.ts`) | trusted paths on disk, with file identity | `trust`, `revoke`, `isTrusted` | IPC, policy, MCP, hooks | revocation while a run works | nothing workspace-controlled runs untrusted |
| `ApprovalPolicy` (`services/approval-policy.ts`) | none | `evaluateApprovalPolicy` | agent | rule precedence | deny before allow, unknown means ask |
| `McpService` (`services/mcp.ts`) | sessions with child processes, request ids, tool generations, `operationTail` | `discover`, `refresh`, `callTool`, `close` | external servers, agent | late answers, a session replaced during an approval, close against discovery | the tool called is the tool approved |
| `StructuredProcessRunner` (`services/execution.ts`), used by commands, `GitService` and hooks | child, output buffers, timers | `preview`, `run` | operating system | timeout, abort, exit and kill escalation in any order; a helper that keeps the pipes | settles once; what was ended by force leaves nothing behind; a cancellation reaches every child |
| Hooks (`services/hooks.ts`) | `hook-trust.json`, cached entries | discovery, review and trust, `dispatch` | runner, trust, workspace | `hooks.json` or the trust changes while earlier hooks run | no hook runs untrusted, or with another definition than the one that was reviewed |
| `ResponsesApiDriver` (`drivers/responses-api.ts`) with `runLoop` of `services/agent.ts` | session (messages, calls, outputs), usage of the run, refreshes that are due, cached session per conversation | a turn, its retries and recoveries, the verdict on a text, tool calls, compaction, the end of the run | provider, repository, tools | a stream that breaks after it reported usage; a batch that fails in the middle; two copies of one conversation | every call is answered once; usage is counted once; what a run did is told to the next one |
| Subagents (`services/subagents.ts`) | child run rows | start, answer, stop | agent | parent cancelled meanwhile | children end with their parent (the program does not construct the service yet) |
| Tools, workspace, git, skills, instructions, commands, message catalogues | lookup tables, read-only views | read, list, search, parse | agent | size limits, paging | a page is a page of what the cursor was taken from |
| Renderer (`src/renderer`) | React state with request counters | explorer, history, goals, runs | IPC only | answers out of order, for another workspace or a request that was repeated | the newest request wins; nothing of another workspace is shown |
| Bootstrap (`index.ts`) | service instances, `quitting` | recovery, wiring, `before-quit` | all | quit at any moment | recovery precedes the first handler; services close last |
| Preload and contracts, native credential helper, build scripts | — | typed bridge, schema validation, packaging | — | — | out of reach of a model checker or outside the program's own logic |

How the modelled parts interact: the renderer starts a run over IPC (`RendererSession`). `startRun`
enters it into the registries (`RunCoordinator`), writes its rows (`ConversationStore`), and `performRun`
discovers MCP servers (`McpSessions`) and asks a driver for turns (`AgentTurns` on `ResponsesDriver`), with
the key of a provider (`SettingsStore`). A run for a goal first decides which items of the plan it may work on
(`GoalScope`), then plans, checkpoints and finishes the goal with lifecycle tools (`GoalLifecycle`), each a
transaction of the repository against a revision (`GoalStore`); a mutation by the user stops the run first and is
then rebased. A tool call with a side effect goes through the common queue, becomes a ticket, waits for the
policy or the user (`ApprovalBroker`) and, when approved, is carried out: for files by `MutationService`, for
commands, Git and hooks by `HostProcesses`, for MCP tools by `McpSessions`. Undo, another workspace, a change
of trust and the deletion of a conversation suspend all runs first. The composition is checked where two
components share a protocol: `GoalLifecycle` runs `GoalStore`, `AgentTurns` runs `ResponsesDriver`,
`McpSessions` has the agent's queue and the service's, `RendererSession` has the handlers, the stores behind them
and the window. Elsewhere a module takes the other's theorem as the environment it may assume, and says so.

## Modules

Every module names the constants it takes and the assumptions it makes of them.
`PROJECT.json` maps each definition to the source lines it stands for. A
definition introduced as a *mutant* is not part of the model: it is a
plausible bug, kept beside the definition it falsifies, which shows that a property
can fail.

### MutationService

`disk` is the workspace, an image per path (an image stands for the hash and the
mode the code compares). `status` and `entry` are the journals: the suffix of the
file and what it records. `prepared` holds the prepared actions, and `op` is the
operation `serializeOperation` lets run: its kind, its step, the files still to do,
backups. `raced` marks files another program wrote between the service's last
look and its rename.

One action per await. *apply* is `ApplyBegin`, `CheckFile` (every file compared
with its before-image), `WriteJournal`, `Stage`, per file `CommitInspect` - `Swap` -
`Install` - `CommitDone`, `VerifyFile`, `Finalize`, `Cleanup`. *undo* is
`UndoBegin`, the same checks with the images exchanged, `MarkUndo`, and the same
commit. *recovery* is `RecoverBegin`, `SelectPending`, `ClassifyFile`, the commit and
`Finalize`. The catch block is the `Rollback...` family and `Unmark`. Each step has its
`...Fails` twin, `Abort` cancels the run, `ExternalEdit` is another program and
`CrashAndRestart` keeps only the disk and the journals.

### AtomicWorkspace

What a user is promised when nobody else edits the files: `files`, a log of actions, and
two atomic steps, apply and undo of the newest applied action. The mapping in
`MutationService` (`Abstract`) lets a pending action not have happened yet, and a
pending undo not have happened either, whatever mixture of images the disk holds.

### ApprovalBroker

`document` numbers the documents the windows load; `run` holds per run its phase,
abort signal, the document that started it and its `runOwners` entry. A ticket
goes through `free`, `queued` (behind `sideEffectTail`), `evaluating` (policy),
`pending` (in the broker), `approved` (decided, not started), `running`, `ended`.
`left` is `expiresAt - now`.

| Code | Actions |
|---|---|
| `executeToolCall`, `serializeSideEffect` | `Propose`, `Begin`, `End` |
| `awaitApproval`, `evaluateApproval` | `ToolFails`, `DecideCancelled`, `DecideByPolicy` |
| `ApprovalBroker.request` / `resolve` / timer / `cancelRun` | `Request`, `RequestFails`, `Resolve`, `TimerFires`, `SettleCancelled` |
| `approveAndApplyMutation`, the command and MCP paths | `StartEffect`, `DropEffect`, `RefuseEffect`, `EndEffect` |
| `ipc.ts`: `startRun`, `cancelRun`, `emit`, `handleOwnerDestroyed` | `StartRun`, `CancelRun`, `EmitEvent`, `EndRun`, `DestroyWindow` |
| Electron | `Reload`, `CreateWindow` (external) |

Code that runs without returning to the event loop is one step: a promise that
settles and its continuations up to the next real await. So `Settle` includes the
`approval-resolved` event, which may discover that the renderer is gone and
cancel the run.

### RunCoordinator

The variables are the maps of `AgentService` by their names, `phase` (where
`performRun` of each run is), a record per call of `withRunsSuspended` and of
`withGoalMutation`, and the state of the process. The turns of a run are one phase, `body`,
which ends by itself (`LeaveBody`) or after an abort through the cancel hook of
the driver (`LeaveAbortedBody`, `DriverCancelled`). The `finally` block is three more
steps: the maps are left, the last run closes MCP (`McpClosed`), the title is
written and the completion resolves (`Complete`). `Quit`, `CloseServices` and
`GracePeriodEnds` are `before-quit`.

### GoalStore

The tables of one goal: `goal` is its row (status, revision, `usedTokens`), `plans` the plan
revisions, of which only the number of items not yet completed matters, `checkpoints` the
rows of `goal_checkpoints`, `runs` status and cumulative usage of each run, `finishes` the
audit events a run's finish writes. Each public operation is one synchronous
SQLite transaction, hence one action; one that throws rolls back and is no action. `StoreNext` lets anyone
call any of them with any revision ever seen, so that the compare-and-set
(`MatchesRevision`) carries the whole argument. `RecoverInterruptedRuns` is the start-up
recovery with the host checkpoints it writes for runs that left none.

### GoalLifecycle

Extends `GoalStore` with those who really call it. `work` is the run in `activeGoals` and
what `performRun` holds in memory of it; `host` is the process; `mutation` the calls of `mutateGoal`;
`answer` the assistant message of a run; five history variables remember which effects
really happened, what a checkpoint or a proof followed, and which runs were stopped or crashed.

| Code | Actions |
|---|---|
| `PersistentRun.initialize`, usage of a stream | `StartRun`, `ReportUsage` |
| `classifyGoalWorkScope`, acceptance of an outcome proof | `ClassifyScope`, `AcceptProof`; a response that the classifier accepts: `AcceptResponse` |
| what a turn may call (`shouldEnterGoalLifecycle`, `goalLifecycleToolName`) | `CallTool` under `Offered`, `Read` |
| `update_goal_plan`, `checkpoint_goal`, `finish_goal` and their preflights | `UpdateGoalPlan`, `CheckpointGoal`, `RequestFinish`, `RequestBlock`, `RefuseTool` |
| an effect: queue, execution, receipt | `BeginEffect`, `ApplyEffect`, `ReceiveReceipt`, `EffectFails` |
| the end: fallback checkpoint, message, terminal row | `Yield`, `Fail`, `Answer`, `Close`, `Interrupt` |
| `cancelRun`, the run's timer | `CancelRun`, `RunTimesOut` |
| `mutateGoal` of `ipc.ts` with `withGoalMutation` | `BeginMutation`, `MutateGoal` |
| the process | `Crash`, `Restart` |

What the model and the classifiers answer is a choice within what the host lets through. Between `Yield`
or `Fail` and the terminal row `performRun` does not await, so only a crash comes in between.

### McpSessions

`step` is where `performRun` of each run is, `seen` the revision of the configuration it
inspected; `key`, `allowed`, `registered` and `tail` are `mcpConfigurationKey`, `mcpAllowedRuns`, the registry and
`sideEffectTail`; `sessions`, `operations` and `stage` are the service's map, its `operationTail` and the operation at the head;
`session` is one `StdioMcpSession` per spawned process with the stage of its close.

| Code | Actions |
|---|---|
| `performRun` up to the first turn, `refreshMcpTools` | `StartRun`, `Inspect`, `Refresh`, `AbortRun` |
| `McpService.discover`, `close` | `BeginOperation`, `ClearSessions`, `StartServers`, `LoadConfiguration`, `AuthorizeWorkspace`, `FinishDiscovery`, `UndoDiscovery`, `CloseDone` |
| `startServer`, a server and its `performClose` | `AnswerStart`, `StartFails`, `ListChanged`, `BadMessage`, `ProcessExits`, `GraceEnds` |
| `callTool` with its approval | `CallTool`, `LookUpTool`, `Approve`, `Deny`, `AnswerCall`, `CallTimesOut`, `BadResult` |
| the `finally` block of the last run | `Leave` |

### SettingsStore and AtomicSettings

`file` is `settings.json` (with the version of its schema), `cache` the settled `settingsPromise`, `queue` and `draft` the
mutation chain and what its head is writing, `call` the operation of each caller, `build` the installed program, which decides the
format of a ciphertext. A ciphertext is a record of what it was made from. Requests are `AskSaveProvider`,
`AskRemoveProvider`, `AskSaveSettings`, `AskSaveField`, `AskProvider`; a mutation is made from the cache
(`SaveProvider`, ..., `ReplaceCipher`), renamed into place (`Rename`) and then cached (`Publish`), or fails (`Fail`).
`Start`, `Boot`, `Migrate`, `Migrated` and `Stop` are the life of the process. `AtomicSettings` is what callers are promised: one
record that changes by whole operations, and a generation of a provider that names one URL, driver and key.
`Promise` maps a file to its settings with the keys in clear.

### HostProcesses

One operation (`kind`) and its children `procs`: a leader, a helper it may leave in its group, the timeout, the kill timer,
the cancellation, and whether `close` was reported. The life of a child is `Prepare`, `Spawn`, `Fork`, `LeaderEnds`,
`HelperEnds`, `TimeoutFires`, `KillFires`, `Close`, with `Abort` for its signal. A command is
`AskForCommand`, `RunCommand`, `CommandEnds`; a Git inspection `Inspect`, `InspectFurther`, `InspectionEnds`,
`PreparationFails`; a dispatch `Dispatch`, `Discover`, `KeepTrusted`, `NextHook`, `Recheck`, `Retrust`, `StartHook`, `TakeResult`,
`DispatchEnds`. Meanwhile the user leaves the workspace, changes its trust (`Leave`, `TrustWorkspace`), edits
`hooks.json` and reviews a hook (`EditConfig`, `Review`, `SaveReview`).

### RendererSession

Both sides of the bridge. Main: the selected workspace, the trust in memory and on disk, the suspension of runs,
handlers under way (`calls`) and what they sent (`wire`, in order). Renderer: the workspace and trust it shows,
`workspaceLoadGenerationRef`, `workspaceDirectoryRequestRef`, the listings with the workspace they are from, the
list of skills and the state of the run. A handler's part between two awaits is an action (`Bootstrap`, `Suspend`, `ChooseWorkspace`,
`Recovered`, `SetWorkspaceTrust`, `List`, `PassGate`, `LeaveGate`, `StartRun`); so is each continuation in the window
(`ListAnswered`, `ListFailed`, `Bootstrapped`, `Chosen`, `TrustAnswered`, `SkillsAnswered`, `Noticed`, `RunAnswered`,
`FilesChanged`) and each gesture of the user (`Toggle`, `Refresh`, `Retry`, `Choose`, `ChangeTrust`, `SendMessage`).

### ResponsesDriver and AgentTurns

`ResponsesDriver` is one request to the provider: what it asks (`Asked`), what a stream may deliver (`Delta`,
`Answered`, `Refused`, `Broken`, `Stopped`) and what the driver makes of it, with the tool protocol spelt in a text instead of a call.
`AgentTurns` extends it with `runLoop`: `Start` and `Begin` (rows, cached session or history), `Ask`, `Drive`, the ways a turn
ends (`Retry`, `Recover`, `ReportFails`, `RecoveryFails`, `TurnFails`, `ReportDone`, `TextDone`, `CallsDone`), the classifier of
completion (`Verdict`, `AskJson`, `Unjudged`), the calls of a batch (`RejectBatch`, `Execute`, `HostFails`), and `Cancel`, `Timeout`,
`Evict`, `Restart`. `history` are the run rows, `saved` the refreshes the audit events ask for, `cache` the session kept
between runs, `circuit` the breaker of the classifier.

### ConversationStore

`file` is the database file with its schema version, `tables` its rows (`conversations`, `messages`, `runs`, `audit`, `goal` and
its `history`), `backups` the rows of files set aside, `wal` those that only a `-wal` file has whose database was set aside. Opening is `Open`, `Migrate` (one version at a time, `RebuiltGoals` for v4 and
`RebuiltRuns` for v5), `Opened`, or `Quarantine`, `Replace`; then `RecoverInterruptedRuns`. Each public operation is one
transaction and one action; a run is `StartRun`, `FlushText`, `FinishMessage` and `FinishRun`, or
`FinishInterruptedWithHostSummary`; `modelHistory` is the operator `ModelHistory`. `Crash` may come between any two.

### GoalScope

`needed` and `due` are the truth about the items (which of them the objective requires, which effects they take), `plan` and
`revision` the goal's plan, `pass` the answers of the classification under way, `decision` the `goalWorkScopeDecision`, `wrong`
(history) how many passes were untrue. The turns of a classifier are `TurnIsRetried`, `TurnFallsBack`, `AnswerIsInvalid`,
`ClassifierFails`; its four passes `ScopeAnswers`, `CriticAnswers`, `ArbiterAnswers`, `JointAnswers`, and `RecoveryAnswers` for
an alternative plan. `Round` chooses what a round is for, `Cleanup`, `Replan` and `Block` act on the decision, `Work` is the work it exposes.

## Runs

| Run | Checks | Instance | Distinct states |
|---|---|---|---|
| `mutation_atomic` | `RecoveryNeverRefused`, `ImplementsAtomicWorkspace` | 2 files, 2 images, 2 journals, 1 failing call, 2 crashes, nobody edits | 1.8 million |
| `mutation_edits` | `WriteAhead`, `NeverDropsUnseenEdit`, `PendingResolved` | 2 files, 2 images, 1 journal, 1 edit by another program, 1 failing call, 1 crash, fair | 1.5 million |
| `approval` | `OneSideEffect`, `ApprovedByItsRenderer`, `NoEffectAfterCancel`, `EveryTicketEnds` | 2 runs, 3 tickets, 3 documents, time to live 1, fair | 765 thousand |
| `runs` | `SuspendedOperationIsAlone`, `GoalMutationIsAlone`, `NoRunAtClose`, `OperationsProceed` | 3 runs over 2 conversations and 1 goal, limit 2, 2 suspensions, 1 mutation, fair | 340 thousand |
| `goal` | `BoundRevisionStaysCurrent`, `CompletionIsProved`, `EffectsAreRecorded`, `StoreSpec` | 2 runs, 1 user mutation, 2 kinds of effect, 2 calls, a token budget of 1, 3 lifecycle rounds | 5.5 million |
| `goal_scope` | `OneWrongPassExposesNothing`, `NeededItemsStay` | every valid plan of 2 items, 1 kind of effect, 2 runs, 2 attempts per turn, 2 cleanups, 2 recoveries | 2.9 million |
| `mcp` | `NoStrayServer`, `AllowedRunsKeepTheirTools`, `CalledAsApproved`, `AbortedRunsEnd` | 2 runs, 1 server id, 2 processes, 3 revisions of the configuration, 1 edit, fair | 294 thousand |
| `settings` | `ImplementsAtomicSettings` | 2 callers, 2 requests, 2 providers, 2 URLs, 2 keys, 2 generations, 3 builds, 2 older files, 1 stop, fair | 327 thousand |
| `host` | `ForcedGroupIsGone`, `CancellationReachesChildren`, `OnlyTrustedHooksStart`, `OperationsEnd` | 3 kinds of operation, 2 Git commands side by side, 2 hooks with 2 definitions, 2 changes, fair | 848 thousand |
| `session` | `ViewStaysInWorkspace`, `WithdrawnStaysWithdrawn`, `SessionSettles` | 2 workspaces, root and a directory, 2 actions of the user, 1 fault, 1 choice, fair | 764 thousand |
| `turns` | `CacheIsHistory`, `SessionIsAnswered`, `UsageCountedOnce`, `EffectsAreTold`, `ConflictsAreKnown`, `RunsEnd` | 2 runs of 2 rounds and of 1, 2 batches of calls, 2 attempts, 1 verdict, 1 token, fair | 697 thousand |
| `conversations` | `WholeExchanges`, `RowsAgree`, `RecordsAreKept` | 2 conversations, 2 runs, 1 goal, 1 damage, a window of up to 4 messages | 1.9 million |

What the properties say, in one sentence each:

- `RecoveryNeverRefused`: whatever was left behind by crashes and failing calls, also
  during a recovery, every file of a pending journal holds an image recovery accepts.
- `ImplementsAtomicWorkspace`: every step of the service is an atomic apply, an atomic undo or nothing.
- `WriteAhead`: no file changes before the marker of its action is on disk.
- `NeverDropsUnseenEdit`: an image written by another program is neither overwritten
  nor deleted with a backup, unless it was written in the window between inspection and rename.
- `PendingResolved`: recovery succeeds in the end, unless another program edited the files.
- `OneSideEffect`: of all tool calls of all runs, only the head of the queue is past waiting.
- `ApprovedByItsRenderer`: only the document that started the run approves, before
  expiry, even if the timer callback is late.
- `NoEffectAfterCancel`: an approval given earlier starts nothing after the run was cancelled.
- `EveryTicketEnds`: a queued call ends although nobody answers the one in front of it.
- `SuspendedOperationIsAlone`: during an undo, a change of workspace or trust, or a deletion, no
  run exists in any phase (not even one that only closes MCP servers), nor a second such operation.
- `GoalMutationIsAlone`: a goal is written while no run works for it.
- `NoRunAtClose`: the repository is closed under no run, although an operation that
  ends during the shutdown clears the flag the shutdown set.
- `OperationsProceed`: who waits for runs gets its turn.
- `BoundRevisionStaysCurrent`: the revision a lifecycle call was bound to is the goal's when the queue reaches it.
- `CompletionIsProved`: a completed goal was proved by, and checkpointed after, exactly the effects its run had.
- `EffectsAreRecorded`: a run that ended on its own leaves no effect that its last checkpoint does not follow.
- `StoreSpec`, as a property of `GoalLifecycle`: every step of the host is one operation of the repository or none; the
  theorems about the repository (`CompletionHasEvidence`, `RevisionNamesOneState`, `TerminalIsFinal`) therefore hold of the host.
- `OneWrongPassExposesNothing`: if at most one of the classifier's passes was wrong, what a run works on is an item the
  objective requires, with exactly the effects it takes, on the current plan.
- `NeededItemsStay`: over any number of cleanups and recoveries an unfinished item the objective requires leaves the plan
  only if two passes were wrong together.
- `NoStrayServer`: a server process that runs is in the session map, or being started by a discovery that will list or close it.
- `AllowedRunsKeepTheirTools`: while a run may call MCP tools, no refresh, discovery or close of another run changes the registry or takes a
  session from the map; a server leaves it only after a call to it went wrong. Which revision of the configuration the tools are of is not claimed (see the disagreements).
- `CalledAsApproved`: the session that gets the request is the one the approval was asked for, and its tools have not changed since.
- `AbortedRunsEnd`: through a discovery, an approval, an unanswered request or a process that hangs.
- `ImplementsAtomicSettings`: the file changes by whole operations in one order, over failed writes, crashes and other builds; a
  key never changes under a generation that was handed out.
- `ForcedGroupIsGone`: when a child that was ended by force has closed, its group is empty, in whichever order timeout, cancellation, kill timer and exit came.
- `CancellationReachesChildren`: no command and no hook runs on without having been told.
- `OnlyTrustedHooksStart`: a hook starts only with the definition the user trusted and the file has, in a trusted workspace, unless
  one of these changed during its own check.
- `OperationsEnd`: every operation ends with no awaited child.
- `ViewStaysInWorkspace`: no late page or list of one workspace is shown in another.
- `WithdrawnStaysWithdrawn`: a confirmed withdrawal of trust survives failures and restarts.
- `SessionSettles`: when the user stops, every call is answered, no run is shown as active and the root is not loading.
- `CacheIsHistory`: what a cached session tells the model is what the database tells it.
- `SessionIsAnswered`: every request has exactly one output for each call of the session.
- `UsageCountedOnce`: the usage of a run is what was reported for all its requests, repeated and failed ones included.
- `EffectsAreTold`: unless the user cancelled or the process died, later runs are told of a run that ended after an effect.
- `ConflictsAreKnown`: a run knows of every conflict that was not read again, of earlier runs and from before a restart, too.
- `RunsEnd`: the loop ends by itself, without the timeout.
- `WholeExchanges`: `modelHistory` is a sequence of whole exchanges, wherever the window cuts.
- `RowsAgree`: a message is as finished as its run, and only the active run has a running row.
- `RecordsAreKept`: no migration, recovery, crash or quarantine takes away an exchange; only the user's deletion does, and even that leaves the history of a goal. The
  exception is what a `-wal` file alone held that a crash separated from its database (see the disagreements).

**Why the bounds are enough.** *Mutation.* Two files show every mixture of before- and after-images
a multi-file action can leave. Two images and absence give creation, deletion and
replacement, and a second journal gives the order of undo. One crash inside an apply
and one inside the recovery of it are the two depths the code distinguishes (a recovery of a
recovery starts from the same marker). Edits and several journals are separate runs because
their product does not fit and the questions differ; one edit suffices, since each of the
properties is about one image that the service did not write. *Approval.* Three tickets put two of one run
and one of another behind the queue at once. Three documents are the
starting one, a replacement, and a replacement of that one. A time to live of
1 separates "some time left" from "none". *Runs.* Of three runs two share a goal and two a
conversation, and a run that has left the maps may still be closing while two others are
active. Two suspensions show the second refused and the flag cleared during the shutdown. *Goals.* Two runs follow each
other, so that one may meet plans, checkpoints and an unfinished end of the other. One
plan item separates a completed plan from an open one; three lifecycle rounds (the
code's reserve) suffice for plan, checkpoint and finish. Two kinds of effect and
two calls make a contract half fulfilled, and an effect after a proof; a budget of 1 is crossed by the first usage record.
`MaxRevision` (24) is never met. *Scope.* A decision concerns the first pass's item, the critic's item and what is removed, so two
items show every disagreement; two cleanups and two recoveries are the code's limits and one more round is refused. *MCP.* Two
processes are a session and its replacement; revision 2 names the same server twice, which is an error only once the workspace is
authorized, and revision 3 does not parse. *Settings.* A lost or revived key needs two callers, the migration or a stop, and one
request each; two generations reach `MAX_SAFE_INTEGER`, where the code refuses. *Host.* Two children are the most that run side by
side with different fates; of two hooks the second is checked while what was read for it may be stale. *Session.* Two actions are a
request and the one that makes it stale; the answers to both come in any order. *Turns.* A first run of two rounds has an effect and a
failure after it, and a second one is told; two attempts are one retry. *Conversations.* The copy of a running message needs two conversations, and a window of
1 to 4 messages cuts two exchanges everywhere.
`CHECK_DEADLOCK FALSE` is given where the instance is used up (tickets, documents, actions, requests,
runs that were all started, a closed goal, a closed process); `MutationService` and `ConversationStore` are checked for deadlock.

**Fairness.** `MutationService`: the running operation takes its next step, and the
host starts recovery at startup while a journal is pending (`index.ts`). Failures and crashes are
bounded, not fair. `ApprovalBroker`: time passes and the event loop serves every ticket; an
effect ends because commands and MCP calls have time limits and file
operations are bounded. The user never has to answer. `RunCoordinator`: a body that
has not been cancelled may go on for ever; a cancelled one leaves, since its awaits
take the abort signal; the cancel hook, `mcp.close()` and the title request
(with a timeout of its own) settle. An operation that suspended the runs need not end.
`McpSessions`: every request and every start of a server has a time limit, a close ends after its grace periods with SIGKILL, an
approval lapses (`ApprovalBroker.EveryTicketEnds`), a leaving run leaves; an aborted run whose loop comes back to where it can leave
again and again does leave (strong fairness of that step alone: the loop looks at the signal at its top). No server has to answer.
`SettingsStore`: file operations and encryptions settle (the broker is killed after its limit). `HostProcesses`: timers fire and the host
goes on; a leader that was not killed may run up to its timeout; a helper that outlived its leader ends by itself (`HelperFairness`),
which the code cannot enforce and the run's one liveness property needs. `RendererSession`: handlers
go on, the dialog for a directory is answered, messages are delivered in order and a run ends. `AgentTurns`: the provider
answers, fails or ends its stream (its requests have time limits), and the host goes on. There is no fairness on `Timeout`, so `RunsEnd` holds by the
limits of the loop alone. The runs `goal`, `goal_scope` and `conversations` check safety only and state none.

## Proofs

Each theorem has the form `Spec => []I`, `Spec => [][A]_vars` or `Spec => AbstractSpec`, for any value of the constants
that satisfies the named assumptions: any number of runs, files, tickets, messages, failures and crashes. A module
holds the theorems of the components named with it, which it extends: that is why `HostProcesses`, `GoalScope`, `GoalStore` and `SettingsStore`
name their specifications `HostSpec`, `ScopeSpec`, `StoreSpec` and `SettingsSpec`. Only `AtomicWorkspace` is reached through an `INSTANCE` (`Abstract!`), whose assumption is a hypothesis of the theorem that needs it.

| Module | Theorem | Says |
|---|---|---|
| `MutationServiceProofs` | `TypeCorrect` | `[]TypeOK` |
| (`MutationService`, `AtomicWorkspace`) | `OnePendingJournal` | `[]PendingIsLatest` |
| | `WriteAheadRule` | `WriteAhead` |
| | `RecoveryIsNeverRefused` | `[]RecoveryNeverRefused` |
| | `NoUnseenEditIsDropped` | `NeverDropsUnseenEdit` |
| | `ServiceImplementsAtomicWorkspace` | `ImplementsAtomicWorkspace`, for `MaxEdits = 0` |
| | `UndoNeverRefused` | `Abstract!Spec => []Abstract!AlwaysUndoable` |
| | `NewestIsUndoable` | `[]Abstract!AlwaysUndoable` of the service, for `MaxEdits = 0` |
| `ApprovalBrokerProofs` | `TicketsOfLiveRuns` | `[]NoTicketOutlivesItsRun` |
| (`ApprovalBroker`, `SettingsStore`) | `ApprovalIsTheRenderers` | `ApprovedByItsRenderer` |
| | `SideEffectsExclude` | `[]OneSideEffect` |
| | `CancelledRunsStartNoEffect` | `NoEffectAfterCancel` |
| | `StoreImplementsAtomicSettings` | `SettingsSpec => ImplementsAtomicSettings` |
| | `GenerationNamesOneKey` | `SettingsSpec => [][RowsMoveWithGeneration]_settingsVars` (proved only) |
| `RunCoordinatorProofs` | `RegistriesAlwaysAgree` | `[]RegistriesAgree` |
| (`RunCoordinator`, `GoalScope`) | `SuspensionExcludesRuns` | `[]SuspendedOperationIsAlone` |
| | `MutationExcludesRuns` | `GoalMutationIsAlone` |
| | `CloseExcludesRuns` | `NoRunAtClose` |
| | `WorkIsAuthorized` | `ScopeSpec => []OneWrongPassExposesNothing` |
| | `NeededItemsAreKept` | `ScopeSpec => NeededItemsStay` |
| `GoalLifecycleProofs` | `StoreTypeCorrect` | `StoreSpec => []StoreTypeOK` |
| (`GoalStore`, `GoalLifecycle`) | `CompletionEvidence` | `StoreSpec => []CompletionHasEvidence` |
| | `RevisionsName` | `StoreSpec => RevisionNamesOneState` |
| | `TerminalStays` | `StoreSpec => TerminalIsFinal` |
| | `LifecycleImplementsStore` | `StoreSpec` |
| | `NoRunLeftBehind` | `[]OnlyTheActiveRunIsRunning` |
| | `BoundRevisionIsCurrent` | `[]BoundRevisionStaysCurrent` |
| | `CompletionRestsOnProof` | `[]CompletionIsProved` |
| | `EffectsAreOnRecord` | `[]EffectsAreRecorded` |
| `AgentTurnsProofs` | `KeptSessionIsHistory` | `[]CacheIsHistory` |
| | `EveryCallIsAnswered` | `[]SessionIsAnswered` |
| | `UsageIsExact` | `[]UsageCountedOnce` |
| | `EffectsAreNotForgotten` | `[]EffectsAreTold` |
| | `ConflictsSurvive` | `[]ConflictsAreKnown` |
| `McpSessionsProofs` | `ToolsOfARunStay` | `AllowedRunsKeepTheirTools` |
| | `NoServerIsLost` | `[]NoStrayServer` |
| | `CallsGoAsApproved` | `CalledAsApproved` |
| `ConversationStoreProofs` | `MessagesFollowRuns` | `[]RowsAgree` |
| | `HistoryIsWhole` | `[]WholeExchanges` |
| | `NothingIsForgotten` | `RecordsAreKept` |
| `DesktopProofs` | `ViewIsOfTheWorkspace` | `[]ViewStaysInWorkspace` |
| (`RendererSession`, `HostProcesses`) | `WithdrawalsLast` | `[]WithdrawnStaysWithdrawn` |
| | `NoForcedGroupIsLeft` | `HostSpec => []ForcedGroupIsGone` |
| | `ChildrenAreCancelled` | `HostSpec => []CancellationReachesChildren` |
| | `HooksStartTrusted` | `HostSpec => OnlyTrustedHooksStart` |

Along which argument:

- *MutationService.* `PendingIsLatest` needs to know which journal the running operation
  works on and in which status it is at each step; `IInv` ties `op.jid` and `op.pc` to
  `status`. The write-ahead rule is then read off step by step: a step that changes `disk` is one at which
  `IInv` puts the journal in a pending status. `TraceInv` adds where the images come from (`ImagesInv`: what the operation starts from and leads to
  is what its journal records) and what it still knows (`SeenInv`: the image it saw last is there unless another program wrote the file since, and a backup
  holds what the file had): `NoUnseenEditIsDropped`. While nobody else edits, `QuietInv` says that every file of a pending journal has one of its two images or is
  missing, and that whatever an apply or undo did up to now can be taken back (`ReversibleInv`); a rollback that failed half way leaves only the former, which is
  what recovery needs. `RecoveryIsNeverRefused` does not assume that nobody edits: the property itself speaks of files nobody touched.
- *AtomicWorkspace.* The refinement shows the files as they would be without the pending action (`LogicalImage`). Only the step that
  renames the journal to its final state, or finds every file of it back in place, changes what is shown; `AllInv` says that at that point all files of the action have
  their new images, or all their old ones. `Abstract!AlwaysUndoable` is not inductive. `Chain` says more than that the newest action can be undone: along
  the log, each applied action's after-image agrees with the next one's before-image for the
  files they share. Undoing the newest then re-establishes the statement for the one before it, and with the refinement the same holds of the service (`NewestIsUndoable`).
- *ApprovalBroker.* The inductive invariant joins the types, `OwnerInv` (a `runOwners` entry
  names the document that started the run or nothing), `CallInv` (a tool call under way belongs to a live run, which has
  no other), `NoTicketOutlivesItsRun` and `DecisionInv` (a call that may start its effect was approved). Without `OwnerInv` an answer by the owner would say nothing of who started the run; without
  `CallInv`, `EndRun` could leave a ticket behind. `SideEffectsExclude` is inductive once the queue has its type (`QueueInv`): a call past waiting is its head, so that the end of a call removes the head and nothing else.
- *SettingsStore.* The refinement shows the file as a start would load it, with the keys in clear, so that all of an operation happens at the rename. `SettingsInv`
  says what makes it one operation of the contract: what a mutation is about to write follows from the cache by such an operation (`Follows`), and between
  mutations the cache is what the file says (`DraftInv`); only the request that drew an id creates its provider, so that a first generation never replaces a later one
  (`DrawnInv`); and a ciphertext that waits to replace another is of the same key (`RequestInv`). A migration and a replacement then show nothing (`Resealed`).
  `GenerationNamesOneKey` is a consequence of the contract alone: each of its operations leaves a row or moves its generation.
- *RunCoordinator.* `RegistriesAgree` is inductive together with the types. The other three need to say what the callers
  wait for: `SuspensionInv` (while a call waits, every incomplete run is among those it awaits, since the flag admits no
  other), `MutationInv` (the run of the locked goal, if there is one, is awaited) and `QuitInv` (after
  `dispose` every incomplete run is awaited). `QuitInv` relies on the IPC handlers being gone, not on `runsSuspended`.
- *GoalStore.* `RevisionNamesOneState` holds of the first step only if a goal that does not exist has revision 0
  (`AbsentIsNew`), and of recovery only since it appends exactly as many rows as it adds to the revision (`RecoveredRows`, which
  needs the runs to be finitely many). `CompletionHasEvidence` needs that no checkpoint is ahead of the goal
  (`CheckpointsAreBehind`): the checkpoint a finish finds was written before it. Evidence stays because a closed goal and an ended run do
  (`ClosedGoalKept`, `EndedRunKept`).
- *GoalLifecycle.* The refinement needs what the repository does not check: the run that writes is one of `Runs`, its
  outcome is a terminal status, its pending finish is well formed, and an existing goal has a revision of at least 1 (`LInv`). The
  theorems of `GoalStore` then hold of the host. `BoundRevisionIsCurrent` rests on `QueueInv`: a call waits only in a
  living process, where a mutation waits for the run and recovery cannot happen. `CompletionRestsOnProof` and `EffectsAreOnRecord` share `EvidenceInv`. Its
  first half (`CountInv`) follows the active run: the effects it counted are those it applied, except between an effect and its receipt; its checkpoint and
  its proof carry the count of their time; and a requested end comes after the last effect (`FinishIsLast`). A round that may still block the goal has had none
  (`UndecidedIsIdle`). The second half (`HistoryInv`) is about ended runs, and about the crashed ones whose rows recovery is still to end.
- *GoalScope.* `OneWrongPassExposesNothing` needs `wrong` to count in full what the passes of the current decision got wrong. `PassInv` says so: `Mistakes` of the
  answers given so far is at most `wrong`, each pass voted on what it was asked about (`Covered`), and a decision on the current plan is the one those answers
  give. The theorem is then a case split: an item that the objective does not need takes two wrong votes to be selected, and effects other than its own take a wrong
  critic and another wrong pass, since a critic who departs from the first proposal calls the joint pass. `NeededItemsAreKept` needs, in addition, that a cleanup acts on a decision about the
  plan it removes from, except when nothing unfinished is left, and that an alternative plan is adopted only then (`RoundInv`).
- *AgentTurns.* Four conjuncts that do not follow from each other: of all runs only the last is running, and an effect of an ended run is told or was given up
  (`HistoryInv`); the session of the run is the history and its own message, and every cached one is the history (`SessionInv`); what an answer costs is not yet counted while the answer is under way,
  and counted as soon as it is over (`UsageInv`); and while a batch is executed its calls are the only ones without an output, with ids no earlier round had (`CallsInv`).
- *McpSessions.* `AllowedRunsKeepTheirTools` needs that a discovery is under way only for the run at the head of the
  side-effect queue (`TurnInv`), that this run is alone or there is no key when it decides to discover, that it takes the key away (`RefreshInv`), and that
  who is allowed has the key (`AllowedInv`). What changes the map is in the service's own queue, where a close may still wait when a new run starts; `QueueInv` says that a
  discovery has nothing behind it, and that while there is a key nothing is queued at all. So no operation runs while somebody is allowed. `NoServerIsLost` needs that the map is empty while a discovery or
  a close is under way, that the discovery has one server each under start (`OperationInv`), and that nobody replaces the session of a call behind its back (`CallSessionInv`). A step that
  spawns nothing is shown to keep all this by what it leaves alone (`Quiet`). `CalledAsApproved` then follows from `IInv`: only the approval sends a request.
- *ConversationStore.* `RowsAgree` follows from two invariants. `Rows`: a message that names a run belongs to that run's conversation, so
  that a deletion takes both by cascade, and is as finished as it. `ActiveInv`: ids are given once, and the active run's
  row is running; after a crash nothing is active and recovery ends every row before the first handler. Each transaction is a lemma on `Rows`, each action a step.
  `HistoryIsWhole` is about what a query returns: `ExchangeInv` says that ordinals are unique and that the question of a run and its answer have neighbouring
  ones, with nothing between; the order of the query is a rank (`ListedByOrdinal`), so neighbours in the table are neighbours in the list, and the first unpaired
  message of a window leads to a contradiction (the least counterexample, by the well-foundedness of the natural numbers, in place of induction). `NothingIsForgotten` adds that
  the history of a goal is a table of its own that nothing deletes from.
- *RendererSession.* `ViewStaysInWorkspace` is not inductive: between the change of workspace in the main process and its answer the window lists the old one. `Pending` says that such an
  answer is under way (a handler that will send it, or a message on the wire); while it is not, everything listed, and every answer whose counter is still
  current, is of the selected workspace (`ViewInv`). An answer with an old counter stays old, since counters only grow (`GenInv`); lists of skills have no counter and rely on the order
  of the wire (`SkillsInv`). For trust, `TrustInv`: a decision that was withdrawn is neither in memory nor in the file, and while one operation that changes trust is in
  its middle no other is, because it holds the runs.
- *HostProcesses.* Every record of a child is `Sound`: told to end, it has its kill timer, and closed after that it has no helper left. For hooks, `HookInv` repeats
  at each check what the earlier one saw, unless the hook was touched in between; which hook is at hand is a choice of the least number, and exists because there is one (`CurrentIsRead`).

## Disagreements between code and documentation

What the code does and a document, a comment or a test says otherwise, met while modelling. The models follow the code. Where a
property is stated with an exception, the exception is one of these.

- **Scope decisions outlive their plan.** `goalScopeCleanupDue` (`agent.ts:5450`) stays true when a cleanup has removed the last unfinished
  item, because a decision is only replaced, never reset; the next round projects the old indices onto the new plan
  (`agent.ts:3881`) and removes a completed item, and a third round fails the run (`agent.ts:5483`). `agent.ts:6011` says to preserve
  every item not individually confirmed. `GoalScope` reproduces it; `NeededItemsStay` therefore speaks of unfinished items.
- **A helper escapes the timeout.** `signalProcessTree` returns when the leader has an exit code (`execution.ts:283`). A helper that holds the pipes keeps
  the operation open, and neither timeout nor cancellation ends it; `tests/execution.test.ts:114` expects a timeout to end the tree. Hence `HelperFairness`.
- **Git does not hear a late cancellation.** `runGit` looks at the signal before its awaits and listens after them; an abort in between reaches no child.
  `docs/architecture.md:96` says that cancelling ends the processes. `CancellationReachesChildren` leaves Git out. Also, when one of several
  commands side by side fails to start, the others outlive the call.
- **A denial without words passes.** `interpretResult` (`hooks.ts`) turns a denial whose reason is an empty string into "continue".
- **An armed kill timer is lost.** The second of timeout and abort replaces the kill timer of the first (`execution.ts:457`), which is not cleared when the child closes.
- **Trust written but reported as failed.** A `chmod` that fails after the rename (`trust.ts:262`) reports a failure while the file has the new decision and the cache the old one.
- **A directory that loads for ever.** Expand a directory, collapse it, refresh, expand it again before the first answer: the late answer is dropped and the directory stays
  "loading" (`App.tsx`); so does a directory in flight when the refresh of the root fails. `docs/architecture.md:53` says that late answers are dropped and
  expanded paths are read again. `SessionSettles` speaks of the root only.
- **Torn bootstrap.** The handler reads the workspace, then the trust of whatever is selected by then, then awaits the recovery notice. `openFile`,
  `openConversation` and `chooseWorkspace` in the window have no request counter, and `startRun` names no workspace it expects.
- **A reloaded window.** `docs/architecture.md:96` says that losing the renderer cancels pending approvals. The code listens to `destroyed` only
  (`ipc.ts:721`); a reload is noticed at the next event of the run, and a run waiting for an approval emits none. The ticket expires instead.
- **An effect without a receipt.** `docs/architecture.md:72` says that the host leaves a fallback checkpoint at a cancellation and at the time limit, too,
  when none is fresh. An abort that comes between an effect and its receipt skips the bookkeeping (`executeToolCall` throws,
  `agent.ts:9083`), so an older checkpoint of the run counts as fresh. `EffectsAreRecorded` leaves stopped runs out.
- **Answer and outcome.** `docs/architecture.md:71` says that the final message, the terminal row of the run and the completion of the goal
  are one transaction. `PersistentRun.finish` (`agent.ts:4381`) writes the message first and the rest in a second transaction; a crash
  between the two leaves a final answer on a run that recovery marks interrupted. Only the interrupted end (`finishInterruptedWithHostSummary`) is one.
- **Recovery restores a deleted file.** `docs/security-and-trust.md:82` says that recovery stops at a file that is in neither recorded
  state. For a replacement the code also accepts a missing file (`missingDuringReplacement`, `mutation.ts:1091`), which it needs since it may itself
  have crashed between the two renames. A file deleted by another program is restored.
- **A cancelled run is not told.** A run the user cancels after an applied effect ends without the host's summary, so the next run does not learn of it. `EffectsAreTold` leaves it out.
- **A fork forgets.** `fork` copies messages without their run and no audit events: interrupted messages with a host summary, and the refreshes
  that are due, are missing from the copy's history.
- **A WAL left behind.** `openDatabaseWithRecovery` renames a damaged database and then its `-wal` file (`conversations.ts:1805`, `:1811`). After a crash, or a failed
  rename, in between, the next start finds no database: it creates a fresh one, the recovery notice is never shown, and SQLite removes a `-wal` file that it finds
  beside an empty database. Rows that had not been checked in are lost, although the code means to set them aside. `Quarantine` leaves the rows in either file;
  `RecordsAreKept` excepts this step by name (`Separated`), and holds of what the database file has and of every other step.
- **Tools of another revision.** A run inspects the configuration (`agent.ts:9267`) and, when it discovers, stores the key of what it inspected (`agent.ts:9368`). But
  `discover` reads the files again (`mcp.ts:1010`), and the revision it returns is only written to the audit log (`agent.ts:9363`). After an edit in between, the run
  has the tools of the newer revision under the key of the older, and so has a later run that inspects the older one again. `docs/extensions.md:109` says that a run
  is offered only tools of the same config revision. `LoadConfiguration` and `FinishDiscovery` reproduce it: one edit after `Inspect` is enough to reach a state where
  `key` is 1 and every tool in `registered` is of revision 2. Servers of the workspace are still started only with the approval of the revision that was read.

## Limits

Only model-checked: the seven liveness properties (`PendingResolved`, `EveryTicketEnds`, `OperationsProceed`, `AbortedRunsEnd`, `OperationsEnd`,
`SessionSettles`, `RunsEnd`: the prover does not handle fairness and `ENABLED`). The refinement
`ImplementsAtomicWorkspace` and `NewestIsUndoable` are proved for a workspace that nobody else edits; with edits the service promises no more than `NoUnseenEditIsDropped`.
Two operators are written by rank rather than with the library's sorting (`ConversationStore.ByOrdinal`, `GoalScope.Kept`), and the hooks that a dispatch
has still to run are a set of which the least comes first (`HostProcesses.todo`), because the provers know nothing of a recursive sort; TLC checks the same runs on them.

Left out on purpose:

- `MutationService`: matching of patch hunks, diff texts, path normalisation and symbolic links, temporary
  files, and a workspace that changes between prepare and apply (excluded by `SuspendedOperationIsAlone`). Files of one
  action are visited in any order, where the code goes by path.
- `ApprovalBroker`: jumps of the wall clock, the contents of a proposal, and audit records that cannot be written,
  except the one of the announcement, which settles the ticket (`RequestFails`).
- `RunCoordinator`: the turns of a run and the sessions of MCP, which have modules of their own.
- `GoalStore`: permission grants, subagent rows, search and retention; SQLite failures; the `usedTokens`
  argument of `updateGoal`, which no caller in `src/main` passes.
- `GoalLifecycle`: what the model writes and the classifiers decide (choices), kinds of effect that are not available, an unavailable
  classifier, plans without items, a budget edited while a run works, deletion of the conversation, subagents. A crashed run that had an older
  checkpoint gets no recovery checkpoint, as in the code and as the documentation says of recovery.
- `GoalScope`: a plan exists (without one there is no scope contract); an answer that is uncertain is not wrong; the purposes of
  the items of an alternative plan. The check that the goal did not move during a classification always passes, since only the run writes the plan meanwhile
  (`BoundRevisionStaysCurrent`).
- `McpSessions`: framing and schemas (one malformed message, one bad result); the workspace and its trust, which are part of a key, do not
  change while a run is active (`SuspendedOperationIsAlone`).
- `SettingsStore`: two encryptions of one key compare equal; the migration of one provider is atomic; `reload()`, which nothing calls; a file from a newer version.
- `HostProcesses`: Windows; helpers that leave the group; reuse of process ids; the text of the output; hooks of several events at once.
- `RendererSession`: one directory beside the root; a call begins when it is issued; the bootstrap does not fail; a damaged trust file; the
  message list. The list of skills stands for the other gated lists (commands, the status of undo).
- `ResponsesDriver`: the parsing of events; limits of a stream are failures; the retry without reasoning items.
- `AgentTurns`: runs with a goal (`GoalLifecycle`); one kind of effect on one file; the call budget is part of the rounds; truncation of the history
  (`ConversationStore.ModelHistory` has it); invalid arguments repeated too often end the run like other host failures; a database that fails at the end of a run.
- `ConversationStore`: a text is the run that wrote it; one binding to a workspace and provider; one goal, whose history is a row per
  run (its contents are `GoalStore`'s); a `-wal` file holds all rows or none; the fork of a prefix; the limit in characters is part of the limit in messages.

Not modelled at all, with the reason, are the components `PROJECT.json` lists as `not_modelled`: the approval policy and the message catalogues are
functions without state, and the subagent service is not constructed by the program.

## Plan

Done: the modules, runs and theorems above. Modules still worth writing when the program uses them: subagents under the registries of
`RunCoordinator`, and the approval policy and patch hunks as operators against a reference definition.
