------------------------------ MODULE AgentTurns ------------------------------
(***************************************************************************)
(* The loop of performRun (services/agent.ts) for the runs of one          *)
(* conversation: it asks the driver for a turn, retries it, has the text   *)
(* judged against what the user expects, executes the calls, and ends the  *)
(* run in the database; and what one run leaves to the next one: the       *)
(* messages modelHistory returns, the cached session, the files that must  *)
(* be read again, the open circuit of the classifier.                      *)
(*                                                                         *)
(* The runs act (intent "act"), without a goal; one file, one kind of      *)
(* effect.  A message is the pair of its kind and its run, so that a       *)
(* session is the set of its messages and of its calls and their outputs.  *)
(***************************************************************************)
EXTENDS ResponsesDriver

CONSTANTS MaxRounds,   \* maxToolIterations of the settings, at the start of each run
          MaxAttempts, \* providerRetry.maxAttempts
          MaxEvals,    \* MAX_COMPLETION_POLICY_EVALUATIONS
          MaxRuns      \* bound: runs of the conversation

ASSUME TurnsAssumption ==
    /\ {MaxAttempts, MaxEvals, MaxRuns} \subseteq Nat \ {0}
    /\ MaxRounds \in [1 .. MaxRuns -> Nat \ {0}]

VARIABLES
    at,       \* where performRun is: off, ready (the top of runLoop), asking, calling
    run,      \* its local variables
    aborted,  \* the signal of its controller, and who aborted it
    history,  \* the run rows: status, and whether an effect was counted
    saved,    \* pendingMutationRefreshes of the database: must the file be read?
    cache,    \* AgentService.conversations: no session, or one
    circuit   \* completionPolicyUnavailableIdentities holds the provider

vars == <<driverVars, at, run, aborted, history, saved, cache, circuit>>

\* compactSession keeps the messages of a session; its calls and outputs go.
Compacted(session) == session.said

Session(said) == [said |-> said, calls |-> {}, outputs |-> {}]
NoRun == [purpose |-> "work", session |-> Session({}), contract |-> "unknown", bypass |-> FALSE,
          evals |-> 0, rounds |-> 0, attempt |-> 0, failed |-> FALSE, refused |-> {},
          refresh |-> FALSE, total |-> 0, before |-> 0, draft |-> FALSE,
          batch |-> <<>>, outs |-> <<>>]

Init ==
    /\ turn = NoTurn /\ billed = 0
    /\ at = "off" /\ run = NoRun /\ aborted = "none" /\ history = <<>>
    /\ saved = FALSE /\ cache = {} /\ circuit = FALSE

n == Len(history)
Applied == history[n].effects

\* modelHistory: completed runs, and those the host ended with a summary of their effects.
Told(i) == history[i].status \in {"completed", "summarised"}
ModelHistory == {<<kind, i>> : kind \in {"user", "text"}, i \in {j \in DOMAIN history : Told(j)}}

\* actionStillRequired, under a contract c.
MissingUnder(c) == c = "action" /\ ~Applied /\ ~run.failed
Missing == MissingUnder(run.contract)
BudgetOut == run.rounds >= MaxRounds[n]
-----------------------------------------------------------------------------
(* How a run ends.  A run that was interrupted after an effect tells of it *)
(* in a summary of the host, unless the user cancelled it.                 *)
End(status, kept) ==
    /\ history' = [history EXCEPT ![n].status = status] /\ cache' = kept
    /\ at' = "off" /\ run' = NoRun /\ turn' = NoTurn /\ aborted' = "none"

Summarised == End("summarised", {})
FailPlainly == End(IF aborted = "user" THEN "cancelled" ELSE "error", cache)
Fail ==
    IF aborted # "user" /\ Applied THEN Summarised
    ELSE FailPlainly

\* Mutant: the session of a report is kept like that of an answer.
CommitReport == End("completed", {Compacted(run.session)})

\* A report is not a part of the conversation: the next session is built from the history.
Reported == End("completed", {})

\* The accepted answer; commitConversation keeps the messages of its session.
Accept(draft) ==
    IF Missing \/ ~draft THEN Fail
    ELSE End("completed", {Compacted(run.session) \cup {<<"text", n>>}})

\* What belongs to one turn is gone with it.
Forget(r) == [r EXCEPT !.purpose = "work", !.attempt = 0, !.before = 0, !.draft = FALSE]
Continue(r) ==
    /\ at' = "ready" /\ run' = Forget(r) /\ turn' = NoTurn
    /\ UNCHANGED <<history, cache, aborted>>
\* The usage reported at the end of a request is added to that before it.
Total(cost) == [run EXCEPT !.total = run.before + cost]

\* Mutant: a repeated request is counted from where the first one was.
BeforeFirst(r) == [r EXCEPT !.before = IF r.attempt > 1 THEN @ ELSE r.total]

\* usageBeforeTurn is taken anew for every request.
Before(r) == [r EXCEPT !.before = r.total]
Request(r, t) ==
    /\ at' = "asking" /\ turn' = t /\ run' = Before(r)
    /\ UNCHANGED <<history, cache, aborted>>
-----------------------------------------------------------------------------
(* Mutant: the conflicts of earlier runs are not looked up.                *)
ForgetConflicts(said) ==
    [NoRun EXCEPT !.session = Session(said \cup {<<"user", n + 1>>}), !.bypass = circuit]

(* A request starts a run: the rows are written, the cached session is     *)
(* taken, or one is built from the history.                                *)
\* pendingMutationRefreshes of the audit events
PendingRefreshes == saved
Begin(said) ==
    [NoRun EXCEPT !.session = Session(said \cup {<<"user", n + 1>>}),
                  !.bypass = circuit, !.refresh = PendingRefreshes]

Start ==
    /\ at = "off" /\ n < MaxRuns
    /\ history' = Append(history, [status |-> "running", effects |-> FALSE])
    /\ \E said \in IF cache # {} THEN cache ELSE {ModelHistory} : run' = Begin(said)
    /\ at' = "ready" /\ billed' = 0
    /\ UNCHANGED <<turn, aborted, saved, cache, circuit>>

Outputs(ok) == {c.tool : c \in {d \in run.session.calls :
                                  \E o \in run.session.outputs : o.id = d.id /\ o.ok \in ok}}

\* The request without tools from which the final report is selected.
ReportRequest == Asked(FALSE, TRUE, "none", {}, {})

(* The top of the loop: a report when the rounds are used up after an      *)
(* effect, otherwise work with the calls the contract still asks for.      *)
Ask ==
    /\ at = "ready" /\ UNCHANGED <<billed, saved, circuit>>
    /\ IF aborted # "none" THEN Fail
       ELSE LET report == ~Missing /\ BudgetOut /\ Applied
                choice == IF BudgetOut THEN "none" ELSE IF Missing THEN "required" ELSE "auto"
            IN  Request([run EXCEPT !.attempt = 1, !.purpose = IF report THEN "report" ELSE "work"],
                        IF report THEN ReportRequest
                        ELSE Asked(TRUE, TRUE, choice, Outputs(BOOLEAN), Outputs({TRUE})))

\* The driver works; the usage it reports at the end is added to that before the request.
Drive ==
    /\ at = "asking"
    /\ Delta \/ Answered \/ Refused \/ Broken \/ (aborted # "none" /\ Stopped)
    /\ run' = IF turn'.step \in {"ok", "failed"} THEN Total(turn'.cost)
              ELSE run
    /\ UNCHANGED <<at, aborted, history, saved, cache, circuit>>

Ended(step, purposes) == at = "asking" /\ turn.step = step /\ run.purpose \in purposes
-----------------------------------------------------------------------------
(* A turn that failed.  Text is shown only when a turn is complete, for    *)
(* every run is offered tools: a repetition never shows a text twice.      *)
CanRetry ==
    /\ turn.retryable /\ aborted = "none" /\ run.attempt < MaxAttempts
    /\ run.purpose # "recovery"

Repeated == [NoTurn EXCEPT !.step = "stream", !.tools = turn.tools, !.guard = turn.guard,
                           !.choice = turn.choice, !.done = turn.done, !.good = turn.good]

Retry ==
    /\ Ended("failed", {"work", "report", "judge", "json"}) /\ CanRetry
    /\ Request([run EXCEPT !.attempt = @ + 1], Repeated)
    /\ UNCHANGED <<billed, saved, circuit>>

Recoverable == Applied /\ ~Missing /\ aborted = "none"

\* After an effect one request without tools is made, unless the failure is one of the request.
Recover ==
    /\ Ended("failed", {"work"}) /\ ~CanRetry /\ Recoverable
    /\ Request([run EXCEPT !.purpose = "recovery"], ReportRequest)
    /\ UNCHANGED <<billed, saved, circuit>>

\* The selection of a report failed: the host renders what it observed.
ReportFails ==
    /\ Ended("failed", {"report"}) /\ ~CanRetry /\ aborted = "none" /\ Reported
    /\ UNCHANGED <<billed, saved, circuit>>

RecoveryFails ==
    /\ Ended("failed", {"recovery"}) \/ (Ended("ok", {"recovery"}) /\ ~turn.text)
    /\ IF aborted = "none" THEN Summarised ELSE Fail
    /\ UNCHANGED <<billed, saved, circuit>>

TurnFails ==
    /\ \/ Ended("failed", {"work", "report", "judge", "json"}) /\ ~CanRetry
       \/ Ended("ok", {"json"})
    /\ aborted # "none" \/ (run.purpose = "work" /\ ~(turn.retryable /\ Recoverable))
    /\ Fail /\ UNCHANGED <<billed, saved, circuit>>

ReportDone ==
    /\ Ended("ok", {"report"}) \/ (Ended("ok", {"recovery"}) /\ turn.text)
    /\ IF aborted = "none" THEN Reported ELSE Fail
    /\ UNCHANGED <<billed, saved, circuit>>
-----------------------------------------------------------------------------
\* Is the text of a turn without calls judged by the classifier?
Judged(text) == ~run.bypass /\ ~(run.contract = "action" /\ Applied /\ text)

\* Mutant: a verdict does not use up the evaluations of the run.
JudgeFreely(text) == [run EXCEPT !.purpose = "judge", !.attempt = 1, !.draft = text]

\* The tools of the request: the completion contract, which must be called.
JudgeRequest == Asked(TRUE, TRUE, "required", {}, {})
Judge(text) == [run EXCEPT !.purpose = "judge", !.attempt = 1, !.draft = text, !.evals = @ + 1]

\* Text without calls: judged, while evaluations are left, or accepted.
TextDone ==
    /\ Ended("ok", {"work"}) /\ turn.calls = <<>>
    /\ IF aborted # "none" \/ (Judged(turn.text) /\ run.evals >= MaxEvals) THEN Fail
       ELSE IF ~Judged(turn.text) THEN Accept(turn.text)
       ELSE Request(Judge(turn.text), JudgeRequest)
    /\ UNCHANGED <<billed, saved, circuit>>

Merged(requirement) == IF run.contract = "action" THEN "action" ELSE requirement

(* The verdict: one call of the contract tool, or JSON.  The contract only *)
(* grows; a draft that is rejected, or whose action is missing, is         *)
(* discarded.                                                              *)
Verdict ==
    /\ \/ Ended("ok", {"judge"}) /\ Len(turn.calls) = 1
       \/ Ended("ok", {"json"}) /\ turn.text
    /\ \E requirement \in {"response", "action"}, retry \in BOOLEAN :
          LET contract == Merged(requirement)
          IN  IF ~retry /\ ~MissingUnder(contract) THEN Accept(run.draft)
              ELSE IF MissingUnder(contract) /\ BudgetOut THEN Fail
              ELSE Continue([run EXCEPT !.contract = contract])
    /\ UNCHANGED <<billed, saved, circuit>>

\* The call is missing or invalid: the verdict is asked for as JSON.
AskJson ==
    /\ Ended("ok", {"judge"}) \/ (Ended("failed", {"judge"}) /\ aborted = "none")
    /\ Request([run EXCEPT !.purpose = "json", !.attempt = 1], Asked(FALSE, FALSE, "none", {}, {}))
    /\ UNCHANGED <<billed, saved, circuit>>

(* No verdict.  A failure that will happen again opens the circuit; a run  *)
(* without an effect has one more request for an action or an answer, any  *)
(* other one keeps its text.                                               *)
Unjudged ==
    /\ aborted = "none"
    /\ (Ended("failed", {"judge", "json"}) /\ ~CanRetry) \/ Ended("ok", {"json"})
    /\ circuit' = (circuit \/ turn.step = "ok" \/ ~turn.retryable)
    /\ IF ~BudgetOut /\ ~Applied /\ run.contract # "response"
       THEN Continue([run EXCEPT !.bypass = TRUE])
       ELSE Accept(run.draft)
    /\ UNCHANGED <<billed, saved>>
-----------------------------------------------------------------------------
Ids(calls) == {[id |-> <<run.rounds + 1, i>>, tool |-> calls[i]] : i \in DOMAIN calls}

\* Calls: the session of the turn, in which they are not answered yet, becomes that of the run.
CallsDone ==
    /\ Ended("ok", {"work"}) /\ turn.calls # <<>>
    /\ IF aborted # "none" THEN Fail
       ELSE /\ run' = [Forget(run) EXCEPT !.session.calls = @ \cup Ids(turn.calls),
                                          !.rounds = @ + 1, !.batch = turn.calls]
            /\ at' = "calling" /\ turn' = NoTurn /\ UNCHANGED <<history, cache, aborted>>
    /\ UNCHANGED <<billed, saved, circuit>>

\* Mutant: a call that failed is not answered.
Successes(r) == {[id |-> <<r.rounds, i>>, ok |-> TRUE] : i \in {j \in DOMAIN r.outs : r.outs[j]}}

\* appendToolResults, when the last call is answered.
Results(r) == {[id |-> <<r.rounds, i>>, ok |-> r.outs[i]] : i \in DOMAIN r.outs}
Answer(r) ==
    IF Len(r.outs) < Len(r.batch) THEN at' = at /\ run' = r
    ELSE /\ at' = "ready"
         /\ run' = [r EXCEPT !.batch = <<>>, !.outs = <<>>, !.session.outputs = @ \cup Results(r)]

Duplicates == \E i, j \in DOMAIN run.batch : i < j /\ run.batch[i] = "edit" /\ run.batch[j] = "edit"

\* Preflight: arguments that are invalid, or an effect asked for twice, reject the whole batch.
RejectBatch ==
    /\ at = "calling" /\ run.outs = <<>>
    /\ Answer([run EXCEPT !.outs = [i \in DOMAIN run.batch |-> FALSE]])
    /\ UNCHANGED <<driverVars, aborted, history, saved, cache, circuit>>

Outcomes(tool) ==
    IF tool = "read" THEN {"read", "failed"}
    ELSE IF run.refresh THEN {"blocked"} ELSE {"applied", "conflict", "failed"}

Executed(tool, o) ==
    [run EXCEPT !.outs = Append(@, o \in {"read", "applied"}),
                !.refresh = (@ \/ o = "conflict") /\ o # "read",
                !.failed = (@ \/ (tool = "edit" /\ o \in {"conflict", "failed"})) /\ o # "applied",
                !.refused = IF o = "applied" THEN {} ELSE IF o = "failed" THEN @ \cup {tool} ELSE @]

(* The next call.  An edit waits until a conflict was read; a call that    *)
(* fails again before any effect ends the run, and so does one during      *)
(* which the run was aborted.                                              *)
Execute ==
    LET tool == run.batch[Len(run.outs) + 1]
    IN  /\ at = "calling" /\ ~Duplicates
        /\ \E o \in Outcomes(tool) :
              IF (aborted # "none" /\ o # "blocked") \/ (o = "failed" /\ tool \in run.refused)
              THEN Fail /\ UNCHANGED saved
              ELSE /\ Answer(Executed(tool, o))
                   /\ saved' = ((saved \/ o = "conflict") /\ o # "read")
                   /\ history' = [history EXCEPT ![n].effects = @ \/ o = "applied"]
                   /\ UNCHANGED <<turn, aborted, cache>>
        /\ UNCHANGED <<billed, circuit>>

\* The workspace changed, usage or an answer is invalid, a limit is passed: the host ends the run.
HostFails ==
    /\ at \in {"ready", "calling"} \/ (at = "asking" /\ turn.step = "ok")
    /\ Fail /\ UNCHANGED <<billed, saved, circuit>>
-----------------------------------------------------------------------------
Cancel ==
    /\ at # "off" /\ aborted = "none" /\ aborted' = "user"
    /\ UNCHANGED <<driverVars, at, run, history, saved, cache, circuit>>

Timeout ==
    /\ at # "off" /\ aborted # "time" /\ aborted' = "time"
    /\ UNCHANGED <<driverVars, at, run, history, saved, cache, circuit>>

\* Other conversations push the session out of the cache, or it cannot be compacted.
Evict ==
    /\ cache # {} /\ cache' = {}
    /\ UNCHANGED <<driverVars, at, run, aborted, history, saved, circuit>>

\* The application ends and starts again: a run that was active is marked as interrupted.
Restart ==
    /\ history' = [i \in DOMAIN history |->
                     IF history[i].status = "running"
                     THEN [history[i] EXCEPT !.status = "interrupted"] ELSE history[i]]
    /\ at' = "off" /\ run' = NoRun /\ turn' = NoTurn /\ aborted' = "none"
    /\ cache' = {} /\ circuit' = FALSE /\ UNCHANGED <<billed, saved>>

Progress ==
    \/ Ask \/ Drive \/ Retry \/ Recover \/ ReportFails \/ RecoveryFails \/ TurnFails \/ ReportDone
    \/ TextDone \/ Verdict \/ AskJson \/ Unjudged \/ CallsDone \/ RejectBatch \/ Execute \/ HostFails

Next == Start \/ Progress \/ Cancel \/ Timeout \/ Evict \/ Restart

Spec == Init /\ [][Next]_vars

\* The provider answers, fails or ends its stream, and the host goes on.
FairSpec == Spec /\ WF_vars(Progress)
-----------------------------------------------------------------------------
(* What a session cached between two runs tells the model is what the      *)
(* database tells it: the next answer does not depend on whether the       *)
(* session was kept (commitConversation, modelHistory).                    *)
CacheIsHistory == at = "off" => \A said \in cache : said = ModelHistory

(* Every request gives the provider each call of the session with exactly  *)
(* one output, whatever became of the call (appendToolResults).            *)
SessionIsAnswered ==
    at \in {"ready", "asking"} =>
        /\ {c.id : c \in run.session.calls} = {o.id : o \in run.session.outputs}
        /\ \A o, p \in run.session.outputs : o.id = p.id => o = p

(* The usage of a run is what the provider reported for all its requests,  *)
(* failed and repeated ones included, each counted once.                   *)
UsageCountedOnce ==
    at # "off" /\ turn.step \notin {"stream", "fallback"} => run.total = billed

(* A run after an effect is not forgotten: unless the user cancelled it or *)
(* the application crashed, later runs are told of it.                     *)
EffectsAreTold ==
    /\ \A i \in DOMAIN history :
          history[i].effects => history[i].status \in {"running", "cancelled", "interrupted"} \/ Told(i)
    /\ at # "off" => \A i \in 1 .. n - 1 : Told(i) => <<"text", i>> \in run.session.said

(* A run knows of every conflict that was not read again, also of those of *)
(* earlier runs and from before a restart, and of no other.                *)
ConflictsAreKnown == at # "off" => run.refresh = saved

\* The loop ends: every run reaches its end without a timeout.
RunsEnd == at # "off" ~> at = "off"
=============================================================================
