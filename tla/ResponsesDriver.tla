---------------------------- MODULE ResponsesDriver ----------------------------
(***************************************************************************)
(* One turn of the model, as drivers/responses-api.ts runs it: the stream, *)
(* the request without a stream when the stream breaks, one repetition     *)
(* when the answer spells a tool call in its text, the checks of the tool  *)
(* choice, and the usage that is reported whether the turn ends well or    *)
(* not.  AgentTurns asks for turns and handles what they report.           *)
(***************************************************************************)
EXTENDS Naturals, Sequences, FiniteSets

CONSTANTS Batches,  \* calls the model may ask for in one answer
          MaxTokens \* bound: answers of a run that report usage

Tools == {"read", "edit"}

ASSUME DriverAssumption ==
    /\ \A b \in Batches : b \in Seq(Tools) /\ b # <<>>
    /\ MaxTokens \in Nat

VARIABLES
    turn,   \* the turn that is asked for
    billed  \* history: the usage that the answers of the run reported

driverVars == <<turn, billed>>

(* A turn: how far it is, the request, what was collected.  "done" and     *)
(* "good" are the calls since the last user message that were answered,    *)
(* and answered well; "guard" withholds text until the answer is complete. *)
NoTurn == [step |-> "none", tools |-> FALSE, guard |-> FALSE, choice |-> "auto",
           done |-> {}, good |-> {}, again |-> FALSE, seen |-> FALSE, cost |-> 0,
           calls |-> <<>>, text |-> FALSE, retryable |-> FALSE]

\* protocolGuardTools: is there any tool whose call the text might spell?
Asked(tools, guard, choice, done, good) ==
    [NoTurn EXCEPT !.step = "stream", !.tools = tools /\ choice # "none", !.guard = guard,
                   !.choice = choice, !.done = done, !.good = good]

(* What a provider answers: calls, text, nothing, or text that spells a    *)
(* call, in a form that can be read ("spelled") or not ("markup").         *)
Answers(t) ==
    [kind : {"text", "empty"}, calls : {<<>>}]
    \cup (IF t.guard THEN [kind : {"markup"}, calls : {<<>>}] \cup [kind : {"calls"}, calls : Batches]
                          \cup [kind : {"spelled"}, calls : {<<c>> : c \in Tools}]
          ELSE {})

\* extractCanonicalCalls: a spelled call is adapted, unless it repeats one that was answered.
Extracted(t, a) ==
    IF ~t.tools \/ (a.kind = "spelled" /\ a.calls[1] \in t.done) THEN <<>> ELSE a.calls

\* containsGuardedToolProtocol: a call where none is allowed, or one spelled in the text.
Guarded(a) == a.kind \in {"calls", "spelled", "markup"}

Repeats(t, calls) == \E i \in DOMAIN calls : calls[i] \in t.good

\* assertToolChoiceSatisfied, for the choices of a run without a goal.
Unsatisfied(t, calls) == t.choice = "required" /\ calls = <<>>

Costs == {u \in 0 .. 1 : billed + u <= MaxTokens}
Fails(t, retryable) == turn' = [t EXCEPT !.step = "failed", !.retryable = retryable]
-----------------------------------------------------------------------------
Collecting == turn.step \in {"stream", "fallback"}

\* Text arrives in a turn that does not withhold it.
Delta ==
    /\ turn.step = "stream" /\ ~turn.guard /\ ~turn.seen
    /\ turn' = [turn EXCEPT !.seen = TRUE] /\ UNCHANGED billed

\* A complete answer: repeat once, refuse, or deliver.
Answered ==
    \E a \in Answers(turn), u \in Costs :
        LET t == [turn EXCEPT !.cost = @ + u]
            calls == Extracted(t, a)
        IN  /\ Collecting
            /\ billed' = billed + u
            /\ IF calls = <<>> /\ Guarded(a)
               THEN IF t.again THEN Fails(t, FALSE)
                    ELSE turn' = [t EXCEPT !.step = "stream", !.again = TRUE, !.seen = FALSE]
               ELSE IF (t.again /\ Repeats(t, calls)) \/ Unsatisfied(t, calls)
               THEN Fails(t, TRUE)
               ELSE turn' = [t EXCEPT !.step = "ok", !.calls = calls, !.text = a.kind = "text"]

\* The provider reports that the answer failed or is incomplete, or refuses the request.
Refused ==
    \E u \in Costs, retryable \in BOOLEAN :
        /\ Collecting /\ billed' = billed + u
        /\ Fails([turn EXCEPT !.cost = @ + u], retryable)

(* The stream ends before the answer is complete: it is asked for without  *)
(* a stream, unless text was shown or the error is not to be hidden.       *)
Broken ==
    /\ turn.step = "stream" /\ UNCHANGED billed
    /\ \/ (turn.guard \/ ~turn.seen) /\ turn' = [turn EXCEPT !.step = "fallback"]
       \/ ~turn.guard /\ \E retryable \in BOOLEAN : Fails(turn, retryable)

\* The run was cancelled: the next event or request ends the turn.
Stopped == Collecting /\ Fails(turn, FALSE) /\ UNCHANGED billed
=============================================================================
