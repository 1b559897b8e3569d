--------------------------- MODULE ApprovalBroker ---------------------------
(***************************************************************************)
(* The life of an approval ticket: the side-effect queue of AgentService   *)
(* (services/agent.ts), the policy, the broker that keeps a proposed       *)
(* action inert (services/approvals.ts), and the ownership of a run by the *)
(* renderer document that started it (ipc.ts).                             *)
(*                                                                         *)
(* A decision and what the agent does with it before its next macrotask    *)
(* are one step: settle() resolves a promise whose continuations are       *)
(* microtasks.  Whatever needs another turn of the event loop (the policy  *)
(* read, the user, the timer, the start of the effect) is a step of its    *)
(* own.  The clock is kept as the time each ticket has left.               *)
(***************************************************************************)
EXTENDS Integers, Sequences, FiniteSets

CONSTANTS Runs,            \* runs that may be started
          Tickets,         \* approval ids (fresh UUIDs)
          RunOf,           \* the run each ticket is asked for
          Ttl,             \* approvalTtlMs, in clock ticks
          MaximumPending,  \* maximumPending of the broker
          MaxDocuments     \* bound: documents the windows load in all

ASSUME BoundsAssumption ==
    /\ RunOf \in [Tickets -> Runs]
    /\ Ttl \in Nat \ {0}
    /\ MaximumPending \in Nat \ {0}
    /\ MaxDocuments \in Nat \ {0}

VARIABLES open,      \* a window exists
          document,  \* number of the document loaded last; 0: none so far
          run,       \* per run: phase, abort signal, document that started it, runOwners entry
          stage,     \* per ticket: how far its tool call got
          left,      \* per ticket: expiresAt - now, 0 when expired
          decision,  \* per ticket: the ApprovalDecision, "none" before one
          tail       \* tickets behind sideEffectTail, in order

vars == <<open, document, run, stage, left, decision, tail>>

NoDocument == 0
NoRun == [phase |-> "idle", aborted |-> FALSE, startedBy |-> NoDocument, owner |-> NoDocument]

Stages == {"free", "queued", "evaluating", "pending", "approved", "running", "ended"}
Decisions == {"none", "approved", "denied", "expired", "cancelled"}

Init ==
    /\ open = TRUE
    /\ document = 1
    /\ run = [r \in Runs |-> NoRun]
    /\ stage = [t \in Tickets |-> "free"]
    /\ left = [t \in Tickets |-> 0]
    /\ decision = [t \in Tickets |-> "none"]
    /\ tail = <<>>

Live(r) == run[r].phase = "live"
Pending == {t \in Tickets : stage[t] = "pending"}
OpenTicket(r) == \E t \in Tickets : RunOf[t] = r /\ stage[t] \notin {"free", "ended"}

(* The test every emitted event makes: the document that started the run   *)
(* is no longer the one the window shows.                                  *)
Gone(r) == ~open \/ run[r].startedBy # document

Abort(r, owner) == [run EXCEPT ![r].aborted = TRUE, ![r].owner = owner]

(* emit: an event for a document that is gone drops the ownership and      *)
(* cancels the run.                                                        *)
Emitted(r) == IF Gone(r) THEN Abort(r, NoDocument) ELSE run

(* The tool call of t is over: its result goes back to the run and the     *)
(* next operation of the queue may start.                                  *)
End(t, d) ==
    /\ stage' = [stage EXCEPT ![t] = "ended"]
    /\ decision' = [decision EXCEPT ![t] = d]
    /\ tail' = Tail(tail)

(* settle() with a decision, and the rest of awaitApproval.                *)
Settle(t, d) ==
    /\ run' = Emitted(RunOf[t])
    /\ IF d = "approved"
       THEN /\ stage' = [stage EXCEPT ![t] = "approved"]
            /\ decision' = [decision EXCEPT ![t] = "approved"]
            /\ UNCHANGED tail
       ELSE End(t, d)

(* approvals.cancelRun and the abort listener: every pending ticket of the *)
(* runs in R is settled as cancelled (one at most: the head of the queue). *)
SettleCancelled(R) ==
    LET hit == {t \in Pending : RunOf[t] \in R}
    IN /\ stage' = [t \in Tickets |-> IF t \in hit THEN "ended" ELSE stage[t]]
       /\ decision' = [t \in Tickets |-> IF t \in hit THEN "cancelled" ELSE decision[t]]
       /\ tail' = IF hit = {} THEN tail ELSE Tail(tail)
-----------------------------------------------------------------------------
(* The windows.                                                            *)

(* A reload, a crash recovery or a navigation replaces the main frame; no  *)
(* listener is attached to it.                                             *)
Reload ==
    /\ open
    /\ document < MaxDocuments
    /\ document' = document + 1
    /\ UNCHANGED <<open, run, stage, left, decision, tail>>

(* The 'destroyed' event cancels every run the window still owns.          *)
DestroyWindow ==
    /\ open
    /\ open' = FALSE
    /\ run' = [r \in Runs |->
                 IF Live(r) THEN [run[r] EXCEPT !.aborted = TRUE, !.owner = NoDocument]
                            ELSE run[r]]
    /\ SettleCancelled({r \in Runs : Live(r)})
    /\ UNCHANGED <<document, left>>

CreateWindow ==
    /\ ~open
    /\ document < MaxDocuments
    /\ open' = TRUE
    /\ document' = document + 1
    /\ UNCHANGED <<run, stage, left, decision, tail>>
-----------------------------------------------------------------------------
(* The runs.                                                               *)

StartRun(r) ==
    /\ open
    /\ run[r].phase = "idle"
    /\ run' = [run EXCEPT ![r] = [phase |-> "live", aborted |-> FALSE,
                                  startedBy |-> document, owner |-> document]]
    /\ UNCHANGED <<open, document, stage, left, decision, tail>>

(* cancelRun, by the owning document, the run timeout, or a service that   *)
(* needs the run to stop.  A settled ticket announces its decision, which  *)
(* may find the renderer gone.                                             *)
CancelRun(r) ==
    /\ Live(r)
    /\ ~run[r].aborted
    /\ run' = IF Gone(r) /\ \E t \in Pending : RunOf[t] = r
              THEN Abort(r, NoDocument)
              ELSE Abort(r, run[r].owner)
    /\ SettleCancelled({r})
    /\ UNCHANGED <<open, document, left>>

(* Any event of the run that no other action accounts for (text, usage).   *)
EmitEvent(r) ==
    /\ Live(r)
    /\ Gone(r)
    /\ run[r].owner # NoDocument
    /\ run' = Emitted(r)
    /\ SettleCancelled({r})
    /\ UNCHANGED <<open, document, left>>

(* The end of performRun and its terminal event.                           *)
EndRun(r) ==
    /\ Live(r)
    /\ ~OpenTicket(r)
    /\ run' = [run EXCEPT ![r].phase = "over", ![r].owner = NoDocument]
    /\ SettleCancelled({r})
    /\ UNCHANGED <<open, document, left>>
-----------------------------------------------------------------------------
(* The tool call of a ticket.                                              *)

(* executeToolCall: the abort signal is read before the call is queued.    *)
Propose(t) ==
    /\ stage[t] = "free"
    /\ Live(RunOf[t])
    /\ ~run[RunOf[t]].aborted
    /\ ~OpenTicket(RunOf[t])
    /\ stage' = [stage EXCEPT ![t] = "queued"]
    /\ tail' = Append(tail, t)
    /\ UNCHANGED <<open, document, run, left, decision>>

(* Mutant: the queue is not waited for.                                    *)
IsAnywhereInQueue(t) == TRUE

(* serializeSideEffect starts the operation when all earlier ones settled. *)
IsNextInQueue(t) == Head(tail) = t

Begin(t) ==
    /\ stage[t] = "queued"
    /\ IsNextInQueue(t)
    /\ stage' = [stage EXCEPT ![t] = "evaluating"]
    /\ left' = [left EXCEPT ![t] = Ttl]
    /\ UNCHANGED <<open, document, run, decision, tail>>

(* Preparing the mutation or the command, or reading the goal or the       *)
(* policy, throws before a decision is asked for.                          *)
ToolFails(t) ==
    /\ stage[t] = "evaluating"
    /\ End(t, "none")
    /\ UNCHANGED <<open, document, run, left>>

(* awaitApproval after evaluateApproval: the run was cancelled meanwhile.  *)
DecideCancelled(t) ==
    /\ stage[t] = "evaluating"
    /\ run[RunOf[t]].aborted
    /\ End(t, "cancelled")
    /\ UNCHANGED <<open, document, run, left>>

(* The policy decides without the user.                                    *)
DecideByPolicy(t, d) ==
    /\ stage[t] = "evaluating"
    /\ ~run[RunOf[t]].aborted
    /\ Settle(t, d)
    /\ UNCHANGED <<open, document, left>>

(* ApprovalBroker.request: the limit, the clock, then the ticket is kept   *)
(* and announced; the announcement may find the renderer gone.             *)
Request(t) ==
    /\ stage[t] = "evaluating"
    /\ ~run[RunOf[t]].aborted
    /\ run' = IF Cardinality(Pending) >= MaximumPending THEN run ELSE Emitted(RunOf[t])
    /\ IF Cardinality(Pending) >= MaximumPending THEN End(t, "none")
       ELSE IF left[t] = 0 THEN End(t, "expired")
       ELSE IF Gone(RunOf[t]) THEN End(t, "cancelled")
       ELSE /\ stage' = [stage EXCEPT ![t] = "pending"]
            /\ UNCHANGED <<decision, tail>>
    /\ UNCHANGED <<open, document, left>>

(* onRequested throws (the audit record cannot be written): the ticket is  *)
(* settled before anybody saw it.                                          *)
RequestFails(t) ==
    /\ stage[t] = "evaluating"
    /\ ~run[RunOf[t]].aborted
    /\ left[t] > 0
    /\ Settle(t, "cancelled")
    /\ UNCHANGED <<open, document, left>>

(* Mutant: the clock is left to the timer.                                 *)
ResolveWhateverTheTime(t, d) ==
    /\ open
    /\ stage[t] = "pending"
    /\ run[RunOf[t]].owner = document
    /\ Settle(t, d)
    /\ UNCHANGED <<open, document, left>>

(* resolveApproval: the document that asks must own the run, and the clock *)
(* is read again because the timer may be late.                            *)
Resolve(t, d) ==
    /\ open
    /\ stage[t] = "pending"
    /\ run[RunOf[t]].owner = document
    /\ Settle(t, IF left[t] = 0 THEN "expired" ELSE d)
    /\ UNCHANGED <<open, document, left>>

(* Mutant: no timer, an unanswered ticket stays.                           *)
TimerNeverFires(t) == FALSE /\ UNCHANGED vars

TimerFires(t) ==
    /\ stage[t] = "pending"
    /\ left[t] = 0
    /\ Settle(t, "expired")
    /\ UNCHANGED <<open, document, left>>

(* Mutant: an approval is used without a look at the signal.               *)
StartEffectAnyway(t) ==
    /\ stage[t] = "approved"
    /\ stage' = [stage EXCEPT ![t] = "running"]
    /\ UNCHANGED <<open, document, run, left, decision, tail>>

(* apply, run and callTool read the abort signal before they touch         *)
(* anything.                                                               *)
StartEffect(t) ==
    /\ stage[t] = "approved"
    /\ ~run[RunOf[t]].aborted
    /\ stage' = [stage EXCEPT ![t] = "running"]
    /\ UNCHANGED <<open, document, run, left, decision, tail>>

DropEffect(t) ==
    /\ stage[t] = "approved"
    /\ run[RunOf[t]].aborted
    /\ End(t, "approved")
    /\ UNCHANGED <<open, document, run, left>>

(* The action is refused for a reason of its own: another preimage, an     *)
(* executable that cannot be resolved, a tool revision that changed.       *)
RefuseEffect(t) ==
    /\ stage[t] = "approved"
    /\ ~run[RunOf[t]].aborted
    /\ End(t, "approved")
    /\ UNCHANGED <<open, document, run, left>>

(* The effect succeeds, fails or stops on the abort signal; its queue goes *)
(* on either way.                                                          *)
EndEffect(t) ==
    /\ stage[t] = "running"
    /\ End(t, "approved")
    /\ UNCHANGED <<open, document, run, left>>

Tick ==
    /\ \E t \in Tickets : left[t] > 0 /\ stage[t] \in {"evaluating", "pending"}
    /\ left' = [t \in Tickets |->
                  IF left[t] > 0 /\ stage[t] \in {"evaluating", "pending"}
                  THEN left[t] - 1 ELSE left[t]]
    /\ UNCHANGED <<open, document, run, stage, decision, tail>>
-----------------------------------------------------------------------------
(* What the agent and the event loop do by themselves.                     *)
HostStep(t) ==
    \/ Begin(t)
    \/ ToolFails(t)
    \/ DecideCancelled(t)
    \/ \E d \in {"approved", "denied"} : DecideByPolicy(t, d)
    \/ Request(t)
    \/ RequestFails(t)
    \/ TimerFires(t)
    \/ StartEffect(t)
    \/ DropEffect(t)
    \/ RefuseEffect(t)
    \/ EndEffect(t)

Next ==
    \/ Reload
    \/ DestroyWindow
    \/ CreateWindow
    \/ Tick
    \/ \E r \in Runs : StartRun(r) \/ CancelRun(r) \/ EmitEvent(r) \/ EndRun(r)
    \/ \E t \in Tickets :
         \/ Propose(t)
         \/ \E d \in {"approved", "denied"} : Resolve(t, d)
         \/ HostStep(t)

Spec == Init /\ [][Next]_vars

(* The event loop serves every ticket, time passes, and an effect ends:    *)
(* commands, MCP calls and file operations all have a time limit or are    *)
(* bounded work.  Nobody is obliged to answer a ticket.                    *)
FairSpec ==
    /\ Spec
    /\ WF_vars(Tick)
    /\ \A t \in Tickets : WF_vars(HostStep(t))
-----------------------------------------------------------------------------
(* What every variable holds; no ticket has less than no time left.        *)
TypeOK ==
    /\ open \in BOOLEAN
    /\ document \in 1..MaxDocuments
    /\ run \in [Runs -> [phase : {"idle", "live", "over"}, aborted : BOOLEAN,
                         startedBy : 0..MaxDocuments, owner : 0..MaxDocuments]]
    /\ stage \in [Tickets -> Stages]
    /\ left \in [Tickets -> 0..Ttl]
    /\ decision \in [Tickets -> Decisions]
    /\ tail \in Seq(Tickets)

(* Mutual exclusion of side effects: the queue lists exactly the tool      *)
(* calls that are not over, each once, and all but its head still wait.    *)
(* The broker therefore never holds more than one ticket of all the runs.  *)
OneSideEffect ==
    /\ {tail[i] : i \in DOMAIN tail} = {t \in Tickets : stage[t] \notin {"free", "ended"}}
    /\ \A i, j \in DOMAIN tail : tail[i] = tail[j] => i = j
    /\ \A i \in DOMAIN tail : i > 1 => stage[tail[i]] = "queued"

(* A ticket that can still be approved belongs to a run that can still     *)
(* use it: cancelRun settles before it aborts, a request after the abort   *)
(* is refused, and the announcement itself may cancel the run.             *)
NoTicketOutlivesItsRun ==
    \A t \in Pending : Live(RunOf[t]) /\ ~run[RunOf[t]].aborted

(* Only the document that started the run turns a pending ticket into an   *)
(* approval, and only before the ticket expires, however late the timer.   *)
ApprovedByItsRenderer ==
    [][\A t \in Pending :
         stage'[t] = "approved" =>
             /\ open /\ document = run[RunOf[t]].startedBy
             /\ left[t] > 0
             /\ ~run[RunOf[t]].aborted]_vars

(* A decision may be old when the effect starts: the run was cancelled     *)
(* between the two and the effect must not start any more.                 *)
NoEffectAfterCancel ==
    [][\A t \in Tickets :
         stage[t] # "running" /\ stage'[t] = "running" =>
             /\ decision[t] = "approved"
             /\ Live(RunOf[t]) /\ ~run'[RunOf[t]].aborted]_vars

(* One ticket nobody answers delays the side effects of every run, but     *)
(* only until it expires: each queued tool call comes to an end.           *)
EveryTicketEnds ==
    \A t \in Tickets : stage[t] = "queued" ~> stage[t] = "ended"

=============================================================================
