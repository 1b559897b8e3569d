------------------------ MODULE ApprovalBrokerProofs ------------------------
(***************************************************************************)
(* What stands between a run and the user's machine.  About ApprovalBroker *)
(* for any number of runs, tickets, documents and any lifetime of a        *)
(* ticket.  Then about SettingsStore, which holds the keys and policies,   *)
(* for any providers, requests, builds, failures and stops: it is the      *)
(* atomic record of AtomicSettings.                                        *)
(***************************************************************************)
EXTENDS ApprovalBroker, SettingsStore, TLAPS

Waiting(t) == stage[t] \notin {"free", "ended"}

(* The part of TypeOK that does not speak of the queue.                    *)
StateType ==
    /\ open \in BOOLEAN
    /\ document \in 1..MaxDocuments
    /\ run \in [Runs -> [phase : {"idle", "live", "over"}, aborted : BOOLEAN,
                         startedBy : 0..MaxDocuments, owner : 0..MaxDocuments]]
    /\ stage \in [Tickets -> Stages]
    /\ left \in [Tickets -> 0..Ttl]
    /\ decision \in [Tickets -> Decisions]

(* The entry of runOwners is the document that started the run, or gone;   *)
(* a run has one tool call at a time, only while it lives.                 *)
OwnerInv == \A r \in Runs : run[r].owner \in {NoDocument, run[r].startedBy}

CallInv ==
    /\ \A t \in Tickets : Waiting(t) => Live(RunOf[t])
    /\ \A t, u \in Tickets : Waiting(t) /\ Waiting(u) /\ RunOf[t] = RunOf[u] => t = u

(* A ticket the agent may act on has the decision that allows it.          *)
DecisionInv == \A t \in Tickets : stage[t] = "approved" => decision[t] = "approved"

IInv == StateType /\ OwnerInv /\ CallInv /\ NoTicketOutlivesItsRun /\ DecisionInv

LEMMA Initially == Init => IInv
<1> SUFFICES ASSUME Init PROVE IInv
  OBVIOUS
<1> USE BoundsAssumption
<1>1. StateType
  BY DEF Init, StateType, NoRun, NoDocument, Stages, Decisions
<1>2. OwnerInv /\ CallInv /\ NoTicketOutlivesItsRun /\ DecisionInv
  BY DEF Init, OwnerInv, NoRun, CallInv, Waiting, NoTicketOutlivesItsRun, Pending, DecisionInv
<1> QED
  BY <1>1, <1>2 DEF IInv
-----------------------------------------------------------------------------
(* What the abort of one run changes.                                      *)
LEMMA AbortFields ==
  ASSUME StateType, NEW r \in Runs, NEW o \in 0..MaxDocuments
  PROVE  /\ Abort(r, o) \in [Runs -> [phase : {"idle", "live", "over"}, aborted : BOOLEAN,
                                      startedBy : 0..MaxDocuments, owner : 0..MaxDocuments]]
         /\ Abort(r, o)[r].aborted /\ Abort(r, o)[r].owner = o
         /\ \A q \in Runs : /\ Abort(r, o)[q].phase = run[q].phase
                            /\ Abort(r, o)[q].startedBy = run[q].startedBy
         /\ \A q \in Runs \ {r} : Abort(r, o)[q] = run[q]
  BY DEF Abort, StateType

LEMMA CancelStep ==
  ASSUME IInv, NEW R \in SUBSET Runs, SettleCancelled(R), UNCHANGED left,
         document' \in 1..MaxDocuments, open' \in BOOLEAN,
         run' \in [Runs -> [phase : {"idle", "live", "over"}, aborted : BOOLEAN,
                            startedBy : 0..MaxDocuments, owner : 0..MaxDocuments]],
         \A r \in Runs : /\ run'[r].owner \in {NoDocument, run[r].owner}
                         /\ run'[r].startedBy = run[r].startedBy
                         /\ run'[r].phase # run[r].phase => r \in R /\ ~OpenTicket(r)
                         /\ run'[r].aborted # run[r].aborted => r \in R
  PROVE  IInv'
<1> USE BoundsAssumption DEF IInv
<1>1. stage' = [t \in Tickets |-> IF stage[t] = "pending" /\ RunOf[t] \in R
                                  THEN "ended" ELSE stage[t]]
  BY DEF SettleCancelled, Pending, StateType
<1>2. decision' = [t \in Tickets |-> IF stage[t] = "pending" /\ RunOf[t] \in R
                                     THEN "cancelled" ELSE decision[t]]
  BY DEF SettleCancelled, Pending, StateType
<1>3. StateType'
  BY <1>1, <1>2 DEF StateType, Stages, Decisions
<1>4. OwnerInv'
  BY DEF OwnerInv, StateType
<1>5. CallInv'
  BY <1>1 DEF CallInv, Waiting, Live, OpenTicket, StateType
<1>6. NoTicketOutlivesItsRun'
  BY <1>1 DEF NoTicketOutlivesItsRun, Pending, Live, OpenTicket, StateType
<1>7. DecisionInv'
  BY <1>1, <1>2 DEF DecisionInv, StateType
<1> QED
  BY <1>3, <1>4, <1>5, <1>6, <1>7

(* A step of the tool call of t alone, with what an event may do to its    *)
(* run.                                                                    *)
LEMMA CallStep ==
  ASSUME IInv, NEW t \in Tickets, Waiting(t),
         NEW to \in Stages \ {"free"}, NEW d \in Decisions,
         stage' = [stage EXCEPT ![t] = to],
         decision' = [decision EXCEPT ![t] = d],
         run' = run \/ run' = Abort(RunOf[t], NoDocument),
         to = "pending" => run' = run /\ ~run[RunOf[t]].aborted,
         to = "approved" => d = "approved",
         left' \in [Tickets -> 0..Ttl],
         UNCHANGED <<open, document>>
  PROVE  IInv'
<1> USE BoundsAssumption DEF IInv
<1>0. RunOf[t] \in Runs /\ NoDocument \in 0..MaxDocuments
  BY DEF NoDocument
<1>a. /\ run' \in [Runs -> [phase : {"idle", "live", "over"}, aborted : BOOLEAN,
                            startedBy : 0..MaxDocuments, owner : 0..MaxDocuments]]
      /\ \A r \in Runs : /\ run'[r].phase = run[r].phase
                         /\ run'[r].startedBy = run[r].startedBy
                         /\ run'[r].owner \in {NoDocument, run[r].owner}
                         /\ r # RunOf[t] => run'[r] = run[r]
  <2>1. CASE run' = run
    BY <2>1 DEF StateType
  <2>2. CASE run' = Abort(RunOf[t], NoDocument)
    <3>1. \A q \in Runs : q # RunOf[t] => run'[q] = run[q]
      BY <2>2, <1>0, AbortFields
    <3>2. run'[RunOf[t]].owner = NoDocument
      BY <2>2, <1>0, AbortFields
    <3> QED
      BY <2>2, <3>1, <3>2, <1>0, AbortFields
  <2> QED
    BY <2>1, <2>2
<1>1. StateType'
  BY <1>a DEF StateType
<1>2. OwnerInv'
  BY <1>a DEF OwnerInv
<1>3. CallInv'
  <2>1. \A u \in Tickets : Waiting(u)' => Waiting(u)
    BY DEF Waiting, StateType
  <2> QED
    BY <2>1, <1>a DEF CallInv, Live
<1>4. NoTicketOutlivesItsRun'
  <2> SUFFICES ASSUME NEW u \in Tickets, stage'[u] = "pending"
               PROVE  Live(RunOf[u])' /\ ~run'[RunOf[u]].aborted
    BY DEF NoTicketOutlivesItsRun, Pending
  <2>1. CASE u = t
    BY <2>1, <1>a DEF CallInv, Live, StateType
  <2>2. CASE u # t
    <3>1. stage[u] = "pending" /\ RunOf[u] # RunOf[t]
      BY <2>2 DEF CallInv, Waiting, StateType
    <3> QED
      BY <3>1, <1>a DEF NoTicketOutlivesItsRun, Pending, Live
  <2> QED
    BY <2>1, <2>2
<1>5. DecisionInv'
  BY DEF DecisionInv, StateType
<1> QED
  BY <1>1, <1>2, <1>3, <1>4, <1>5

LEMMA HostKeeps ==
  ASSUME IInv, NEW t \in Tickets, HostStep(t)
  PROVE  IInv'
<1> USE BoundsAssumption
<1>a. /\ decision[t] \in Decisions /\ stage[t] \in Stages
      /\ stage = [stage EXCEPT ![t] = stage[t]]
      /\ decision = [decision EXCEPT ![t] = decision[t]]
      /\ left \in [Tickets -> 0..Ttl]
  BY DEF IInv, StateType
<1>1. CASE Begin(t)
  <2>1. left' \in [Tickets -> 0..Ttl]
    BY <1>1, <1>a DEF Begin
  <2> QED
    BY <1>1, <1>a, <2>1, CallStep DEF Begin, Waiting, Stages
<1>2. CASE ToolFails(t)
  BY <1>2, <1>a, CallStep DEF ToolFails, End, Waiting, Stages, Decisions
<1>3. CASE DecideCancelled(t)
  BY <1>3, <1>a, CallStep DEF DecideCancelled, End, Waiting, Stages, Decisions
<1>4. ASSUME NEW d \in {"approved", "denied"}, DecideByPolicy(t, d) PROVE IInv'
  BY <1>4, <1>a, CallStep DEF DecideByPolicy, Settle, Emitted, End, Waiting, Stages, Decisions
<1>5. CASE Request(t)
  BY <1>5, <1>a, CallStep DEF Request, Emitted, End, Waiting, Stages, Decisions
<1>6. CASE RequestFails(t)
  BY <1>6, <1>a, CallStep DEF RequestFails, Settle, Emitted, End, Waiting, Stages, Decisions
<1>7. CASE TimerFires(t)
  BY <1>7, <1>a, CallStep DEF TimerFires, Settle, Emitted, End, Waiting, Stages, Decisions
<1>8. CASE StartEffect(t)
  BY <1>8, <1>a, CallStep DEF StartEffect, Waiting, Stages, Decisions
<1>9. CASE DropEffect(t)
  BY <1>9, <1>a, CallStep DEF DropEffect, End, Waiting, Stages, Decisions
<1>10. CASE RefuseEffect(t)
  BY <1>10, <1>a, CallStep DEF RefuseEffect, End, Waiting, Stages, Decisions
<1>11. CASE EndEffect(t)
  BY <1>11, <1>a, CallStep DEF EndEffect, End, Waiting, Stages, Decisions
<1> QED
  BY <1>1, <1>2, <1>3, <1>4, <1>5, <1>6, <1>7, <1>8, <1>9, <1>10, <1>11 DEF HostStep

LEMMA RunKeeps ==
  ASSUME IInv, NEW r \in Runs, StartRun(r) \/ CancelRun(r) \/ EmitEvent(r) \/ EndRun(r)
  PROVE  IInv'
<1> USE BoundsAssumption DEF IInv
<1>1. CASE StartRun(r)
  <2>1. StateType' /\ OwnerInv'
    BY <1>1 DEF StartRun, StateType, OwnerInv
  <2>2. CallInv' /\ NoTicketOutlivesItsRun' /\ DecisionInv'
    BY <1>1 DEF StartRun, StateType, CallInv, Waiting, Live, NoTicketOutlivesItsRun, Pending,
                DecisionInv
  <2> QED
    BY <2>1, <2>2
<1>2. CASE CancelRun(r)
  <2>1. run[r].owner \in 0..MaxDocuments /\ NoDocument \in 0..MaxDocuments
    BY DEF StateType, NoDocument
  <2> QED
    <3>1. PICK o \in {NoDocument, run[r].owner} : run' = Abort(r, o)
      BY <1>2 DEF CancelRun
    <3>2. /\ run' \in [Runs -> [phase : {"idle", "live", "over"}, aborted : BOOLEAN,
                                startedBy : 0..MaxDocuments, owner : 0..MaxDocuments]]
          /\ run'[r].owner = o
          /\ \A q \in Runs : run'[q].phase = run[q].phase /\ run'[q].startedBy = run[q].startedBy
          /\ \A q \in Runs \ {r} : run'[q] = run[q]
      <4>1. o \in 0..MaxDocuments /\ StateType
        BY <2>1
      <4>2. Abort(r, o)[r].owner = o
        BY <4>1, AbortFields
      <4> QED
        BY <3>1, <4>1, <4>2, AbortFields
    <3> QED
      BY <1>2, <3>2, CancelStep DEF CancelRun, StateType
<1>3. CASE EmitEvent(r)
  BY <1>3, CancelStep DEF EmitEvent, Emitted, Abort, NoDocument, StateType
<1>4. CASE EndRun(r)
  <2>1. /\ run' \in [Runs -> [phase : {"idle", "live", "over"}, aborted : BOOLEAN,
                              startedBy : 0..MaxDocuments, owner : 0..MaxDocuments]]
        /\ run'[r].owner = NoDocument
        /\ \A q \in Runs : /\ run'[q].startedBy = run[q].startedBy
                           /\ run'[q].aborted = run[q].aborted
                           /\ q # r => run'[q] = run[q]
    <3>1. run' = [run EXCEPT ![r] = [run[r] EXCEPT !.phase = "over", !.owner = NoDocument]]
      BY <1>4 DEF EndRun, StateType
    <3>2. [run[r] EXCEPT !.phase = "over", !.owner = NoDocument]
            \in [phase : {"idle", "live", "over"}, aborted : BOOLEAN,
                startedBy : 0..MaxDocuments, owner : 0..MaxDocuments]
      <4>1. run[r] \in [phase : {"idle", "live", "over"}, aborted : BOOLEAN,
                        startedBy : 0..MaxDocuments, owner : 0..MaxDocuments]
        BY DEF StateType
      <4>2. NoDocument \in 0..MaxDocuments
        BY DEF NoDocument
      <4> QED
        BY <4>1, <4>2, Zenon
    <3> QED
      BY <3>1, <3>2 DEF StateType
  <2> QED
    BY <1>4, <2>1, CancelStep DEF EndRun, StateType
<1> QED
  BY <1>1, <1>2, <1>3, <1>4

LEMMA WindowKeeps ==
  ASSUME IInv, Reload \/ DestroyWindow \/ CreateWindow \/ Tick \/ UNCHANGED vars
  PROVE  IInv'
<1> USE BoundsAssumption DEF IInv
<1>1. CASE DestroyWindow
  <2> DEFINE lived == {r \in Runs : Live(r)}
  <2>1. /\ run' \in [Runs -> [phase : {"idle", "live", "over"}, aborted : BOOLEAN,
                              startedBy : 0..MaxDocuments, owner : 0..MaxDocuments]]
        /\ \A q \in Runs : /\ run'[q].owner \in {NoDocument, run[q].owner}
                           /\ run'[q].startedBy = run[q].startedBy
                           /\ run'[q].phase = run[q].phase
                           /\ run'[q].aborted # run[q].aborted => q \in lived
    <3> DEFINE dropped(q) == [run[q] EXCEPT !.aborted = TRUE, !.owner = NoDocument]
    <3>1. run' = [q \in Runs |-> IF Live(q) THEN dropped(q) ELSE run[q]]
      BY <1>1 DEF DestroyWindow
    <3>2. \A q \in Runs : /\ dropped(q) \in [phase : {"idle", "live", "over"}, aborted : BOOLEAN,
                                             startedBy : 0..MaxDocuments, owner : 0..MaxDocuments]
                          /\ dropped(q).owner = NoDocument
                          /\ dropped(q).startedBy = run[q].startedBy
                          /\ dropped(q).phase = run[q].phase
      <4> SUFFICES ASSUME NEW q \in Runs
                   PROVE  /\ dropped(q) \in [phase : {"idle", "live", "over"}, aborted : BOOLEAN,
                                            startedBy : 0..MaxDocuments, owner : 0..MaxDocuments]
                          /\ dropped(q).owner = NoDocument
                          /\ dropped(q).startedBy = run[q].startedBy
                          /\ dropped(q).phase = run[q].phase
        OBVIOUS
      <4>1. run[q] \in [phase : {"idle", "live", "over"}, aborted : BOOLEAN,
                        startedBy : 0..MaxDocuments, owner : 0..MaxDocuments]
        BY DEF StateType
      <4>2. NoDocument \in 0..MaxDocuments
        BY DEF NoDocument
      <4> QED
        BY <4>1, <4>2
    <3> HIDE DEF dropped
    <3> QED
      BY <3>1, <3>2 DEF StateType
  <2> QED
    BY <1>1, <2>1, CancelStep DEF DestroyWindow, StateType
<1>2. CASE Reload \/ CreateWindow \/ Tick \/ UNCHANGED vars
  <2>1. StateType'
    <3>1. CASE Tick
      <4>1. \A n \in 0..Ttl : n > 0 => n - 1 \in 0..Ttl
        OBVIOUS
      <4>2. left' \in [Tickets -> 0..Ttl]
        BY <3>1, <4>1 DEF Tick, StateType
      <4> QED
        BY <3>1, <4>2 DEF Tick, StateType
    <3>2. CASE Reload
      BY <3>2 DEF Reload, StateType
    <3>3. CASE CreateWindow
      BY <3>3 DEF CreateWindow, StateType
    <3>4. CASE UNCHANGED vars
      BY <3>4 DEF vars, StateType
    <3> QED
      BY <1>2, <3>1, <3>2, <3>3, <3>4
  <2>2. UNCHANGED <<run, stage, decision>>
    BY <1>2 DEF Reload, CreateWindow, Tick, vars
  <2> QED
    BY <2>1, <2>2 DEF OwnerInv, CallInv, Waiting, Live, NoTicketOutlivesItsRun, Pending,
                      DecisionInv
<1> QED
  BY <1>1, <1>2

(* The inductive invariant of the module.                                  *)
LEMMA Inductive == Spec => []IInv
<1>1. IInv /\ [Next]_vars => IInv'
  <2> SUFFICES ASSUME IInv, [Next]_vars PROVE IInv'
    OBVIOUS
  <2>1. ASSUME NEW t \in Tickets, Propose(t) PROVE IInv'
    <3> USE BoundsAssumption DEF IInv
    <3>1. StateType' /\ OwnerInv' /\ DecisionInv'
      BY <2>1 DEF Propose, StateType, OwnerInv, DecisionInv, Stages
    <3>2. CallInv' /\ NoTicketOutlivesItsRun'
      BY <2>1 DEF Propose, OpenTicket, StateType, CallInv, Waiting, Live,
                  NoTicketOutlivesItsRun, Pending
    <3> QED
      BY <3>1, <3>2
  <2>2. ASSUME NEW t \in Tickets, NEW d \in {"approved", "denied"}, Resolve(t, d) PROVE IInv'
    <3>1. decision = [decision EXCEPT ![t] = decision[t]] /\ left \in [Tickets -> 0..Ttl]
      BY DEF IInv, StateType
    <3> QED
      BY <2>2, <3>1, CallStep
      DEF Resolve, Settle, Emitted, End, Waiting, Stages, Decisions
  <2> QED
    BY <2>1, <2>2, HostKeeps, RunKeeps, WindowKeeps DEF Next
<1> QED
  BY Initially, <1>1, PTL DEF Spec

(* A ticket that can still be approved belongs to a run that can use it.   *)
THEOREM TicketsOfLiveRuns == Spec => []NoTicketOutlivesItsRun
<1>1. IInv => NoTicketOutlivesItsRun
  BY DEF IInv
<1> QED
  BY Inductive, <1>1, PTL

(* Only the document that started the run approves, before the expiry.     *)
THEOREM ApprovalIsTheRenderers == Spec => ApprovedByItsRenderer
<1> DEFINE Asked == \A t \in Pending :
                      stage'[t] = "approved" =>
                        /\ open /\ document = run[RunOf[t]].startedBy
                        /\ left[t] > 0
                        /\ ~run[RunOf[t]].aborted
<1>1. IInv /\ [Next]_vars => [Asked]_vars
  <2> SUFFICES ASSUME IInv, Next, NEW t \in Tickets, stage[t] = "pending",
                      stage'[t] = "approved"
               PROVE  /\ open /\ document = run[RunOf[t]].startedBy
                      /\ left[t] > 0
                      /\ ~run[RunOf[t]].aborted
    BY DEF Pending
  <2>1. \E d \in {"approved", "denied"} : Resolve(t, d)
    BY DEF IInv, StateType, Next, Reload, DestroyWindow, CreateWindow, Tick, StartRun, CancelRun,
           EmitEvent, EndRun, SettleCancelled, Pending, Propose, Resolve, HostStep, Begin,
           ToolFails, DecideCancelled, DecideByPolicy, Request, RequestFails, TimerFires,
           StartEffect, DropEffect, RefuseEffect, EndEffect, End, Settle
  <2>2. open /\ run[RunOf[t]].owner = document /\ left[t] # 0
    BY <2>1 DEF IInv, StateType, Resolve, Settle, End
  <2>3. document # NoDocument /\ RunOf[t] \in Runs /\ left[t] > 0
    BY <2>2, BoundsAssumption DEF IInv, StateType, NoDocument
  <2>4. ~run[RunOf[t]].aborted
    BY DEF IInv, NoTicketOutlivesItsRun, Pending
  <2> QED
    BY <2>2, <2>3, <2>4 DEF IInv, OwnerInv
<1> QED
  BY Inductive, <1>1, PTL DEF Spec, ApprovedByItsRenderer

(* However old the approval, a cancelled run starts no effect.             *)
THEOREM CancelledRunsStartNoEffect == Spec => NoEffectAfterCancel
<1> DEFINE Wanted == \A t \in Tickets :
                       stage[t] # "running" /\ stage'[t] = "running" =>
                         /\ decision[t] = "approved"
                         /\ Live(RunOf[t]) /\ ~run'[RunOf[t]].aborted
<1>1. IInv /\ [Next]_vars => [Wanted]_vars
  <2> SUFFICES ASSUME IInv, Next, NEW t \in Tickets, stage[t] # "running",
                      stage'[t] = "running"
               PROVE  /\ decision[t] = "approved"
                      /\ Live(RunOf[t]) /\ ~run'[RunOf[t]].aborted
    OBVIOUS
  <2>1. StartEffect(t)
    BY DEF IInv, StateType, Next, Reload, DestroyWindow, CreateWindow, Tick, StartRun, CancelRun,
           EmitEvent, EndRun, SettleCancelled, Pending, Propose, Resolve, HostStep, Begin,
           ToolFails, DecideCancelled, DecideByPolicy, Request, RequestFails, TimerFires,
           StartEffect, DropEffect, RefuseEffect, EndEffect, End, Settle
  <2> QED
    BY <2>1 DEF StartEffect, IInv, DecisionInv, CallInv, Waiting
<1> QED
  BY Inductive, <1>1, PTL DEF Spec, NoEffectAfterCancel
-----------------------------------------------------------------------------
(* The queue of side effects: in order, each once, and only its head is    *)
(* under way.                                                              *)
QueueInv == tail \in Seq(Tickets) /\ OneSideEffect

Ahead(t) == stage[t] \notin {"free", "queued", "ended"}

LEMMA AheadIsHead ==
  ASSUME QueueInv, NEW t \in Tickets, Ahead(t)
  PROVE  tail # <<>> /\ tail[1] = t
<1>1. PICK i \in DOMAIN tail : tail[i] = t
  BY DEF QueueInv, OneSideEffect, Ahead
<1>2. i = 1
  BY <1>1 DEF QueueInv, OneSideEffect, Ahead
<1> QED
  BY <1>1, <1>2 DEF QueueInv

LEMMA QueueInitially == Init => QueueInv
  BY DEF Init, QueueInv, OneSideEffect

(* A call that moves on without leaving the queue.                         *)
LEMMA MoveKeepsQueue ==
  ASSUME IInv, QueueInv, NEW t \in Tickets,
         Ahead(t) \/ (stage[t] = "queued" /\ Head(tail) = t),
         NEW to \in Stages \ {"free", "ended"},
         stage' = [stage EXCEPT ![t] = to], tail' = tail
  PROVE  QueueInv'
<1>1. stage \in [Tickets -> Stages]
  BY DEF IInv, StateType
<1>2. tail # <<>> /\ tail[1] = t
  <2>1. CASE Ahead(t)
    BY <2>1, AheadIsHead
  <2>2. CASE stage[t] = "queued" /\ Head(tail) = t
    BY <2>2 DEF QueueInv, OneSideEffect
  <2> QED
    BY <2>1, <2>2
<1>3. stage[t] \notin {"free", "ended"}
  BY DEF Ahead
<1>4. {u \in Tickets : stage[u] \notin {"free", "ended"}}
        = {u \in Tickets : stage'[u] \notin {"free", "ended"}}
  BY <1>1, <1>3
<1>5. ASSUME NEW i \in DOMAIN tail, i > 1 PROVE stage'[tail[i]] = "queued"
  BY <1>1, <1>2, <1>5 DEF QueueInv, OneSideEffect
<1> QED
  BY <1>4, <1>5 DEF QueueInv, OneSideEffect

(* The call at the head ends and leaves the queue.                         *)
LEMMA EndKeepsQueue ==
  ASSUME IInv, QueueInv, NEW t \in Tickets, Ahead(t),
         stage' = [stage EXCEPT ![t] = "ended"], tail' = Tail(tail)
  PROVE  QueueInv'
<1>1. stage \in [Tickets -> Stages] /\ stage[t] \notin {"free", "ended"}
  BY DEF IInv, StateType, Ahead
<1>2. tail # <<>> /\ tail[1] = t /\ tail \in Seq(Tickets)
  BY AheadIsHead DEF QueueInv
<1>3. /\ tail' \in Seq(Tickets)
      /\ Len(tail') = Len(tail) - 1
      /\ \A i \in 1..Len(tail') : tail'[i] = tail[i + 1]
  BY <1>2
<1>4. \A i, j \in DOMAIN tail : tail[i] = tail[j] => i = j
  BY DEF QueueInv, OneSideEffect
<1>5. \A i \in DOMAIN tail' : i + 1 \in DOMAIN tail /\ i + 1 # 1
  BY <1>2, <1>3
<1>6. {tail'[i] : i \in DOMAIN tail'} = {tail[i] : i \in DOMAIN tail} \ {t}
  <2>1. ASSUME NEW i \in DOMAIN tail' PROVE tail'[i] \in {tail[j] : j \in DOMAIN tail} \ {t}
    <3>1. tail'[i] = tail[i + 1]
      BY <1>3
    <3>2. 1 \in DOMAIN tail
      BY <1>2
    <3>3. tail[i + 1] # tail[1]
      BY <1>4, <1>5, <3>2
    <3> QED
      BY <1>2, <1>5, <3>1, <3>3
  <2>2. ASSUME NEW i \in DOMAIN tail, tail[i] # t PROVE tail[i] \in {tail'[j] : j \in DOMAIN tail'}
    <3>1. i - 1 \in 1..Len(tail') /\ (i - 1) + 1 = i
      BY <1>2, <1>3, <2>2
    <3>2. tail'[i - 1] = tail[i] /\ i - 1 \in DOMAIN tail'
      BY <1>3, <3>1
    <3> QED
      BY <3>2
  <2> QED
    BY <2>1, <2>2
<1>7. {u \in Tickets : stage'[u] \notin {"free", "ended"}}
        = {u \in Tickets : stage[u] \notin {"free", "ended"}} \ {t}
  BY <1>1
<1>8. {tail'[i] : i \in DOMAIN tail'} = {u \in Tickets : stage'[u] \notin {"free", "ended"}}
  BY <1>6, <1>7 DEF QueueInv, OneSideEffect
<1>9. \A i, j \in DOMAIN tail' : tail'[i] = tail'[j] => i = j
  BY <1>3, <1>4, <1>5
<1>10. ASSUME NEW i \in DOMAIN tail', i > 1 PROVE stage'[tail'[i]] = "queued"
  <2>1. tail'[i] = tail[i + 1] /\ i + 1 \in DOMAIN tail /\ i + 1 > 1 /\ tail[i + 1] \in Tickets
    BY <1>2, <1>3, <1>5, <1>10
  <2>2. stage[tail[i + 1]] = "queued"
    BY <2>1 DEF QueueInv, OneSideEffect
  <2>3. tail[i + 1] # t
    BY <2>2 DEF Ahead
  <2> QED
    BY <1>1, <2>1, <2>2, <2>3
<1> QED
  BY <1>3, <1>8, <1>9, <1>10 DEF QueueInv, OneSideEffect

LEMMA ProposeKeepsQueue ==
  ASSUME IInv, QueueInv, NEW t \in Tickets, Propose(t)
  PROVE  QueueInv'
<1>1. /\ stage \in [Tickets -> Stages] /\ tail \in Seq(Tickets)
      /\ stage[t] = "free" /\ stage' = [stage EXCEPT ![t] = "queued"]
      /\ tail' = Append(tail, t)
  BY DEF IInv, StateType, QueueInv, Propose
<1>2. /\ tail' \in Seq(Tickets) /\ Len(tail') = Len(tail) + 1
      /\ tail'[Len(tail) + 1] = t
      /\ \A i \in DOMAIN tail : tail'[i] = tail[i] /\ i \in DOMAIN tail'
      /\ \A i \in DOMAIN tail' : i \in DOMAIN tail \/ i = Len(tail) + 1
      /\ Len(tail) + 1 \in DOMAIN tail'
  BY <1>1
<1>3. \A i \in DOMAIN tail : tail[i] \in Tickets /\ tail[i] # t
  <2>1. \A i \in DOMAIN tail : stage[tail[i]] \notin {"free", "ended"} /\ tail[i] \in Tickets
    BY DEF QueueInv, OneSideEffect
  <2> QED
    BY <1>1, <2>1
<1>4. {tail'[i] : i \in DOMAIN tail'} = {tail[i] : i \in DOMAIN tail} \cup {t}
  BY <1>2
<1>5. {u \in Tickets : stage'[u] \notin {"free", "ended"}}
        = {u \in Tickets : stage[u] \notin {"free", "ended"}} \cup {t}
  BY <1>1
<1>6. {tail'[i] : i \in DOMAIN tail'} = {u \in Tickets : stage'[u] \notin {"free", "ended"}}
  BY <1>4, <1>5 DEF QueueInv, OneSideEffect
<1>7. \A i, j \in DOMAIN tail' : tail'[i] = tail'[j] => i = j
  <2>1. \A i, j \in DOMAIN tail : tail[i] = tail[j] => i = j
    BY DEF QueueInv, OneSideEffect
  <2> QED
    BY <1>2, <1>3, <2>1
<1>8. ASSUME NEW i \in DOMAIN tail', i > 1 PROVE stage'[tail'[i]] = "queued"
  <2>1. CASE i = Len(tail) + 1
    BY <1>1, <1>2, <2>1
  <2>2. CASE i \in DOMAIN tail
    <3>1. stage[tail[i]] = "queued"
      BY <1>8, <2>2 DEF QueueInv, OneSideEffect
    <3> QED
      BY <1>1, <1>2, <1>3, <2>2, <3>1
  <2> QED
    BY <1>2, <2>1, <2>2
<1> QED
  BY <1>2, <1>6, <1>7, <1>8 DEF QueueInv, OneSideEffect

(* At most one ticket is pending, so a cancellation ends the head or       *)
(* nothing.                                                                *)
LEMMA CancelKeepsQueue ==
  ASSUME IInv, QueueInv, NEW R, SettleCancelled(R)
  PROVE  QueueInv'
<1> DEFINE hit == {t \in Pending : RunOf[t] \in R}
<1>1. stage \in [Tickets -> Stages]
  BY DEF IInv, StateType
<1>2. /\ stage' = [t \in Tickets |-> IF t \in hit THEN "ended" ELSE stage[t]]
      /\ tail' = IF hit = {} THEN tail ELSE Tail(tail)
  BY DEF SettleCancelled
<1>3. \A t \in hit : t \in Tickets /\ Ahead(t)
  BY DEF Pending, Ahead
<1> HIDE DEF hit
<1>4. CASE hit = {}
  <2>1. stage' = stage /\ tail' = tail
    BY <1>1, <1>2, <1>4
  <2> QED
    BY <2>1 DEF QueueInv, OneSideEffect
<1>5. ASSUME NEW t \in hit PROVE QueueInv'
  <2>1. hit = {t}
    BY <1>3, <1>5, AheadIsHead
  <2>2. stage' = [stage EXCEPT ![t] = "ended"] /\ tail' = Tail(tail)
    BY <1>1, <1>2, <2>1
  <2> QED
    BY <1>3, <2>2, EndKeepsQueue
<1> QED
  BY <1>4, <1>5

LEMMA HostKeepsQueue ==
  ASSUME IInv, QueueInv, NEW t \in Tickets, HostStep(t)
  PROVE  QueueInv'
<1>1. stage \in [Tickets -> Stages] /\ stage = [stage EXCEPT ![t] = stage[t]]
  BY DEF IInv, StateType
<1>2. ASSUME Ahead(t), NEW d, Settle(t, d) PROVE QueueInv'
  <2>1. CASE d = "approved"
    BY <1>2, <2>1, MoveKeepsQueue DEF Settle, Stages
  <2>2. CASE d # "approved"
    BY <1>2, <2>2, EndKeepsQueue DEF Settle, End
  <2> QED
    BY <2>1, <2>2
<1>3. CASE Begin(t)
  BY <1>3, MoveKeepsQueue DEF Begin, IsNextInQueue, Stages
<1>4. CASE ToolFails(t) \/ DecideCancelled(t) \/ DropEffect(t) \/ RefuseEffect(t) \/ EndEffect(t)
  BY <1>4, EndKeepsQueue
  DEF ToolFails, DecideCancelled, DropEffect, RefuseEffect, EndEffect, End, Ahead
<1>5. CASE RequestFails(t) \/ TimerFires(t) \/ \E d \in {"approved", "denied"} : DecideByPolicy(t, d)
  BY <1>2, <1>5 DEF RequestFails, TimerFires, DecideByPolicy, Ahead
<1>6. CASE Request(t)
  <2>1. Ahead(t)
    BY <1>6 DEF Request, Ahead
  <2>2. \/ stage' = [stage EXCEPT ![t] = "ended"] /\ tail' = Tail(tail)
        \/ stage' = [stage EXCEPT ![t] = "pending"] /\ tail' = tail
    BY <1>6 DEF Request, End
  <2> QED
    BY <2>1, <2>2, EndKeepsQueue, MoveKeepsQueue DEF Stages
<1>7. CASE StartEffect(t)
  BY <1>7, MoveKeepsQueue DEF StartEffect, Ahead, Stages
<1> QED
  BY <1>3, <1>4, <1>5, <1>6, <1>7 DEF HostStep

(* Side effects exclude one another: the queue lists the calls that are    *)
(* not over, each once, and all but its head wait; so the broker never     *)
(* holds two tickets (serializeSideEffect).                                *)
THEOREM SideEffectsExclude == Spec => []OneSideEffect
<1>1. IInv /\ QueueInv /\ [Next]_vars => QueueInv'
  <2> SUFFICES ASSUME IInv, QueueInv, [Next]_vars PROVE QueueInv'
    OBVIOUS
  <2>1. ASSUME UNCHANGED <<stage, tail>> PROVE QueueInv'
    BY <2>1 DEF QueueInv, OneSideEffect
  <2>2. CASE Reload \/ CreateWindow \/ Tick \/ UNCHANGED vars \/ \E r \in Runs : StartRun(r)
    BY <2>1, <2>2 DEF Reload, CreateWindow, Tick, vars, StartRun
  <2>3. CASE DestroyWindow \/ \E r \in Runs : CancelRun(r) \/ EmitEvent(r) \/ EndRun(r)
    BY <2>3, CancelKeepsQueue DEF DestroyWindow, CancelRun, EmitEvent, EndRun
  <2>4. ASSUME NEW t \in Tickets, NEW d \in {"approved", "denied"}, Resolve(t, d) PROVE QueueInv'
    <3>1. Ahead(t)
      BY <2>4 DEF Resolve, Ahead
    <3>2. \/ stage' = [stage EXCEPT ![t] = "approved"] /\ tail' = tail
          \/ stage' = [stage EXCEPT ![t] = "ended"] /\ tail' = Tail(tail)
      BY <2>4 DEF Resolve, Settle, End
    <3> QED
      BY <3>1, <3>2, EndKeepsQueue, MoveKeepsQueue DEF Stages
  <2> QED
    BY <2>2, <2>3, <2>4, ProposeKeepsQueue, HostKeepsQueue DEF Next
<1>2. QueueInv => OneSideEffect
  BY DEF QueueInv
<1> QED
  BY Inductive, QueueInitially, <1>1, <1>2, PTL DEF Spec

-----------------------------------------------------------------------------
(* The settings store (SettingsStore).  While a mutation is written, what  *)
(* it is about to show follows from what is shown by one operation of the  *)
(* contract; a row is created only by the request that drew its id; and a  *)
(* ciphertext is replaced by one of the same key.                          *)

Requested ==
  [kind : {"idle"}]
  \cup [kind : {"save"}, p : Ids, new : BOOLEAN, url : Urls, driver : Drivers,
        key : Keys \cup {"keep", "clear"}]
  \cup [kind : {"remove"}, p : Ids]
  \cup [kind : {"settings"}, active : Ids \cup {None}, change : [Preferences -> {0, 1}]]
  \cup [kind : {"field"}, f : Fields, v : {0, 1}]
  \cup [kind : {"read"}, p : Ids, row : Row]
  \cup [kind : {"replace"}, p : Ids, generation : 1 .. MaxGeneration, old : Cipher, new : Cipher]

RequestInv ==
  /\ call \in [Callers -> Requested]
  /\ \A c \in Callers : /\ call[c].kind = "read" => call[c].row.cipher # NoCipher
                        /\ call[c].kind = "replace" => call[c].new.text = call[c].old.text

\* The caller that is to create the provider whose id it drew.
Creates(c) == call[c].kind = "save" /\ call[c].new

DrawnInv ==
  /\ \A p \in Ids : Exists(file.data, p) \/ Exists(cache, p) \/ Exists(draft.data, p) => p \in drawn
  /\ \A c \in Callers : Creates(c) =>
       /\ call[c].p \in drawn /\ ~Exists(cache, call[c].p)
       /\ Exists(draft.data, call[c].p) => queue # <<>> /\ Head(queue) = c
       /\ \A d \in Callers : Creates(d) /\ d # c => call[d].p # call[c].p

(* One operation of the contract, between two values of the settings.      *)
Follows(old, new) ==
  \/ new = old
  \/ \E p \in Ids, row \in Promise!Row :
       /\ row.generation = old.providers[p].generation + 1
       /\ new = [old EXCEPT !.providers[p] = row]
  \/ \E p \in Ids :
       new = [old EXCEPT !.providers[p] = Promise!NoRow, !.active = IF @ = p THEN None ELSE @]
  \/ \E active \in Ids \cup {None}, S \in SUBSET Fields :
       \E change \in [S -> {0, 1}] :
         /\ active # None => old.providers[active] # Promise!NoRow
         /\ new = [old EXCEPT !.active = active,
                              !.values = [f \in Fields |-> IF f \in S THEN change[f] ELSE @[f]]]
  \/ \E f \in Fields, v \in {0, 1} : new = [old EXCEPT !.values[f] = v]

DraftInv ==
  /\ phase # "ready" => draft = NoDraft /\ queue = <<>> /\ \A c \in Callers : call[c] = Idle
  /\ draft.stage = "none" => draft = NoDraft
  /\ draft.stage # "none" => queue # <<>> /\ Follows(Clear(cache), Clear(draft.data))
  /\ phase \in {"migrating", "ready"} =>
       Loaded(file) = IF draft.stage = "renamed" THEN draft.data ELSE cache

SettingsInv == SettingsTypeOK /\ RequestInv /\ DrawnInv /\ DraftInv

-----------------------------------------------------------------------------
(* What a value of the settings shows.                                     *)
LEMMA RowFields ==
  /\ NoRow \notin Row /\ NoCipher \notin Cipher /\ NoRow.cipher = NoCipher /\ NoRow.generation = 0
  /\ NoCipher.text = None
  /\ \A row \in Row : /\ row.generation \in 1 .. MaxGeneration
                      /\ row.url \in Urls /\ row.driver \in Drivers
                      /\ row.cipher \in Cipher \cup {NoCipher} /\ row # NoRow
  /\ \A x \in Cipher : x.text \in Keys
<1>1. \A x \in Cipher : x.text \in Keys /\ x.format # None
  BY DEF Cipher, None
<1>2. NoCipher.format = None /\ NoCipher.text = None
  BY DEF NoCipher
<1>3. NoRow.cipher = NoCipher /\ NoRow.generation = 0
  BY DEF NoRow
<1>4. \A row \in Row : /\ row.generation \in 1 .. MaxGeneration
                       /\ row.url \in Urls /\ row.driver \in Drivers
                       /\ row.cipher \in Cipher \cup {NoCipher}
  BY DEF Row
<1>5. 0 \notin 1 .. MaxGeneration
  BY SettingsAssumption
<1>6. QED BY <1>1, <1>2, <1>3, <1>4, <1>5

Shown(row) == [url |-> row.url, driver |-> row.driver, generation |-> row.generation,
               key |-> row.cipher.text]

LEMMA ShownRow ==
  /\ Shown(NoRow) = Promise!NoRow /\ Promise!NoRow \notin Promise!Row
  /\ \A row \in Row : Shown(row) \in Promise!Row
<1>1. Shown(NoRow) = Promise!NoRow
  BY DEF Shown, NoRow, NoCipher, Promise!NoRow, Promise!None, None
<1>2. ASSUME NEW row \in Row PROVE Shown(row) \in Promise!Row
  BY RowFields DEF Shown, Promise!Row, Promise!None, None
<1>3. Promise!NoRow \notin Promise!Row
  BY SettingsAssumption DEF Promise!NoRow, Promise!Row
<1>4. QED BY <1>1, <1>2, <1>3

LEMMA ClearMeans ==
  ASSUME NEW data \in Settings
  PROVE  /\ Clear(data) = [providers |-> [p \in Ids |-> Shown(data.providers[p])],
                           active |-> data.active, values |-> data.values]
         /\ \A p \in Ids : /\ data.providers[p] \in Row \cup {NoRow}
                           /\ Exists(data, p) <=> Clear(data).providers[p] # Promise!NoRow
                           /\ Exists(data, p) <=> data.providers[p] \in Row
                           /\ Clear(data).providers[p].generation = data.providers[p].generation
         /\ Clear(data) \in Promise!Settings
<1>1. Clear(data) = [providers |-> [p \in Ids |-> Shown(data.providers[p])],
                     active |-> data.active, values |-> data.values]
  BY DEF Clear, Settings, Shown
<1>2. \A p \in Ids : data.providers[p] \in Row \cup {NoRow}
  BY DEF Settings
<1>3. \A p \in Ids : Exists(data, p) <=> data.providers[p] \in Row
  BY <1>2, RowFields DEF Exists
<1>4. \A p \in Ids : Exists(data, p) <=> Clear(data).providers[p] # Promise!NoRow
  BY <1>1, <1>2, <1>3, ShownRow DEF Exists
<1>5. Clear(data) \in Promise!Settings
  BY <1>1, <1>2, ShownRow DEF Settings, Promise!Settings, Promise!None, None
<1>6. \A p \in Ids : Clear(data).providers[p].generation = data.providers[p].generation
  BY <1>1 DEF Shown
<1>7. QED BY <1>1, <1>2, <1>3, <1>4, <1>5, <1>6

(* A row that is put in the place of another.                              *)
LEMMA RowPut ==
  ASSUME NEW data \in Settings, NEW p \in Ids, NEW row \in Row \cup {NoRow}
  PROVE  LET put == [data EXCEPT !.providers[p] = row]
         IN  /\ put \in Settings
             /\ Clear(put) = [Clear(data) EXCEPT !.providers[p] = Shown(row)]
             /\ \A q \in Ids : q # p => (Exists(put, q) <=> Exists(data, q))
             /\ Exists(put, p) <=> row # NoRow
<1> DEFINE put == [data EXCEPT !.providers[p] = row]
<1>1. /\ put \in Settings /\ put.active = data.active /\ put.values = data.values
      /\ put.providers = [data.providers EXCEPT ![p] = row]
      /\ data.providers \in [Ids -> Row \cup {NoRow}]
  BY DEF Settings
<1> HIDE DEF put
<1>2. \A q \in Ids : put.providers[q] = IF q = p THEN row ELSE data.providers[q]
  BY <1>1
<1>3. Clear(put) = [Clear(data) EXCEPT !.providers[p] = Shown(row)]
  <2>1. [q \in Ids |-> Shown(put.providers[q])]
          = [[q \in Ids |-> Shown(data.providers[q])] EXCEPT ![p] = Shown(row)]
    BY <1>2
  <2>2. QED BY <1>1, <2>1, ClearMeans
<1>4. QED BY <1>1, <1>2, <1>3 DEF Exists, put

(* A key that is sealed again is the same key.                             *)
LEMMA Sealed ==
  ASSUME SettingsTypeOK, NEW text \in Keys, NEW p \in Ids, NEW url \in Urls,
         NEW generation \in 1 .. MaxGeneration
  PROVE  /\ Seal(text, p, url, generation) \in Cipher
         /\ Seal(text, p, url, generation).text = text
<1>1. build.keyId \in Nat
  BY SettingsAssumption DEF SettingsTypeOK
<1>2. [id |-> p, url |-> url, generation |-> generation] \in Context
  BY DEF Context
<1>3. QED BY <1>1, <1>2 DEF Seal, Cipher

LEMMA Resealed ==
  ASSUME NEW data \in Settings, NEW p \in Ids, data.providers[p] \in Row,
         NEW x \in Cipher, x.text = data.providers[p].cipher.text
  PROVE  LET put == [data EXCEPT !.providers[p].cipher = x]
         IN  /\ put \in Settings /\ Clear(put) = Clear(data)
             /\ \A q \in Ids : Exists(put, q) <=> Exists(data, q)
<1> DEFINE row == [data.providers[p] EXCEPT !.cipher = x]
           put == [data EXCEPT !.providers[p] = row]
<1>1. row \in Row /\ Shown(row) = Shown(data.providers[p])
  BY DEF Row, Shown
<1>2. put = [data EXCEPT !.providers[p].cipher = x]
  BY DEF Settings
<1> HIDE DEF row
<1>3. /\ put \in Settings
      /\ Clear(put) = [Clear(data) EXCEPT !.providers[p] = Shown(row)]
      /\ \A q \in Ids : q # p => (Exists(put, q) <=> Exists(data, q))
      /\ Exists(put, p) <=> row # NoRow
  BY <1>1, RowPut
<1>4. Clear(put) = Clear(data)
  BY <1>1, <1>3, ClearMeans
<1>5. Exists(put, p) /\ Exists(data, p)
  BY <1>1, <1>3, RowFields, ClearMeans
<1> HIDE DEF put
<1>6. QED BY <1>2, <1>3, <1>4, <1>5

-----------------------------------------------------------------------------
(* The file.                                                               *)
LEMMA DefaultsTyped ==
  Defaults \in Settings /\ (\A p \in Ids : ~Exists(Defaults, p))
BY DEF Defaults, Settings, Exists

LEMMA LoadedMeans ==
  ASSUME NEW f \in [state : {"missing", "corrupt", "written"}, version : 1 .. Current,
                    data : Settings]
  PROVE  /\ Loaded(f) \in Settings
         /\ \A p \in Ids : Exists(Loaded(f), p) => Exists(f.data, p)
         /\ f.state # "written" => Loaded(f) = Defaults
<1>1. CASE f.state # "written"
  BY <1>1, DefaultsTyped DEF Loaded
<1>2. CASE f.state = "written"
  <2>1. Loaded(f).providers = f.data.providers
    BY <1>2 DEF Loaded, Settings
  <2>2. Loaded(f) \in Settings
    BY <1>2 DEF Loaded, Settings
  <2>3. QED BY <1>2, <2>1, <2>2 DEF Exists
<1>3. QED BY <1>1, <1>2

LEMMA LoadedWritten ==
  ASSUME NEW data \in Settings
  PROVE  /\ Loaded(Written(data)) = data /\ Written(data).data = data
         /\ Written(data) \in [state : {"missing", "corrupt", "written"}, version : 1 .. Current,
                               data : Settings]
<1>1. \A x \in Fields : Since[x] <= Current
  BY SettingsAssumption DEF Since, Current
<1>2. [x \in Fields |-> IF Since[x] <= Current THEN data.values[x] ELSE 0] = data.values
  BY <1>1 DEF Settings
<1>3. Loaded(Written(data)) = data
  BY <1>2 DEF Loaded, Written, Settings
<1>4. QED BY <1>3 DEF Written, Current

LEMMA LeftIsTyped ==
  ASSUME NEW f \in LegacyFile
  PROVE  f \in [state : {"missing", "corrupt", "written"}, version : 1 .. Current, data : Settings]
<1> DEFINE ciphers == {NoCipher} \cup [format : {"sync", "async"}, keyId : {0}, text : Keys,
                                       context : {NoContext}]
           rows == {NoRow} \cup [url : Urls, driver : Drivers, generation : {1}, cipher : ciphers]
<1>1. ciphers \subseteq Cipher \cup {NoCipher}
  BY DEF Cipher
<1> HIDE DEF ciphers
<1>2. rows \subseteq Row \cup {NoRow}
  BY <1>1, SettingsAssumption DEF Row
<1>3. f \in [state : {"written"}, version : 1 .. Current,
             data : {data \in [providers : [Ids -> rows], active : Ids \cup {None},
                               values : [Fields -> {0, 1}]] :
                       data.active = None \/ Exists(data, data.active)}]
  BY DEF LegacyFile, ciphers
<1> HIDE DEF rows
<1>4. f.data \in [providers : [Ids -> rows], active : Ids \cup {None}, values : [Fields -> {0, 1}]]
  BY <1>3
<1>5. f.data \in Settings
  BY <1>2, <1>4 DEF Settings
<1>6. QED BY <1>3, <1>5

-----------------------------------------------------------------------------
(* A mutation that is made: what it is going to show follows from what is  *)
(* shown, and only its own id is new.                                      *)
Made(c, data) ==
  /\ data \in Settings /\ Follows(Clear(cache), Clear(data))
  /\ \A p \in Ids : Exists(data, p) => Exists(cache, p) \/ (Creates(c) /\ p = call[c].p)

LEMMA SaveProviderMeans ==
  ASSUME SettingsInv, NEW c \in Callers, SaveProvider(c)
  PROVE  \E data \in Settings : Made(c, data) /\ Make(data)
<1> DEFINE op == call[c]
           old == cache.providers[op.p]
           changed == ~op.new /\ IdentityChanged(old, op)
           generation == IF op.new THEN 1 ELSE old.generation + (IF changed THEN 1 ELSE 0)
           kept == op.key = "keep" /\ old.url = op.url /\ old.cipher # NoCipher
           cipher == IF op.key \in Keys THEN Seal(op.key, op.p, op.url, generation)
                     ELSE IF kept /\ ~changed THEN old.cipher
                     ELSE IF kept THEN Seal(old.cipher.text, op.p, op.url, generation)
                     ELSE NoCipher
           row == [url |-> op.url, driver |-> op.driver, generation |-> generation,
                   cipher |-> cipher]
           data == [cache EXCEPT !.providers[op.p] = row]
<1>1. /\ op.kind = "save" /\ (~op.new => Exists(cache, op.p)) /\ generation <= MaxGeneration
      /\ Make(data)
  BY DEF SaveProvider, Turn
<1>2. /\ op.p \in Ids /\ op.new \in BOOLEAN /\ op.url \in Urls /\ op.driver \in Drivers
      /\ op.key \in Keys \cup {"keep", "clear"}
  BY <1>1 DEF SettingsInv, RequestInv, Requested
<1>3. op.new => ~Exists(cache, op.p)
  BY <1>1 DEF SettingsInv, DrawnInv, Creates
<1>4. cache \in Settings /\ old \in Row \cup {NoRow} /\ (Exists(cache, op.p) <=> old \in Row)
  BY <1>2, ClearMeans DEF SettingsInv, SettingsTypeOK
<1>5. generation \in 1 .. MaxGeneration
  BY <1>1, <1>2, <1>4, RowFields
<1>6. old.cipher \in Cipher \cup {NoCipher} /\ NoCipher \notin Cipher
  BY <1>4, RowFields
<1> HIDE DEF op
<1>7. cipher \in Cipher \cup {NoCipher}
  <2>1. \A text \in Keys : Seal(text, op.p, op.url, generation) \in Cipher
    BY <1>2, <1>5, Sealed DEF SettingsInv
  <2>2. kept => old.cipher.text \in Keys
    BY <1>6, RowFields
  <2> HIDE DEF generation, old, changed
  <2>3. QED BY <1>6, <2>1, <2>2
<1>8. row \in Row
  <2> HIDE DEF generation, cipher
  <2>1. QED BY <1>2, <1>5, <1>7 DEF Row
<1>9. Shown(row) = Shown(old) \/ generation = old.generation + 1
  <2>1. CASE op.new
    BY <1>2, <1>3, <1>4, <2>1, RowFields
  <2>2. CASE ~op.new /\ changed
    BY <2>2
  <2>3. CASE ~op.new /\ ~changed
    <3>1. old.url = op.url /\ old.driver = op.driver /\ op.key \notin Keys
          /\ (op.key = "clear" => old.cipher = NoCipher)
      BY <2>3 DEF IdentityChanged
    <3>2. cipher = old.cipher
      BY <1>2, <2>3, <3>1
    <3>3. generation = old.generation
      BY <1>1, <1>2, <1>4, <2>3, RowFields
    <3>4. row.url = old.url /\ row.driver = old.driver /\ row.generation = old.generation
          /\ row.cipher = old.cipher
      BY <3>1, <3>2, <3>3
    <3> HIDE DEF row, old
    <3>5. QED BY <3>4 DEF Shown
  <2>4. QED BY <1>2, <2>1, <2>2, <2>3
<1>10. row.generation = generation /\ Shown(row).generation = generation
  BY DEF Shown
<1> HIDE DEF row, generation
<1>11. /\ data \in Settings /\ Clear(data) = [Clear(cache) EXCEPT !.providers[op.p] = Shown(row)]
       /\ \A q \in Ids : q # op.p => (Exists(data, q) <=> Exists(cache, q))
  BY <1>2, <1>4, <1>8, RowPut
<1>12. Follows(Clear(cache), Clear(data))
  <2> HIDE DEF data
  <2>1. CASE Shown(row) = Shown(old)
    <3>1. Clear(data) = Clear(cache)
      BY <1>2, <1>4, <1>11, <2>1, ClearMeans
    <3>2. QED BY <3>1 DEF Follows
  <2>2. CASE generation = old.generation + 1
    <3>1. Shown(row) \in Promise!Row
      BY <1>8, ShownRow
    <3>2. Shown(row).generation = Clear(cache).providers[op.p].generation + 1
      BY <1>2, <1>4, <1>10, <2>2, ClearMeans
    <3>3. QED BY <1>2, <1>11, <3>1, <3>2 DEF Follows
  <2>3. QED BY <1>9, <2>1, <2>2
<1>13. \A p \in Ids : Exists(data, p) => Exists(cache, p) \/ (Creates(c) /\ p = call[c].p)
  <2>1. Creates(c) \/ Exists(cache, op.p)
    BY <1>1, <1>2 DEF Creates, op
  <2> HIDE DEF data
  <2>2. QED BY <1>11, <2>1 DEF op
<1> HIDE DEF data
<1>14. QED BY <1>1, <1>11, <1>12, <1>13 DEF Made

LEMMA RemoveProviderMeans ==
  ASSUME SettingsInv, NEW c \in Callers, RemoveProvider(c)
  PROVE  \E data \in Settings : Made(c, data) /\ Make(data)
<1> DEFINE p == call[c].p
           without == [cache EXCEPT !.providers[p] = NoRow]
           data == [cache EXCEPT !.providers[p] = NoRow, !.active = IF @ = p THEN None ELSE @]
<1>1. p \in Ids /\ Make(data)
  BY DEF RemoveProvider, Turn, SettingsInv, RequestInv, Requested
<1>2. cache \in Settings
  BY DEF SettingsInv, SettingsTypeOK
<1> HIDE DEF p
<1>3. /\ without \in Settings
      /\ Clear(without) = [Clear(cache) EXCEPT !.providers[p] = Promise!NoRow]
      /\ \A q \in Ids : q # p => (Exists(without, q) <=> Exists(cache, q))
      /\ ~Exists(without, p)
  BY <1>1, <1>2, RowPut, ShownRow
<1>4. without.active = cache.active /\ data = [without EXCEPT !.active = IF @ = p THEN None ELSE @]
  BY <1>2 DEF Settings
<1> HIDE DEF without, data
<1>5. data \in Settings /\ data.providers = without.providers /\ data.values = without.values
      /\ data.active = IF cache.active = p THEN None ELSE cache.active
  BY <1>3, <1>4 DEF Settings
<1>6. Clear(data) = [Clear(cache) EXCEPT !.providers[p] = Promise!NoRow,
                                         !.active = IF @ = p THEN None ELSE @]
  <2>1. Clear(data) = [Clear(without) EXCEPT !.active = data.active]
    <3>1. Clear(data) = [providers |-> [q \in Ids |-> Shown(data.providers[q])],
                         active |-> data.active, values |-> data.values]
      BY <1>5, ClearMeans
    <3>2. Clear(without) = [providers |-> [q \in Ids |-> Shown(without.providers[q])],
                            active |-> without.active, values |-> without.values]
      BY <1>3, ClearMeans
    <3>3. QED BY <1>5, <3>1, <3>2
  <2>2. Clear(cache).active = cache.active
    BY <1>2, ClearMeans
  <2>3. QED BY <1>2, <1>3, <1>5, <2>1, <2>2, ClearMeans
<1>7. Follows(Clear(cache), Clear(data))
  BY <1>1, <1>6 DEF Follows, Promise!None, None
<1>8. \A q \in Ids : Exists(data, q) => Exists(cache, q)
  BY <1>3, <1>5 DEF Exists
<1>9. QED BY <1>1, <1>5, <1>7, <1>8 DEF Made

LEMMA SaveSettingsMeans ==
  ASSUME SettingsInv, NEW c \in Callers, SaveSettings(c) \/ SaveField(c)
  PROVE  \E data \in Settings : Made(c, data) /\ Make(data)
<1>1. cache \in Settings
  BY DEF SettingsInv, SettingsTypeOK
<1>2. CASE SaveSettings(c)
  <2> DEFINE active == call[c].active
             change == call[c].change
             values == [f \in Fields |-> IF f \in Preferences THEN change[f] ELSE cache.values[f]]
             data == [cache EXCEPT !.active = active, !.values = values]
  <2>1. active \in Ids \cup {None} /\ change \in [Preferences -> {0, 1}]
    BY <1>2 DEF SaveSettings, Turn, SettingsInv, RequestInv, Requested
  <2>2. Make(data)
    BY <1>1, <1>2 DEF SaveSettings, Settings
  <2>3. data.active # None => Exists(data, data.active)
    BY <2>2 DEF Make
  <2> HIDE DEF active, change
  <2>4. values \in [Fields -> {0, 1}]
    BY <1>1, <2>1 DEF Settings
  <2> HIDE DEF values
  <2>5. data \in Settings /\ data.providers = cache.providers /\ data.values = values
        /\ data.active = active
    BY <1>1, <2>1, <2>4 DEF Settings
  <2> HIDE DEF data
  <2>6. Clear(data) = [Clear(cache) EXCEPT !.active = active, !.values = values]
    <3>1. Clear(data) \in Promise!Settings /\ Clear(cache) \in Promise!Settings
      BY <1>1, <2>5, ClearMeans
    <3>2. /\ Clear(data).active = active /\ Clear(data).values = values
          /\ Clear(data).providers = Clear(cache).providers
      BY <1>1, <2>5, ClearMeans
    <3>3. active \in Ids \cup {Promise!None}
      BY <2>1 DEF None, Promise!None
    <3>4. QED BY <2>4, <3>1, <3>2, <3>3 DEF Promise!Settings
  <2>7. active # None => Clear(cache).providers[active] # Promise!NoRow
    BY <1>1, <2>1, <2>3, <2>5, ClearMeans DEF Exists
  <2>8. Clear(cache).values = cache.values
    BY <1>1, ClearMeans
  <2>9. Preferences \in SUBSET Fields
    BY DEF Preferences
  <2>10. Clear(data) = [Clear(cache) EXCEPT !.active = active,
             !.values = [f \in Fields |-> IF f \in Preferences THEN change[f] ELSE @[f]]]
    BY <2>6, <2>8 DEF values
  <2>11. Follows(Clear(cache), Clear(data))
    <3>1. \E choice \in [Preferences -> {0, 1}] :
            /\ active # None => Clear(cache).providers[active] # Promise!NoRow
            /\ Clear(data) = [Clear(cache) EXCEPT !.active = active,
                 !.values = [f \in Fields |-> IF f \in Preferences THEN choice[f] ELSE @[f]]]
      BY <2>1, <2>7, <2>10
    <3>2. QED BY <2>1, <2>9, <3>1 DEF Follows
  <2>12. \A p \in Ids : Exists(data, p) => Exists(cache, p)
    BY <2>5 DEF Exists
  <2>13. QED BY <2>2, <2>5, <2>11, <2>12 DEF Made
<1>3. CASE SaveField(c)
  <2> DEFINE f == call[c].f
             v == call[c].v
             data == [cache EXCEPT !.values[f] = v]
  <2>1. f \in Fields /\ v \in {0, 1} /\ Make(data)
    BY <1>3 DEF SaveField, Turn, SettingsInv, RequestInv, Requested
  <2> HIDE DEF f, v
  <2>2. data \in Settings /\ data.providers = cache.providers /\ data.active = cache.active
        /\ data.values = [cache.values EXCEPT ![f] = v]
    BY <1>1, <2>1 DEF Settings
  <2> HIDE DEF data
  <2>3. Clear(data) = [Clear(cache) EXCEPT !.values[f] = v]
    BY <1>1, <2>2, ClearMeans
  <2>4. Follows(Clear(cache), Clear(data))
    BY <2>1, <2>3 DEF Follows
  <2>5. \A p \in Ids : Exists(data, p) => Exists(cache, p)
    BY <2>2 DEF Exists
  <2>6. QED BY <2>1, <2>2, <2>4, <2>5 DEF Made
<1>4. QED BY <1>2, <1>3

LEMMA ReplaceCipherMeans ==
  ASSUME SettingsInv, NEW c \in Callers, ReplaceCipher(c)
  PROVE  \E data \in Settings : Made(c, data) /\ Make(data)
<1> DEFINE op == call[c]
           row == cache.providers[op.p]
           data == [cache EXCEPT !.providers[op.p].cipher = op.new]
<1>1. op.kind = "replace" /\ op.p \in Ids /\ op.new \in Cipher /\ op.new.text = op.old.text
  BY DEF ReplaceCipher, Turn, SettingsInv, RequestInv, Requested
<1>2. cache \in Settings
  BY DEF SettingsInv, SettingsTypeOK
<1>3. Make(IF Exists(cache, op.p) /\ row.generation = op.generation /\ row.cipher = op.old
           THEN data ELSE cache)
  BY DEF ReplaceCipher
<1> HIDE DEF op
<1>4. CASE Exists(cache, op.p) /\ row.generation = op.generation /\ row.cipher = op.old
  <2>1. row \in Row
    BY <1>1, <1>2, <1>4, ClearMeans
  <2>2. data \in Settings /\ Clear(data) = Clear(cache)
        /\ \A q \in Ids : Exists(data, q) <=> Exists(cache, q)
    BY <1>1, <1>2, <1>4, <2>1, Resealed
  <2>3. Made(c, data) /\ Make(data)
    BY <1>3, <1>4, <2>2 DEF Made, Follows
  <2>4. QED BY <2>2, <2>3
<1>5. CASE ~(Exists(cache, op.p) /\ row.generation = op.generation /\ row.cipher = op.old)
  <2>1. Made(c, cache) /\ Make(cache)
    BY <1>2, <1>3, <1>5 DEF Made, Follows
  <2>2. QED BY <1>2, <2>1
<1>6. QED BY <1>4, <1>5

LEMMA MutateMeans ==
  ASSUME SettingsInv, NEW c \in Callers, Mutate(c)
  PROVE  /\ \E data \in Settings : Made(c, data) /\ Make(data)
         /\ queue # <<>> /\ Head(queue) = c /\ draft = NoDraft
<1>1. queue # <<>> /\ Head(queue) = c /\ draft = NoDraft
  BY DEF Mutate, SaveProvider, RemoveProvider, SaveSettings, SaveField, ReplaceCipher, Turn
<1>2. QED BY <1>1, SaveProviderMeans, RemoveProviderMeans, SaveSettingsMeans, ReplaceCipherMeans
             DEF Mutate

-----------------------------------------------------------------------------
(* The invariant holds at first and is kept by every step.                 *)
LEMMA SettingsBegin == SettingsInit => SettingsInv
<1> SUFFICES ASSUME SettingsInit PROVE SettingsInv
  OBVIOUS
<1>1. file \in [state : {"missing", "corrupt", "written"}, version : 1 .. Current, data : Settings]
  <2>1. CASE file \in Installed
    BY <2>1, LeftIsTyped, SettingsAssumption
  <2>2. CASE file \in [state : {"missing", "corrupt"}, version : {Current}, data : {Defaults}]
    BY <2>2, DefaultsTyped DEF Current
  <2>3. QED BY <2>1, <2>2 DEF SettingsInit
<1>2. SettingsTypeOK
  <2>1. draft \in [stage : {"none", "made", "renamed"}, data : Settings] /\ cache \in Settings
    BY DefaultsTyped DEF SettingsInit, NoDraft
  <2>2. drawn \subseteq Ids /\ queue \in Seq(Callers)
        /\ failures \in [Ids -> Cipher \cup {NoCipher}]
    BY DEF SettingsInit
  <2>3. QED BY <1>1, <2>1, <2>2, SettingsAssumption DEF SettingsInit, SettingsTypeOK
<1>3. RequestInv
  BY DEF SettingsInit, RequestInv, Requested, Idle
<1>4. DrawnInv
  <2>1. \A c \in Callers : ~Creates(c)
    BY DEF SettingsInit, Creates, Idle
  <2>2. QED BY <2>1, DefaultsTyped DEF SettingsInit, DrawnInv, NoDraft
<1>5. DraftInv
  BY DEF SettingsInit, DraftInv, NoDraft
<1>6. QED BY <1>2, <1>3, <1>4, <1>5 DEF SettingsInv

LEMMA BootKeeps ==
  ASSUME SettingsInv, Start \/ Boot \/ Stop \/ Migrated
  PROVE  SettingsInv' /\ Clear(Loaded(file))' = Clear(Loaded(file))
<1> USE DEF SettingsInv
<1>1. CASE Start \/ Migrated
  <2>1. UNCHANGED <<file, cache, tried, failures, call, queue, draft, drawn, requests, stops>>
        /\ build' \in Builds /\ phase' \in {"booting", "ready"} /\ phase \in {"down", "migrating"}
        /\ (phase' = "ready" => phase = "migrating")
    BY <1>1 DEF Start, Migrated, memory, SettingsTypeOK
  <2>2. SettingsTypeOK'
    BY <2>1 DEF SettingsTypeOK
  <2>3. RequestInv' /\ DrawnInv'
    BY <2>1 DEF RequestInv, DrawnInv, Creates
  <2>4. DraftInv' /\ Clear(Loaded(file))' = Clear(Loaded(file))
    BY <2>1 DEF DraftInv
  <2>5. QED BY <2>2, <2>3, <2>4
<1>2. CASE Boot
  <2>1. /\ UNCHANGED <<build, tried, failures, call, queue, draft, drawn, requests, stops>>
        /\ phase = "booting" /\ phase' = "migrating" /\ cache' = Loaded(file)
    BY <1>2 DEF Boot
  <2>2. /\ file' \in [state : {"missing", "corrupt", "written"}, version : 1 .. Current,
                      data : Settings]
        /\ file'.data = file.data /\ Loaded(file') = Loaded(file)
    <3>1. CASE file.state = "corrupt"
      <4>1. file' \in [state : {"missing", "corrupt", "written"}, version : 1 .. Current,
                       data : Settings]
            /\ file'.data = file.data /\ file'.state = "missing"
        BY <1>2, <3>1 DEF Boot, SettingsTypeOK
      <4>2. QED BY <3>1, <4>1, LoadedMeans DEF SettingsTypeOK
    <3>2. CASE file.state # "corrupt"
      BY <1>2, <3>2 DEF Boot, SettingsTypeOK
    <3>3. QED BY <3>1, <3>2
  <2>3. Loaded(file) \in Settings /\ \A p \in Ids : Exists(Loaded(file), p) => Exists(file.data, p)
    BY LoadedMeans DEF SettingsTypeOK
  <2>4. SettingsTypeOK'
    BY <2>1, <2>2, <2>3 DEF SettingsTypeOK
  <2>5. draft = NoDraft /\ queue = <<>> /\ \A c \in Callers : call[c] = Idle
    BY <2>1 DEF DraftInv
  <2>6. \A c \in Callers : ~Creates(c)'
    BY <2>1, <2>5 DEF Creates, Idle
  <2>7. RequestInv' /\ DrawnInv'
    BY <2>1, <2>2, <2>3, <2>6 DEF RequestInv, DrawnInv, Exists
  <2>8. DraftInv'
    BY <2>1, <2>2, <2>5 DEF DraftInv, NoDraft
  <2>9. Clear(Loaded(file))' = Clear(Loaded(file))
    BY <2>2
  <2>10. QED BY <2>4, <2>7, <2>8, <2>9
<1>3. CASE Stop
  <2>1. /\ phase' = "down" /\ cache' = Defaults /\ tried' = {}
        /\ failures' = [p \in Ids |-> NoCipher]
        /\ call' = [c \in Callers |-> Idle] /\ queue' = <<>> /\ draft' = NoDraft
        /\ UNCHANGED <<file, build, drawn, requests>> /\ stops' = stops + 1 /\ stops < MaxStops
    BY <1>3 DEF Stop
  <2>2. SettingsTypeOK'
    <3>1. stops' \in 0 .. MaxStops
      BY <2>1, SettingsAssumption DEF SettingsTypeOK
    <3>2. draft' \in [stage : {"none", "made", "renamed"}, data : Settings] /\ cache' \in Settings
      BY <2>1, DefaultsTyped DEF NoDraft
    <3>3. failures' \in [Ids -> Cipher \cup {NoCipher}] /\ queue' \in Seq(Callers)
      BY <2>1
    <3>4. QED BY <2>1, <3>1, <3>2, <3>3 DEF SettingsTypeOK
  <2>3. RequestInv'
    BY <2>1 DEF RequestInv, Requested, Idle
  <2>4. \A c \in Callers : ~Creates(c)'
    BY <2>1 DEF Creates, Idle
  <2>5. DrawnInv'
    BY <2>1, <2>4, DefaultsTyped DEF DrawnInv, NoDraft
  <2>6. DraftInv' /\ Clear(Loaded(file))' = Clear(Loaded(file))
    BY <2>1 DEF DraftInv, NoDraft
  <2>7. QED BY <2>2, <2>3, <2>5, <2>6
<1>4. QED BY <1>1, <1>2, <1>3

LEMMA MigrateKeeps ==
  ASSUME SettingsInv, NEW p \in Ids, Migrate(p)
  PROVE  SettingsInv' /\ Clear(Loaded(file))' = Clear(Loaded(file))
<1> USE DEF SettingsInv
<1> DEFINE row == cache.providers[p]
           x == Seal(row.cipher.text, p, row.url, row.generation)
           data == [cache EXCEPT !.providers[p].cipher = x]
<1>1. /\ phase = "migrating" /\ row.cipher # NoCipher /\ tried' = tried \cup {p}
      /\ UNCHANGED <<build, call, queue, draft, drawn, requests, stops>>
  BY DEF Migrate, ToMigrate
<1>2. cache \in Settings /\ row \in Row /\ row.cipher \in Cipher
  <2>1. cache \in Settings
    BY DEF SettingsTypeOK
  <2>2. row \in Row \cup {NoRow}
    BY <2>1, ClearMeans
  <2>3. QED BY <1>1, <2>1, <2>2, RowFields
<1>3. x \in Cipher /\ x.text = row.cipher.text
  <2> HIDE DEF row
  <2>1. row.cipher.text \in Keys /\ row.url \in Urls /\ row.generation \in 1 .. MaxGeneration
    BY <1>2, RowFields
  <2>2. QED BY <2>1, Sealed
<1>4. \/ file' = Written(data) /\ cache' = data /\ UNCHANGED <<phase, failures>>
      \/ failures' = [failures EXCEPT ![p] = row.cipher] /\ phase' = "ready"
         /\ UNCHANGED <<file, cache>>
  BY DEF Migrate
<1>5. draft = NoDraft /\ queue = <<>> /\ (\A c \in Callers : call[c] = Idle) /\ Loaded(file) = cache
  BY <1>1 DEF DraftInv, NoDraft
<1>6. RequestInv' /\ \A c \in Callers : ~Creates(c)'
  BY <1>1, <1>5 DEF RequestInv, Creates, Idle
<1> HIDE DEF x
<1>7. data \in Settings /\ Clear(data) = Clear(cache)
      /\ \A q \in Ids : Exists(data, q) <=> Exists(cache, q)
  BY <1>2, <1>3, Resealed
<1> HIDE DEF data
<1>8. CASE file' = Written(data) /\ cache' = data /\ UNCHANGED <<phase, failures>>
  <2>1. /\ Loaded(file') = data /\ file'.data = data
        /\ file' \in [state : {"missing", "corrupt", "written"}, version : 1 .. Current,
                      data : Settings]
    BY <1>7, <1>8, LoadedWritten
  <2>2. SettingsTypeOK'
    BY <1>1, <1>7, <1>8, <2>1 DEF SettingsTypeOK
  <2>3. DrawnInv'
    BY <1>1, <1>6, <1>7, <1>8, <2>1 DEF DrawnInv
  <2>4. DraftInv'
    BY <1>1, <1>5, <1>8, <2>1 DEF DraftInv, NoDraft
  <2>5. QED BY <1>5, <1>6, <1>7, <2>1, <2>2, <2>3, <2>4
<1>9. CASE failures' = [failures EXCEPT ![p] = row.cipher] /\ phase' = "ready"
           /\ UNCHANGED <<file, cache>>
  <2>1. SettingsTypeOK'
    <3>1. failures' \in [Ids -> Cipher \cup {NoCipher}]
      BY <1>2, <1>9 DEF SettingsTypeOK
    <3>2. QED BY <1>1, <1>9, <3>1 DEF SettingsTypeOK
  <2>2. DrawnInv'
    BY <1>1, <1>6, <1>9 DEF DrawnInv
  <2>3. DraftInv'
    BY <1>1, <1>5, <1>9 DEF DraftInv, NoDraft
  <2>4. QED BY <1>6, <1>9, <2>1, <2>2, <2>3
<1>10. QED BY <1>4, <1>8, <1>9

(* A request that goes to the end of the queue leaves its head alone.      *)
LEMMA Appended ==
  ASSUME queue \in Seq(Callers), NEW c \in Callers, queue' \in {queue, Append(queue, c)}
  PROVE  queue' \in Seq(Callers) /\ (queue # <<>> => queue' # <<>> /\ Head(queue') = Head(queue))
OBVIOUS

LEMMA AskMeans ==
  ASSUME SettingsInv, NEW c \in Callers, Ask(c)
  PROVE  \E op \in Requested :
           /\ phase = "ready" /\ call[c] = Idle /\ requests' = requests + 1
           /\ requests < MaxRequests
           /\ call' = [call EXCEPT ![c] = op] /\ queue' \in {queue, Append(queue, c)}
           /\ UNCHANGED <<file, build, phase, cache, tried, failures, draft, stops>>
           /\ op.kind # "replace" /\ (op.kind = "read" => op.row.cipher # NoCipher)
           /\ drawn' \subseteq Ids /\ drawn \subseteq drawn'
           /\ (op.kind = "save" /\ op.new => op.p \in drawn' \ drawn)
<1>1. drawn \subseteq Ids /\ cache \in Settings
  BY DEF SettingsInv, SettingsTypeOK
<1>2. CASE AskSaveProvider(c)
  <2>1. PICK p \in Ids, url \in Urls, driver \in Drivers, key \in Keys \cup {"keep", "clear"} :
          /\ Enqueue(c, [kind |-> "save", p |-> p, new |-> p \notin drawn, url |-> url,
                         driver |-> driver, key |-> key])
          /\ drawn' = drawn \cup {p}
    BY <1>2 DEF AskSaveProvider
  <2> DEFINE op == [kind |-> "save", p |-> p, new |-> p \notin drawn, url |-> url,
                    driver |-> driver, key |-> key]
  <2>2. op \in Requested /\ op.kind = "save" /\ op.p = p /\ (op.new <=> p \notin drawn)
    BY DEF Requested
  <2>3. Enqueue(c, op) /\ drawn' = drawn \cup {p}
    BY <2>1
  <2> HIDE DEF op
  <2>4. QED BY <1>1, <2>2, <2>3 DEF Enqueue, Submit
<1>3. CASE AskRemoveProvider(c)
  <2>1. PICK p \in drawn : Enqueue(c, [kind |-> "remove", p |-> p]) /\ UNCHANGED drawn
    BY <1>3 DEF AskRemoveProvider
  <2>2. [kind |-> "remove", p |-> p] \in Requested
    BY <1>1 DEF Requested
  <2>3. QED BY <1>1, <2>1, <2>2 DEF Enqueue, Submit
<1>4. CASE AskSaveSettings(c)
  <2>1. PICK active \in drawn \cup {None}, change \in [Preferences -> {0, 1}] :
          Enqueue(c, [kind |-> "settings", active |-> active, change |-> change]) /\ UNCHANGED drawn
    BY <1>4 DEF AskSaveSettings
  <2>2. [kind |-> "settings", active |-> active, change |-> change] \in Requested
    BY <1>1 DEF Requested
  <2>3. QED BY <1>1, <2>1, <2>2 DEF Enqueue, Submit
<1>5. CASE AskSaveField(c)
  <2>1. PICK f \in Fields \ Preferences, v \in {0, 1} :
          Enqueue(c, [kind |-> "field", f |-> f, v |-> v]) /\ UNCHANGED drawn
    BY <1>5 DEF AskSaveField
  <2>2. [kind |-> "field", f |-> f, v |-> v] \in Requested
    BY DEF Requested
  <2>3. QED BY <1>1, <2>1, <2>2 DEF Enqueue, Submit
<1>6. CASE AskProvider(c)
  <2>1. PICK p \in drawn :
          /\ Exists(cache, p) /\ cache.providers[p].cipher # NoCipher
          /\ Submit(c, [kind |-> "read", p |-> p, row |-> cache.providers[p]])
          /\ UNCHANGED <<queue, drawn>>
    BY <1>6 DEF AskProvider
  <2> DEFINE op == [kind |-> "read", p |-> p, row |-> cache.providers[p]]
  <2>2. cache.providers[p] \in Row
    BY <1>1, <2>1, ClearMeans
  <2>3. op \in Requested /\ op.kind = "read" /\ op.row = cache.providers[p]
    BY <1>1, <2>2 DEF Requested
  <2>4. Submit(c, op)
    BY <2>1
  <2> HIDE DEF op
  <2>5. QED BY <1>1, <2>1, <2>3, <2>4 DEF Submit
<1>7. QED BY <1>2, <1>3, <1>4, <1>5, <1>6 DEF Ask

LEMMA AskKeeps ==
  ASSUME SettingsInv, NEW c \in Callers, Ask(c)
  PROVE  SettingsInv' /\ Clear(Loaded(file))' = Clear(Loaded(file))
<1> USE DEF SettingsInv
<1>1. PICK op \in Requested :
        /\ phase = "ready" /\ call[c] = Idle /\ requests' = requests + 1 /\ requests < MaxRequests
        /\ call' = [call EXCEPT ![c] = op] /\ queue' \in {queue, Append(queue, c)}
        /\ UNCHANGED <<file, build, phase, cache, tried, failures, draft, stops>>
        /\ op.kind # "replace" /\ (op.kind = "read" => op.row.cipher # NoCipher)
        /\ drawn' \subseteq Ids /\ drawn \subseteq drawn'
        /\ (op.kind = "save" /\ op.new => op.p \in drawn' \ drawn)
  BY AskMeans
<1>2. queue' \in Seq(Callers) /\ (queue # <<>> => queue' # <<>> /\ Head(queue') = Head(queue))
  BY <1>1, Appended DEF SettingsTypeOK
<1>3. SettingsTypeOK'
  <2>1. requests' \in 0 .. MaxRequests
    BY <1>1, SettingsAssumption DEF SettingsTypeOK
  <2>2. QED BY <1>1, <1>2, <2>1 DEF SettingsTypeOK
<1>4. call' \in [Callers -> Requested] /\ call'[c] = op
      /\ \A d \in Callers : d # c => call'[d] = call[d]
  BY <1>1 DEF RequestInv
<1>5. RequestInv'
  BY <1>1, <1>4 DEF RequestInv
<1>6. DrawnInv'
  <2>1. \A p \in Ids : Exists(file.data, p)' \/ Exists(cache, p)' \/ Exists(draft.data, p)'
                  => p \in drawn'
    BY <1>1 DEF DrawnInv, Exists
  <2>2. op.kind = "save" => op.p \in Ids
    BY DEF Requested
  <2>3. Creates(c)' => op.p \in drawn' \ drawn /\ op.p \in Ids /\ call'[c].p = op.p
    BY <1>1, <1>4, <2>2 DEF Creates
  <2>4. \A d \in Callers : d # c => (Creates(d)' <=> Creates(d)) /\ call'[d].p = call[d].p
    BY <1>4 DEF Creates
  <2>5. Creates(c)' => ~Exists(cache, op.p) /\ ~Exists(draft.data, op.p)
    BY <2>3 DEF DrawnInv
  <2>6. ASSUME NEW d \in Callers, Creates(d)'
        PROVE  /\ call'[d].p \in drawn' /\ ~Exists(cache', call'[d].p)
               /\ Exists(draft'.data, call'[d].p) => queue' # <<>> /\ Head(queue') = d
               /\ \A e \in Callers : Creates(e)' /\ e # d => call'[e].p # call'[d].p
    <3>1. CASE d = c
      <4>1. \A e \in Callers : Creates(e)' /\ e # c => call'[e].p \in drawn
        BY <2>4 DEF DrawnInv
      <4>2. QED BY <1>1, <2>3, <2>5, <2>6, <3>1, <4>1
    <3>2. CASE d # c
      <4>1. Creates(d) /\ call'[d].p = call[d].p
        BY <2>4, <2>6, <3>2
      <4>2. /\ call[d].p \in drawn /\ ~Exists(cache, call[d].p)
            /\ Exists(draft.data, call[d].p) => queue # <<>> /\ Head(queue) = d
            /\ \A e \in Callers : Creates(e) /\ e # d => call[e].p # call[d].p
        BY <4>1 DEF DrawnInv
      <4>3. \A e \in Callers : Creates(e)' /\ e # d => call'[e].p # call'[d].p
        BY <2>3, <2>4, <4>1, <4>2
      <4>4. QED BY <1>1, <1>2, <4>1, <4>2, <4>3
    <3>3. QED BY <3>1, <3>2
  <2>7. QED BY <2>1, <2>6 DEF DrawnInv
<1>7. DraftInv'
  BY <1>1, <1>2 DEF DraftInv
<1>8. QED BY <1>1, <1>3, <1>5, <1>6, <1>7

(* A caller that returns, or goes on with another operation, creates       *)
(* nothing any more.                                                       *)
LEMMA Returned ==
  ASSUME SettingsInv, NEW c \in Callers, NEW op \in Requested, op.kind \in {"idle", "replace"},
         op.kind = "replace" => op.new.text = op.old.text,
         call' = [call EXCEPT ![c] = op]
  PROVE  /\ RequestInv' /\ ~Creates(c)'
         /\ \A d \in Callers : (Creates(d)' => Creates(d) /\ d # c) /\ (d # c => call'[d] = call[d])
<1>1. call' \in [Callers -> Requested] /\ call'[c] = op
      /\ \A d \in Callers : d # c => call'[d] = call[d]
  BY DEF SettingsInv, RequestInv
<1>2. RequestInv'
  BY <1>1 DEF SettingsInv, RequestInv
<1>3. QED BY <1>1, <1>2 DEF Creates

LEMMA DecryptKeeps ==
  ASSUME SettingsInv, NEW c \in Callers, Decrypt(c)
  PROVE  SettingsInv' /\ Clear(Loaded(file))' = Clear(Loaded(file))
<1> USE DEF SettingsInv
<1> DEFINE p == call[c].p
           row == call[c].row
           x == Seal(row.cipher.text, p, row.url, row.generation)
           op == [kind |-> "replace", p |-> p, generation |-> row.generation, old |-> row.cipher,
                  new |-> x]
<1>1. /\ call[c].kind = "read"
      /\ \/ call' = [call EXCEPT ![c] = op] /\ queue' = Append(queue, c)
         \/ call' = [call EXCEPT ![c] = Idle] /\ queue' = queue
      /\ UNCHANGED <<file, build, phase, cache, tried, failures, draft, drawn, requests, stops>>
  BY DEF Decrypt, Return
<1>2. p \in Ids /\ row \in Row /\ row.cipher # NoCipher
  BY <1>1 DEF RequestInv, Requested
<1> HIDE DEF p, row
<1>3. row.cipher \in Cipher /\ x \in Cipher /\ x.text = row.cipher.text
  <2>1. row.cipher \in Cipher /\ row.cipher.text \in Keys /\ row.url \in Urls
        /\ row.generation \in 1 .. MaxGeneration
    BY <1>2, RowFields
  <2>2. QED BY <1>2, <2>1, Sealed
<1> HIDE DEF x
<1>4. op \in Requested /\ op.kind = "replace" /\ op.new.text = op.old.text
  BY <1>2, <1>3, RowFields DEF Requested
<1>5. Idle \in Requested /\ Idle.kind = "idle"
  BY DEF Requested, Idle
<1> HIDE DEF op
<1>6. /\ RequestInv' /\ ~Creates(c)'
      /\ \A d \in Callers : (Creates(d)' => Creates(d) /\ d # c) /\ (d # c => call'[d] = call[d])
  <2>1. CASE call' = [call EXCEPT ![c] = op]
    BY <1>4, <2>1, Returned
  <2>2. CASE call' = [call EXCEPT ![c] = Idle]
    BY <1>5, <2>2, Returned
  <2>3. QED BY <1>1, <2>1, <2>2
<1>7. queue' \in Seq(Callers) /\ (queue # <<>> => queue' # <<>> /\ Head(queue') = Head(queue))
  BY <1>1, Appended DEF SettingsTypeOK
<1>8. SettingsTypeOK'
  BY <1>1, <1>7 DEF SettingsTypeOK
<1>9. DrawnInv'
  <2>1. \A q \in Ids : Exists(file.data, q)' \/ Exists(cache, q)' \/ Exists(draft.data, q)'
                  => q \in drawn'
    BY <1>1 DEF DrawnInv, Exists
  <2>2. ASSUME NEW d \in Callers, Creates(d)'
        PROVE  /\ call'[d].p \in drawn' /\ ~Exists(cache', call'[d].p)
               /\ Exists(draft'.data, call'[d].p) => queue' # <<>> /\ Head(queue') = d
               /\ \A e \in Callers : Creates(e)' /\ e # d => call'[e].p # call'[d].p
    BY <1>1, <1>6, <1>7, <2>2 DEF DrawnInv
  <2>3. QED BY <2>1, <2>2 DEF DrawnInv
<1>10. phase = "ready"
  BY <1>1 DEF DraftInv, Idle
<1>11. DraftInv'
  BY <1>1, <1>7, <1>10 DEF DraftInv
<1>12. QED BY <1>1, <1>6, <1>8, <1>9, <1>11

LEMMA MutateKeeps ==
  ASSUME SettingsInv, NEW c \in Callers, Mutate(c)
  PROVE  SettingsInv' /\ Clear(Loaded(file))' = Clear(Loaded(file))
<1> USE DEF SettingsInv
<1>1. queue # <<>> /\ Head(queue) = c /\ draft = NoDraft
  BY MutateMeans
<1>2. PICK data \in Settings : Made(c, data) /\ Make(data)
  BY MutateMeans
<1>3. /\ draft' = [stage |-> "made", data |-> data] /\ UNCHANGED <<call, queue>>
      /\ UNCHANGED <<file, build, phase, cache, tried, failures, drawn, requests, stops>>
  BY <1>2 DEF Make, turnFrame
<1>4. draft'.data = data /\ draft'.stage = "made"
  BY <1>3
<1>5. SettingsTypeOK'
  BY <1>2, <1>3 DEF SettingsTypeOK
<1>6. RequestInv'
  BY <1>3 DEF RequestInv
<1>7. DrawnInv'
  <2>1. \A p \in Ids : Exists(data, p) => Exists(cache, p) \/ (Creates(c) /\ p = call[c].p)
    BY <1>2 DEF Made
  <2>2. \A d \in Callers : Creates(d)' <=> Creates(d)
    BY <1>3 DEF Creates
  <2>3. \A p \in Ids : Exists(data, p) => p \in drawn
    BY <2>1 DEF DrawnInv
  <2>4. \A d \in Callers : Creates(d) => call[d].p \in Ids
    BY DEF DrawnInv, SettingsTypeOK
  <2>5. \A d \in Callers : Creates(d) /\ Exists(data, call[d].p) => d = c
    BY <2>1, <2>4 DEF DrawnInv
  <2>6. QED BY <1>1, <1>3, <1>4, <2>2, <2>3, <2>5 DEF DrawnInv
<1>8. DraftInv'
  <2>1. phase = "ready" /\ Loaded(file) = cache
    <3>1. phase = "ready"
      BY <1>1 DEF DraftInv
    <3>2. draft.stage = "none"
      BY <1>1 DEF NoDraft
    <3>3. QED BY <3>1, <3>2 DEF DraftInv
  <2>2. Follows(Clear(cache), Clear(data))
    BY <1>2 DEF Made
  <2>3. QED BY <1>1, <1>3, <1>4, <2>1, <2>2 DEF DraftInv
<1>9. QED BY <1>3, <1>5, <1>6, <1>7, <1>8

LEMMA RenameKeeps ==
  ASSUME SettingsInv, NEW c \in Callers, Rename(c)
  PROVE  /\ SettingsInv' /\ Loaded(file) \in Settings
         /\ Follows(Clear(Loaded(file)), Clear(Loaded(file))')
<1> USE DEF SettingsInv
<1>1. /\ queue # <<>> /\ draft.stage = "made" /\ file' = Written(draft.data)
      /\ draft' = [draft EXCEPT !.stage = "renamed"]
      /\ UNCHANGED <<build, phase, cache, tried, failures, call, queue, drawn, requests, stops>>
  BY DEF Rename
<1>2. draft.data \in Settings /\ cache \in Settings
  BY DEF SettingsTypeOK
<1>3. draft'.data = draft.data /\ draft'.stage = "renamed"
      /\ draft' \in [stage : {"none", "made", "renamed"}, data : Settings]
  BY <1>1 DEF SettingsTypeOK
<1>4. /\ Loaded(file') = draft.data /\ file'.data = draft.data
      /\ file' \in [state : {"missing", "corrupt", "written"}, version : 1 .. Current,
                    data : Settings]
  BY <1>1, <1>2, LoadedWritten
<1>5. phase = "ready" /\ Loaded(file) = cache /\ Follows(Clear(cache), Clear(draft.data))
  BY <1>1 DEF DraftInv
<1>6. SettingsTypeOK'
  BY <1>1, <1>3, <1>4 DEF SettingsTypeOK
<1>7. RequestInv'
  BY <1>1 DEF RequestInv
<1>8. DrawnInv'
  BY <1>1, <1>3, <1>4 DEF DrawnInv, Creates, Exists
<1>9. DraftInv'
  BY <1>1, <1>3, <1>4, <1>5 DEF DraftInv
<1>10. QED BY <1>2, <1>4, <1>5, <1>6, <1>7, <1>8, <1>9

LEMMA TurnEnds ==
  ASSUME SettingsInv, NEW c \in Callers, Publish(c) \/ Fail(c)
  PROVE  SettingsInv' /\ Clear(Loaded(file))' = Clear(Loaded(file))
<1> USE DEF SettingsInv
<1>1. /\ queue # <<>> /\ Head(queue) = c /\ queue' = Tail(queue) /\ draft' = NoDraft
      /\ call' = [call EXCEPT ![c] = Idle]
      /\ UNCHANGED <<file, build, phase, tried, failures, drawn, requests, stops>>
      /\ \/ draft.stage = "renamed" /\ cache' = draft.data
         \/ draft.stage # "renamed" /\ cache' = cache
  BY DEF Publish, Fail, Return, turnFrame
<1>2. Idle \in Requested /\ Idle.kind = "idle"
  BY DEF Requested, Idle
<1>3. /\ RequestInv' /\ ~Creates(c)'
      /\ \A d \in Callers : (Creates(d)' => Creates(d) /\ d # c) /\ (d # c => call'[d] = call[d])
  BY <1>1, <1>2, Returned
<1>4. queue' \in Seq(Callers)
  BY <1>1 DEF SettingsTypeOK
<1>5. /\ draft'.data = Defaults /\ draft'.stage = "none" /\ draft' = NoDraft
      /\ draft' \in [stage : {"none", "made", "renamed"}, data : Settings] /\ cache' \in Settings
  BY <1>1, DefaultsTyped DEF NoDraft, SettingsTypeOK
<1>6. SettingsTypeOK'
  BY <1>1, <1>4, <1>5 DEF SettingsTypeOK
<1>7. DrawnInv'
  <2>1. \A p \in Ids : Exists(file.data, p)' \/ Exists(cache, p)' \/ Exists(draft.data, p)'
                  => p \in drawn'
    BY <1>1, <1>5, DefaultsTyped DEF DrawnInv, Exists
  <2>2. ASSUME NEW d \in Callers, Creates(d)'
        PROVE  /\ call'[d].p \in drawn' /\ ~Exists(cache', call'[d].p)
               /\ Exists(draft'.data, call'[d].p) => queue' # <<>> /\ Head(queue') = d
               /\ \A e \in Callers : Creates(e)' /\ e # d => call'[e].p # call'[d].p
    <3>1. Creates(d) /\ d # c /\ call'[d] = call[d] /\ call[d].p \in drawn /\ call[d].p \in Ids
      BY <1>3, <2>2 DEF DrawnInv, SettingsTypeOK
    <3>2. ~Exists(cache, call[d].p) /\ ~Exists(draft.data, call[d].p)
      BY <1>1, <3>1 DEF DrawnInv
    <3>3. \A e \in Callers : Creates(e)' /\ e # d => call'[e].p # call'[d].p
      BY <1>3, <3>1 DEF DrawnInv
    <3>4. QED BY <1>1, <1>5, <3>1, <3>2, <3>3, DefaultsTyped
  <2>3. QED BY <2>1, <2>2 DEF DrawnInv
<1>8. DraftInv'
  <2>1. phase = "ready"
    BY <1>1 DEF DraftInv
  <2>2. Loaded(file) = cache'
    BY <1>1, <2>1 DEF DraftInv
  <2>3. QED BY <1>1, <1>5, <2>1, <2>2 DEF DraftInv
<1>9. QED BY <1>1, <1>3, <1>6, <1>7, <1>8

-----------------------------------------------------------------------------
(* The refinement.                                                         *)
LEMMA FollowsMeans ==
  ASSUME Loaded(file) \in Settings, Follows(Clear(Loaded(file)), Clear(Loaded(file))')
  PROVE  [Promise!Next]_(Clear(Loaded(file)))
<1> DEFINE old == Clear(Loaded(file))
           new == Clear(Loaded(file))'
<1>1. CASE new = old
  BY <1>1
<1>2. ASSUME NEW p \in Ids, NEW row \in Promise!Row,
               row.generation = old.providers[p].generation + 1,
             new = [old EXCEPT !.providers[p] = row]
      PROVE  Promise!Next
  <2>1. CASE old.providers[p] # Promise!NoRow
    BY <1>2, <2>1 DEF Promise!Next, Promise!EditProvider, Promise!Exists
  <2>2. CASE old.providers[p] = Promise!NoRow
    <3>1. row.generation = 1
      BY <1>2, <2>2 DEF Promise!NoRow
    <3>2. QED BY <1>2, <2>2, <3>1 DEF Promise!Next, Promise!AddProvider, Promise!Exists
  <2>3. QED BY <2>1, <2>2
<1>3. ASSUME NEW p \in Ids,
             new = [old EXCEPT !.providers[p] = Promise!NoRow, !.active = IF @ = p THEN None ELSE @]
      PROVE  Promise!Next
  BY <1>3 DEF Promise!Next, Promise!RemoveProvider, Promise!None, None
<1>4. ASSUME NEW active \in Ids \cup {None}, NEW S \in SUBSET Fields, NEW change \in [S -> {0, 1}],
             active # None => old.providers[active] # Promise!NoRow,
             new = [old EXCEPT !.active = active,
                               !.values = [f \in Fields |-> IF f \in S THEN change[f] ELSE @[f]]]
      PROVE  Promise!Next
  <2>1. DOMAIN change = S
    OBVIOUS
  <2>2. Promise!SaveSettings(active, change)
    BY <1>4, <2>1 DEF Promise!SaveSettings, Promise!Exists, Promise!None, None
  <2>3. active \in Ids \cup {Promise!None}
    BY DEF Promise!None, None
  <2>4. QED BY <2>2, <2>3 DEF Promise!Next
<1>5. ASSUME NEW f \in Fields, NEW v \in {0, 1}, new = [old EXCEPT !.values[f] = v]
      PROVE  Promise!Next
  BY <1>5 DEF Promise!Next, Promise!SaveField
<1>6. QED BY <1>1, <1>2, <1>3, <1>4, <1>5 DEF Follows

LEMMA SettingsStep ==
  SettingsInv /\ [SettingsNext]_settingsVars => SettingsInv' /\ [Promise!Next]_(Clear(Loaded(file)))
<1> SUFFICES ASSUME SettingsInv, [SettingsNext]_settingsVars
             PROVE  SettingsInv' /\ [Promise!Next]_(Clear(Loaded(file)))
  OBVIOUS
<1>1. CASE Start \/ Boot \/ Stop \/ Migrated
  BY <1>1, BootKeeps
<1>2. ASSUME NEW p \in Ids, Migrate(p) PROVE SettingsInv' /\ [Promise!Next]_(Clear(Loaded(file)))
  BY <1>2, MigrateKeeps
<1>3. ASSUME NEW c \in Callers, Ask(c) \/ Decrypt(c) \/ Mutate(c) \/ Publish(c) \/ Fail(c)
      PROVE  SettingsInv' /\ [Promise!Next]_(Clear(Loaded(file)))
  BY <1>3, AskKeeps, DecryptKeeps, MutateKeeps, TurnEnds
<1>4. ASSUME NEW c \in Callers, Rename(c) PROVE SettingsInv' /\ [Promise!Next]_(Clear(Loaded(file)))
  <2>1. SettingsInv' /\ Loaded(file) \in Settings
        /\ Follows(Clear(Loaded(file)), Clear(Loaded(file))')
    BY <1>4, RenameKeeps
  <2>2. QED BY <2>1, FollowsMeans
<1>5. CASE UNCHANGED settingsVars
  <2>1. UNCHANGED <<file, build, phase, cache, tried, failures, call, queue, draft, drawn,
                    requests, stops>>
    BY <1>5 DEF settingsVars, memory
  <2>2. SettingsTypeOK' /\ RequestInv' /\ DraftInv'
    BY <2>1 DEF SettingsInv, SettingsTypeOK, RequestInv, DraftInv
  <2>3. DrawnInv'
    BY <2>1 DEF SettingsInv, DrawnInv, Creates
  <2>4. QED BY <2>1, <2>2, <2>3 DEF SettingsInv
<1>6. QED BY <1>1, <1>2, <1>3, <1>4, <1>5 DEF SettingsNext

(* Whatever requests come together, whichever fail, whatever the broker    *)
(* opens and whenever the process stops or is replaced by another build,   *)
(* the file changes by whole operations, and a provider's URL, driver and  *)
(* key never change under a generation (mutate, saveProvider,              *)
(* replaceEncryptedApiKey, performStartupCredentialMigration).             *)
THEOREM StoreImplementsAtomicSettings == SettingsSpec => ImplementsAtomicSettings
<1>1. SettingsInit => SettingsInv
  BY SettingsBegin
<1>2. SettingsInv /\ [SettingsNext]_settingsVars
        => SettingsInv' /\ [Promise!Next]_(Clear(Loaded(file)))
  BY SettingsStep
<1>3. SettingsInit => Promise!Init
  <2>1. SettingsInit => Loaded(file) \in Settings
    BY SettingsBegin, LoadedMeans DEF SettingsInv, SettingsTypeOK
  <2>2. QED BY <2>1, ClearMeans DEF Promise!Init
<1>4. QED BY <1>1, <1>2, <1>3, PTL DEF SettingsSpec, ImplementsAtomicSettings, Promise!Spec

\* A row that changes has another generation.
RowsMoveWithGeneration ==
  \A p \in Ids : LET old == Clear(Loaded(file)).providers[p]
                     new == Clear(Loaded(file))'.providers[p]
                 IN  old.generation = new.generation => old = new

LEMMA PromiseMoves ==
  ASSUME Clear(Loaded(file)) \in Promise!Settings, [Promise!Next]_(Clear(Loaded(file)))
  PROVE  RowsMoveWithGeneration
<1> DEFINE old == Clear(Loaded(file))
           new == Clear(Loaded(file))'
<1> USE DEF RowsMoveWithGeneration
<1>1. /\ DOMAIN old.providers = Ids
      /\ \A p \in Ids : \/ old.providers[p] = Promise!NoRow
                        \/ old.providers[p].generation \in 1 .. MaxGeneration
  BY DEF Promise!Settings, Promise!Row
<1>2. CASE new = old
  BY <1>2
<1>3. ASSUME NEW p \in Ids,
             Promise!AddProvider(p) \/ Promise!EditProvider(p) \/ Promise!RemoveProvider(p)
      PROVE  RowsMoveWithGeneration
  <2>1. \A q \in Ids : q # p => new.providers[q] = old.providers[q]
    BY <1>1, <1>3 DEF Promise!AddProvider, Promise!EditProvider, Promise!RemoveProvider,
                      Promise!Settings
  <2>2. \/ new.providers[p] = old.providers[p]
        \/ new.providers[p].generation # old.providers[p].generation
    <3>1. CASE Promise!AddProvider(p)
      BY <1>1, <3>1 DEF Promise!AddProvider, Promise!Exists, Promise!NoRow, Promise!Settings
    <3>2. CASE Promise!EditProvider(p)
      BY <1>1, <3>2 DEF Promise!EditProvider, Promise!Exists, Promise!Settings
    <3>3. CASE Promise!RemoveProvider(p)
      <4>1. new.providers[p] = Promise!NoRow
        BY <1>1, <3>3 DEF Promise!RemoveProvider, Promise!Settings
      <4>2. Promise!NoRow.generation = 0
        BY DEF Promise!NoRow
      <4>3. QED BY <1>1, <4>1, <4>2
    <3>4. QED BY <1>3, <3>1, <3>2, <3>3
  <2>3. QED BY <2>1, <2>2
<1>4. ASSUME NEW active, NEW change, Promise!SaveSettings(active, change)
      PROVE  RowsMoveWithGeneration
  BY <1>4 DEF Promise!SaveSettings, Promise!Settings
<1>5. ASSUME NEW f, NEW v, Promise!SaveField(f, v) PROVE RowsMoveWithGeneration
  BY <1>5 DEF Promise!SaveField, Promise!Settings
<1>6. QED BY <1>2, <1>3, <1>4, <1>5 DEF Promise!Next

(* What the contract is for: over every edit, migration, failed write and  *)
(* restart, a provider that still has the generation someone was given     *)
(* still has the URL, the driver and the key it had then (saveProvider).   *)
THEOREM GenerationNamesOneKey == SettingsSpec => [][RowsMoveWithGeneration]_settingsVars
<1>1. SettingsInv /\ [SettingsNext]_settingsVars => SettingsInv' /\ RowsMoveWithGeneration
  <2>1. SettingsInv => Clear(Loaded(file)) \in Promise!Settings
    BY LoadedMeans, ClearMeans DEF SettingsInv, SettingsTypeOK
  <2>2. QED BY <2>1, SettingsStep, PromiseMoves
<1>2. QED BY <1>1, SettingsBegin, PTL DEF SettingsSpec
=============================================================================
