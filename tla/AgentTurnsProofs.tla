-------------------------- MODULE AgentTurnsProofs --------------------------
(***************************************************************************)
(* What the loop of performRun keeps, for any number of runs, rounds,      *)
(* attempts and evaluations, any batches of calls and any usage: the       *)
(* session of a run is the history and its own messages, each call is      *)
(* answered once, usage is counted once, effects are told and conflicts    *)
(* known.                                                                  *)
(***************************************************************************)
EXTENDS AgentTurns, TLAPS

Statuses == {"running", "completed", "summarised", "cancelled", "error", "interrupted"}
Rows == [status : Statuses, effects : BOOLEAN]
Purposes == {"work", "report", "recovery", "judge", "json"}
Steps == {"none", "stream", "fallback", "ok", "failed"}
Ref == Nat \X Nat
CallOf == [id : Ref, tool : Tools]
OutputOf == [id : Ref, ok : BOOLEAN]
Sessions == [said : SUBSET ({"user", "text"} \X Nat), calls : SUBSET CallOf, outputs : SUBSET OutputOf]

TurnTypes ==
    [step : Steps, tools : BOOLEAN, guard : BOOLEAN, choice : {"auto", "none", "required"},
     done : SUBSET Tools, good : SUBSET Tools, again : BOOLEAN, seen : BOOLEAN, cost : Nat,
     calls : Seq(Tools), text : BOOLEAN, retryable : BOOLEAN]

RunTypes ==
    [purpose : Purposes, session : Sessions, contract : {"unknown", "response", "action"},
     bypass : BOOLEAN, evals : Nat, rounds : Nat, attempt : Nat, failed : BOOLEAN,
     refused : SUBSET Tools, refresh : BOOLEAN, total : Nat, before : Nat, draft : BOOLEAN,
     batch : Seq(Tools), outs : Seq(BOOLEAN)]

TypeOK ==
    /\ turn \in TurnTypes /\ billed \in Nat
    /\ at \in {"off", "ready", "asking", "calling"}
    /\ run \in RunTypes
    /\ aborted \in {"none", "user", "time"}
    /\ history \in Seq(Rows)
    /\ saved \in BOOLEAN /\ circuit \in BOOLEAN

\* The last run is the one that runs; every effect of an ended one is told or was given up.
HistoryInv ==
    /\ at # "off" => n > 0 /\ history[n].status = "running"
    /\ \A i \in DOMAIN history :
          /\ history[i].status = "running" => at # "off" /\ i = n
          /\ history[i].effects => history[i].status \in {"running", "cancelled", "interrupted"} \/ Told(i)

\* A session is the history and the message of the run.
SessionInv ==
    /\ \A said \in cache : said = ModelHistory
    /\ at # "off" => run.session.said = ModelHistory \cup {<<"user", n>>}

\* A turn is asked for, or there is none; what it costs is on top of what was counted.
UsageInv ==
    /\ at = "asking" => turn.step \in {"stream", "fallback", "ok", "failed"}
    /\ at # "asking" => turn = NoTurn
    /\ at # "off" => IF turn.step \in {"stream", "fallback"} THEN run.before + turn.cost = billed
                     ELSE run.total = billed

\* The calls of the batch that is executed are the only ones without an output.
BatchIds(r) == {<<r.rounds, i>> : i \in DOMAIN r.batch}
OutputIds(s) == {o.id : o \in s.outputs}
AnsweredUpTo(s, round) ==
    /\ \A o \in s.outputs : o.id[1] <= round
    /\ \A o, p \in s.outputs : o.id = p.id => o = p
CallsInv ==
    /\ at \in {"ready", "asking"} =>
         /\ run.batch = <<>> /\ run.outs = <<>>
         /\ {c.id : c \in run.session.calls} = OutputIds(run.session)
         /\ AnsweredUpTo(run.session, run.rounds)
    /\ at = "calling" =>
         /\ run.rounds > 0 /\ Len(run.outs) < Len(run.batch)
         /\ {c.id : c \in run.session.calls} = OutputIds(run.session) \cup BatchIds(run)
         /\ AnsweredUpTo(run.session, run.rounds - 1)

IInv == TypeOK /\ HistoryInv /\ SessionInv /\ UsageInv /\ CallsInv /\ ConflictsAreKnown
-----------------------------------------------------------------------------
(* The shapes of a step: how a run ends, goes on, or asks.                 *)
LEMMA NoTurnTyped == NoTurn \in TurnTypes /\ NoTurn.step = "none" /\ NoTurn.cost = 0
  BY DEF NoTurn, TurnTypes, Steps, Tools

LEMMA NoRunTyped == NoRun \in RunTypes
  BY DEF NoRun, RunTypes, Session, Sessions, Purposes, Tools, CallOf, OutputOf

LEMMA InitHolds == Init => IInv
<1> SUFFICES ASSUME Init PROVE IInv
  OBVIOUS
<1>1. TypeOK
  <2>1. history \in Seq(Rows)
    BY DEF Init
  <2>2. billed \in Nat /\ at \in {"off", "ready", "asking", "calling"} /\ aborted \in {"none", "user", "time"}
    BY DEF Init
  <2>3. saved \in BOOLEAN /\ circuit \in BOOLEAN
    BY DEF Init
  <2> QED
    BY <2>1, <2>2, <2>3, NoTurnTyped, NoRunTyped DEF Init, TypeOK
<1>2. HistoryInv /\ SessionInv /\ UsageInv /\ CallsInv /\ ConflictsAreKnown
  BY DEF Init, HistoryInv, SessionInv, UsageInv, CallsInv, ConflictsAreKnown
<1> QED
  BY <1>1, <1>2 DEF IInv

LEMMA EndKeeps ==
  ASSUME IInv, at # "off", NEW status \in Statuses \ {"running"}, NEW kept, End(status, kept),
         Applied => status \in {"completed", "summarised", "cancelled"},
         \/ kept = {}
         \/ kept = cache /\ status \notin {"completed", "summarised"}
         \/ kept = {run.session.said \cup {<<"text", n>>}} /\ status = "completed",
         billed' \in Nat, saved' \in BOOLEAN, circuit' \in BOOLEAN
  PROVE  IInv'
<1>1. /\ history' = [history EXCEPT ![n].status = status] /\ cache' = kept
      /\ at' = "off" /\ run' = NoRun /\ turn' = NoTurn /\ aborted' = "none"
  BY DEF End
<1>2. /\ history \in Seq(Rows)
      /\ n \in Nat /\ n > 0 /\ history[n].status = "running" /\ n \in DOMAIN history
      /\ history[n] \in Rows
  <2>1. history \in Seq(Rows) /\ n > 0 /\ history[n].status = "running"
    BY DEF IInv, TypeOK, HistoryInv
  <2>2. n \in Nat /\ n \in DOMAIN history
    BY <2>1 DEF n
  <2> QED
    BY <2>1, <2>2
<1>3. /\ history' \in Seq(Rows)
      /\ DOMAIN history' = DOMAIN history /\ n' = n
      /\ \A i \in DOMAIN history : i # n => history'[i] = history[i]
      /\ history'[n].status = status /\ history'[n].effects = history[n].effects
  <2> DEFINE row == [history[n] EXCEPT !.status = status]
  <2>1. /\ row \in Rows
        /\ row.status = status /\ row.effects = history[n].effects
    BY <1>2 DEF Rows
  <2>2. history' = [history EXCEPT ![n] = row]
    BY <1>1
  <2> HIDE DEF row
  <2> QED
    BY <1>2, <2>1, <2>2 DEF n
<1>4. TypeOK'
  BY <1>1, <1>3, NoTurnTyped, NoRunTyped DEF TypeOK
<1>5. HistoryInv'
  BY <1>1, <1>2, <1>3 DEF IInv, HistoryInv, Told, Applied
<1>6. /\ \A i \in DOMAIN history : i # n => (Told(i)' <=> Told(i))
      /\ ~Told(n) /\ (Told(n)' <=> status \in {"completed", "summarised"})
  BY <1>2, <1>3 DEF Told
<1>7. ModelHistory' = IF status \in {"completed", "summarised"}
                      THEN ModelHistory \cup {<<"user", n>>, <<"text", n>>} ELSE ModelHistory
  BY <1>2, <1>3, <1>6 DEF ModelHistory
<1>8. SessionInv'
  BY <1>1, <1>7 DEF IInv, SessionInv
<1> QED
  BY <1>1, <1>4, <1>5, <1>8 DEF IInv, UsageInv, CallsInv, ConflictsAreKnown

LEMMA FailKeeps ==
  ASSUME IInv, at # "off", Fail, billed' \in Nat, saved' \in BOOLEAN, circuit' \in BOOLEAN
  PROVE  IInv'
<1>1. CASE aborted # "user" /\ Applied
  BY <1>1, EndKeeps DEF Fail, Summarised, Statuses
<1>2. CASE aborted = "user"
  BY <1>2, EndKeeps DEF Fail, FailPlainly, Statuses
<1>3. CASE aborted # "user" /\ ~Applied
  BY <1>3, EndKeeps DEF Fail, FailPlainly, Statuses
<1> QED
  BY <1>1, <1>2, <1>3

LEMMA AcceptKeeps ==
  ASSUME IInv, at # "off", NEW draft, Accept(draft),
         billed' \in Nat, saved' \in BOOLEAN, circuit' \in BOOLEAN
  PROVE  IInv'
<1>1. CASE Missing \/ ~draft
  BY <1>1, FailKeeps DEF Accept
<1>2. CASE ~(Missing \/ ~draft)
  BY <1>2, EndKeeps DEF Accept, Compacted, Statuses
<1> QED
  BY <1>1, <1>2

(* What a run takes along into its next request or round.                  *)
Same(r) ==
    /\ r \in RunTypes
    /\ r.session = run.session /\ r.total = run.total /\ r.rounds = run.rounds
    /\ r.batch = run.batch /\ r.outs = run.outs /\ r.refresh = run.refresh

LEMMA SessionStays ==
  ASSUME IInv, at # "off", at' # "off", UNCHANGED <<history, cache>>, run'.session.said = run.session.said
  PROVE  HistoryInv' /\ SessionInv'
BY DEF IInv, HistoryInv, SessionInv, ModelHistory, Told, n

LEMMA RequestKeeps ==
  ASSUME IInv, at \in {"ready", "asking"}, turn.step \notin {"stream", "fallback"},
         NEW r, Same(r), NEW t \in TurnTypes, t.step = "stream", t.cost = 0,
         Request(r, t), UNCHANGED <<billed, saved, circuit>>
  PROVE  IInv'
<1>1. /\ run' = [r EXCEPT !.before = r.total] /\ run' \in RunTypes
      /\ run'.session = run.session /\ run'.total = run.total /\ run'.rounds = run.rounds
      /\ run'.batch = run.batch /\ run'.outs = run.outs /\ run'.refresh = run.refresh
      /\ run'.before = run.total
      /\ at' = "asking" /\ turn' = t /\ UNCHANGED <<history, cache, aborted>>
  BY DEF Request, Before, Same, RunTypes
<1>2. TypeOK'
  BY <1>1 DEF IInv, TypeOK
<1>3. UsageInv'
  <2>1. run.total = billed /\ billed \in Nat
    BY DEF IInv, UsageInv, TypeOK
  <2> QED
    BY <1>1, <2>1 DEF UsageInv
<1>4. CallsInv'
  BY <1>1 DEF IInv, CallsInv, AnsweredUpTo, OutputIds
<1>5. HistoryInv' /\ SessionInv'
  BY <1>1, SessionStays
<1> QED
  BY <1>1, <1>2, <1>3, <1>4, <1>5 DEF IInv, ConflictsAreKnown

LEMMA ContinueKeeps ==
  ASSUME IInv, at = "asking", turn.step \notin {"stream", "fallback"}, NEW r, Same(r),
         Continue(r), UNCHANGED <<billed, saved>>, circuit' \in BOOLEAN
  PROVE  IInv'
<1>1. /\ run' \in RunTypes
      /\ run'.session = run.session /\ run'.total = run.total /\ run'.rounds = run.rounds
      /\ run'.batch = run.batch /\ run'.outs = run.outs /\ run'.refresh = run.refresh
      /\ at' = "ready" /\ turn' = NoTurn /\ UNCHANGED <<history, cache, aborted>>
  BY DEF Continue, Forget, Same, RunTypes, Purposes
<1>2. TypeOK'
  BY <1>1, NoTurnTyped DEF IInv, TypeOK
<1>3. UsageInv'
  BY <1>1, NoTurnTyped DEF IInv, UsageInv
<1>4. CallsInv'
  BY <1>1 DEF IInv, CallsInv, AnsweredUpTo, OutputIds
<1>5. HistoryInv' /\ SessionInv'
  BY <1>1, SessionStays
<1> QED
  BY <1>1, <1>2, <1>3, <1>4, <1>5 DEF IInv, ConflictsAreKnown
-----------------------------------------------------------------------------
(* The driver reports what its answers cost, however the turn goes on.     *)
LEMMA AskedTyped ==
  ASSUME NEW tools \in BOOLEAN, NEW guard \in BOOLEAN, NEW choice \in {"auto", "none", "required"},
         NEW done \in SUBSET Tools, NEW good \in SUBSET Tools
  PROVE  LET t == Asked(tools, guard, choice, done, good)
         IN  t \in TurnTypes /\ t.step = "stream" /\ t.cost = 0
<1>1. (tools /\ choice # "none") \in BOOLEAN
  OBVIOUS
<1>2. "stream" \in Steps
  BY DEF Steps
<1> QED
  BY <1>1, <1>2, NoTurnTyped DEF Asked, TurnTypes

LEMMA FailsTyped ==
  ASSUME NEW t \in TurnTypes, NEW retryable \in BOOLEAN, Fails(t, retryable)
  PROVE  turn' \in TurnTypes /\ turn'.step = "failed" /\ turn'.cost = t.cost
BY DEF Fails, TurnTypes, Steps

LEMMA CostTyped ==
  ASSUME turn \in TurnTypes, billed \in Nat, NEW u \in Costs
  PROVE  LET t == [turn EXCEPT !.cost = @ + u]
         IN  /\ t \in TurnTypes /\ t.cost = turn.cost + u
             /\ u \in Nat /\ billed + u \in Nat
BY DEF TurnTypes, Costs

LEMMA ExtractedTyped ==
  ASSUME NEW t \in TurnTypes, NEW a \in Answers(t)
  PROVE  Extracted(t, a) \in Seq(Tools)
<1>1. CASE a.calls \in Seq(Tools)
  BY <1>1 DEF Extracted
<1>2. a.calls \in Seq(Tools)
  <2>1. a.calls = <<>> \/ a.calls \in Batches \/ (\E c \in Tools : a.calls = <<c>>)
    BY DEF Answers
  <2>2. ASSUME NEW c \in Tools PROVE <<c>> \in Seq(Tools)
    OBVIOUS
  <2>3. \A b \in Batches : b \in Seq(Tools)
    BY DriverAssumption
  <2>4. <<>> \in Seq(Tools)
    OBVIOUS
  <2> QED
    BY <2>1, <2>2, <2>3, <2>4
<1> QED
  BY <1>1, <1>2

LEMMA DriverStep ==
  ASSUME turn \in TurnTypes, billed \in Nat, Delta \/ Answered \/ Refused \/ Broken \/ Stopped
  PROVE  /\ turn' \in TurnTypes /\ billed' \in Nat
         /\ turn.step \in {"stream", "fallback"}
         /\ turn'.step \in {"stream", "fallback", "ok", "failed"}
         /\ billed' + turn.cost = billed + turn'.cost
<1>1. CASE Delta
  BY <1>1 DEF Delta, TurnTypes
<1>2. CASE Stopped
  BY <1>2, FailsTyped DEF Stopped, Collecting, TurnTypes
<1>3. CASE Broken
  <2>1. CASE turn' = [turn EXCEPT !.step = "fallback"]
    BY <1>3, <2>1 DEF Broken, TurnTypes, Steps
  <2>2. CASE \E retryable \in BOOLEAN : Fails(turn, retryable)
    BY <1>3, <2>2, FailsTyped DEF Broken, TurnTypes
  <2> QED
    BY <1>3, <2>1, <2>2 DEF Broken
<1>4. CASE Refused
  <2>1. PICK u \in Costs, retryable \in BOOLEAN :
          /\ Collecting /\ billed' = billed + u
          /\ Fails([turn EXCEPT !.cost = @ + u], retryable)
    BY <1>4 DEF Refused
  <2> DEFINE t == [turn EXCEPT !.cost = @ + u]
  <2>2. t \in TurnTypes /\ t.cost = turn.cost + u /\ u \in Nat /\ billed + u \in Nat
    BY CostTyped
  <2>3. Fails(t, retryable)
    BY <2>1
  <2>4. turn.cost \in Nat
    BY DEF TurnTypes
  <2> HIDE DEF t
  <2> QED
    BY <2>1, <2>2, <2>3, <2>4, FailsTyped DEF Collecting
<1>5. CASE Answered
  <2>1. PICK a \in Answers(turn), u \in Costs :
          LET t == [turn EXCEPT !.cost = @ + u]
              calls == Extracted(t, a)
          IN  /\ Collecting
              /\ billed' = billed + u
              /\ IF calls = <<>> /\ Guarded(a)
                 THEN IF t.again THEN Fails(t, FALSE)
                      ELSE turn' = [t EXCEPT !.step = "stream", !.again = TRUE, !.seen = FALSE]
                 ELSE IF (t.again /\ Repeats(t, calls)) \/ Unsatisfied(t, calls)
                 THEN Fails(t, TRUE)
                 ELSE turn' = [t EXCEPT !.step = "ok", !.calls = calls, !.text = a.kind = "text"]
    BY <1>5 DEF Answered
  <2> DEFINE t == [turn EXCEPT !.cost = @ + u]
             calls == Extracted(t, a)
             text == a.kind = "text"
  <2>2. t \in TurnTypes /\ t.cost = turn.cost + u /\ u \in Nat /\ billed + u \in Nat
    BY CostTyped
  <2>3. calls \in Seq(Tools)
    <3>1. Answers(t) = Answers(turn)
      BY DEF Answers, TurnTypes
    <3> QED
      BY <2>2, <3>1, ExtractedTyped
  <2>4. turn.cost \in Nat /\ text \in BOOLEAN
    BY DEF TurnTypes
  <2>5. \/ Fails(t, FALSE) \/ Fails(t, TRUE)
        \/ turn' = [t EXCEPT !.step = "stream", !.again = TRUE, !.seen = FALSE]
        \/ turn' = [t EXCEPT !.step = "ok", !.calls = calls, !.text = text]
    BY <2>1
  <2>6. Collecting /\ billed' = billed + u
    BY <2>1
  <2> HIDE DEF t, calls, text
  <2>7. turn.step \in {"stream", "fallback"} /\ billed' \in Nat /\ billed' + turn.cost = billed + t.cost
    BY <2>2, <2>4, <2>6 DEF Collecting
  <2>8. /\ turn' \in TurnTypes /\ turn'.cost = t.cost
        /\ turn'.step \in {"stream", "fallback", "ok", "failed"}
    <3>1. CASE Fails(t, FALSE) \/ Fails(t, TRUE)
      BY <2>2, <3>1, FailsTyped
    <3>2. CASE turn' = [t EXCEPT !.step = "stream", !.again = TRUE, !.seen = FALSE]
      BY <2>2, <3>2 DEF TurnTypes, Steps
    <3>3. CASE turn' = [t EXCEPT !.step = "ok", !.calls = calls, !.text = text]
      BY <2>2, <2>3, <2>4, <3>3 DEF TurnTypes, Steps
    <3> QED
      BY <2>5, <3>1, <3>2, <3>3
  <2> QED
    BY <2>7, <2>8
<1> QED
  BY <1>1, <1>2, <1>3, <1>4, <1>5

LEMMA DriveKeeps ==
  ASSUME IInv, Drive PROVE IInv'
<1>1. /\ turn' \in TurnTypes /\ billed' \in Nat
      /\ turn.step \in {"stream", "fallback"}
      /\ turn'.step \in {"stream", "fallback", "ok", "failed"}
      /\ billed' + turn.cost = billed + turn'.cost
  BY DriverStep DEF IInv, TypeOK, Drive
<1>2. /\ at = "asking" /\ UNCHANGED <<at, aborted, history, saved, cache, circuit>>
      /\ run' = IF turn'.step \in {"ok", "failed"} THEN [run EXCEPT !.total = run.before + turn'.cost] ELSE run
  BY DEF Drive, Total
<1>3. /\ run.before + turn.cost = billed /\ billed \in Nat /\ run.before \in Nat
      /\ turn.cost \in Nat /\ turn'.cost \in Nat
  BY <1>1, <1>2 DEF IInv, UsageInv, TypeOK, RunTypes, TurnTypes
<1>4. run.before + turn'.cost = billed'
  BY <1>1, <1>3
<1>5. /\ run' \in RunTypes /\ run'.before = run.before
      /\ turn'.step \in {"ok", "failed"} => run'.total = billed'
      /\ run'.session = run.session /\ run'.rounds = run.rounds
      /\ run'.batch = run.batch /\ run'.outs = run.outs /\ run'.refresh = run.refresh
  BY <1>1, <1>2, <1>4 DEF IInv, TypeOK, RunTypes
<1>6. TypeOK'
  BY <1>1, <1>2, <1>5 DEF IInv, TypeOK
<1>7. UsageInv'
  BY <1>1, <1>2, <1>4, <1>5 DEF UsageInv
<1>8. CallsInv'
  BY <1>2, <1>5 DEF IInv, CallsInv, AnsweredUpTo, OutputIds
<1>9. HistoryInv' /\ SessionInv'
  BY <1>2, <1>5, SessionStays
<1> QED
  BY <1>2, <1>5, <1>6, <1>7, <1>8, <1>9 DEF IInv, ConflictsAreKnown
-----------------------------------------------------------------------------
(* The steps of a run.                                                     *)
LEMMA StartKeeps ==
  ASSUME IInv, Start PROVE IInv'
<1> DEFINE row == [status |-> "running", effects |-> FALSE]
<1>1. /\ at = "off" /\ history' = Append(history, row) /\ at' = "ready" /\ billed' = 0
      /\ UNCHANGED <<turn, aborted, saved, cache, circuit>>
  BY DEF Start
<1>2. PICK said \in IF cache # {} THEN cache ELSE {ModelHistory} : run' = Begin(said)
  BY DEF Start
<1>3. said = ModelHistory
  BY <1>2 DEF IInv, SessionInv
<1>4. /\ history \in Seq(Rows) /\ row \in Rows /\ n \in Nat
      /\ row.status = "running" /\ row.effects = FALSE
  BY DEF IInv, TypeOK, Rows, Statuses, n
<1> HIDE DEF row
<1>5. /\ n' = n + 1 /\ DOMAIN history = 1 .. n /\ DOMAIN history' = 1 .. n + 1
      /\ \A i \in 1 .. n : history'[i] = history[i]
      /\ history'[n + 1] = row /\ history' \in Seq(Rows)
  BY <1>1, <1>4 DEF n
<1>6. ModelHistory' = ModelHistory
  <2>1. \A i \in 1 .. n : Told(i)' <=> Told(i)
    BY <1>5 DEF Told
  <2>2. PICK k \in Nat : k = n + 1
    BY <1>4
  <2>5. ~Told(k)'
    BY <1>4, <1>5, <2>2 DEF Told
  <2>3. DOMAIN history' = DOMAIN history \cup {k}
    BY <1>4, <1>5, <2>2
  <2>4. {j \in DOMAIN history : Told(j)}' = {j \in DOMAIN history : Told(j)}
    BY <1>5, <2>1, <2>5, <2>3
  <2> QED
    BY <2>4 DEF ModelHistory
<1>7. ModelHistory \subseteq {"user", "text"} \X Nat
  BY <1>4, <1>5 DEF ModelHistory
<1>8. /\ run' \in RunTypes
      /\ run'.session = Session(ModelHistory \cup {<<"user", n + 1>>})
      /\ run'.total = 0 /\ run'.rounds = 0 /\ run'.batch = <<>> /\ run'.outs = <<>>
      /\ run'.refresh = saved
  <2> DEFINE session == Session(ModelHistory \cup {<<"user", n + 1>>})
  <2>1. session \in Sessions
    BY <1>4, <1>7 DEF Session, Sessions
  <2>2. run' = [NoRun EXCEPT !.session = session, !.bypass = circuit, !.refresh = saved]
    BY <1>2, <1>3 DEF Begin, PendingRefreshes
  <2>3. saved \in BOOLEAN /\ circuit \in BOOLEAN
    BY DEF IInv, TypeOK
  <2> HIDE DEF session
  <2>4. NoRun.total = 0 /\ NoRun.rounds = 0 /\ NoRun.batch = <<>> /\ NoRun.outs = <<>>
    BY DEF NoRun
  <2>5. run' \in RunTypes
    BY <2>1, <2>2, <2>3, NoRunTyped DEF RunTypes
  <2>6. /\ run'.session = session /\ run'.refresh = saved
        /\ run'.total = 0 /\ run'.rounds = 0 /\ run'.batch = <<>> /\ run'.outs = <<>>
    BY <2>2, <2>3, <2>4, NoRunTyped DEF RunTypes
  <2> QED
    BY <2>5, <2>6 DEF session
<1>9. turn = NoTurn
  BY <1>1 DEF IInv, UsageInv
<1>10. TypeOK'
  BY <1>1, <1>5, <1>8 DEF IInv, TypeOK
<1>11. HistoryInv'
  BY <1>1, <1>4, <1>5 DEF IInv, HistoryInv, Told
<1>12. SessionInv'
  BY <1>1, <1>5, <1>6, <1>8 DEF IInv, SessionInv, Session
<1>13. UsageInv'
  BY <1>1, <1>8, <1>9, NoTurnTyped DEF UsageInv
<1>14. CallsInv'
  BY <1>1, <1>8 DEF CallsInv, OutputIds, AnsweredUpTo, Session
<1> QED
  BY <1>1, <1>8, <1>10, <1>11, <1>12, <1>13, <1>14 DEF IInv, ConflictsAreKnown

LEMMA OutputsTyped == ASSUME IInv, NEW ok PROVE Outputs(ok) \in SUBSET Tools
BY DEF IInv, TypeOK, RunTypes, Sessions, CallOf, Outputs

LEMMA SameRun ==
  ASSUME IInv, NEW purpose \in Purposes, NEW attempt \in Nat, NEW draft \in BOOLEAN, NEW evals \in Nat
  PROVE  /\ Same([run EXCEPT !.attempt = attempt, !.purpose = purpose])
         /\ Same([run EXCEPT !.purpose = purpose, !.attempt = attempt])
         /\ Same([run EXCEPT !.purpose = purpose, !.attempt = attempt, !.draft = draft, !.evals = evals])
         /\ Same([run EXCEPT !.attempt = attempt])
         /\ Same([run EXCEPT !.purpose = purpose])
         /\ Same([run EXCEPT !.bypass = TRUE])
         /\ \A c \in {"unknown", "response", "action"} : Same([run EXCEPT !.contract = c])
BY DEF IInv, TypeOK, Same, RunTypes

LEMMA RunTyped == IInv => /\ run.attempt \in Nat /\ run.evals \in Nat /\ run.draft \in BOOLEAN
                         /\ run.contract \in {"unknown", "response", "action"}
                         /\ turn.tools \in BOOLEAN /\ turn.text \in BOOLEAN
                         /\ billed \in Nat /\ saved \in BOOLEAN /\ circuit \in BOOLEAN
BY DEF IInv, TypeOK, RunTypes, TurnTypes

LEMMA AskKeeps ==
  ASSUME IInv, Ask PROVE IInv'
<1>1. at = "ready" /\ UNCHANGED <<billed, saved, circuit>>
  BY DEF Ask
<1>2. turn.step \notin {"stream", "fallback"}
  BY <1>1, NoTurnTyped DEF IInv, UsageInv
<1>3. CASE aborted # "none"
  BY <1>1, <1>3, FailKeeps, RunTyped DEF Ask
<1>4. CASE aborted = "none"
  <2> DEFINE report == ~Missing /\ BudgetOut /\ Applied
             choice == IF BudgetOut THEN "none" ELSE IF Missing THEN "required" ELSE "auto"
             r == [run EXCEPT !.attempt = 1, !.purpose = IF report THEN "report" ELSE "work"]
             t == IF report THEN ReportRequest
                  ELSE Asked(TRUE, TRUE, choice, Outputs(BOOLEAN), Outputs({TRUE}))
  <2>1. Same(r)
    BY SameRun, RunTyped DEF Purposes
  <2>2. t \in TurnTypes /\ t.step = "stream" /\ t.cost = 0
    BY AskedTyped, OutputsTyped DEF ReportRequest
  <2>3. Request(r, t)
    BY <1>4 DEF Ask
  <2> HIDE DEF r, t
  <2> QED
    BY <1>1, <1>2, <2>1, <2>2, <2>3, RequestKeeps
<1> QED
  BY <1>3, <1>4

LEMMA RetryKeeps ==
  ASSUME IInv, Retry \/ Recover \/ AskJson PROVE IInv'
<1>1. UNCHANGED <<billed, saved, circuit>> /\ at = "asking" /\ turn.step \notin {"stream", "fallback"}
  BY DEF Retry, Recover, AskJson, Ended
<1>2. CASE Retry
  <2>1. Same([run EXCEPT !.attempt = run.attempt + 1])
    <3>1. run.attempt + 1 \in Nat /\ run.evals \in Nat
      BY RunTyped
    <3> QED
      BY <3>1, SameRun DEF Purposes
  <2>2. Repeated \in TurnTypes /\ Repeated.step = "stream" /\ Repeated.cost = 0
    BY NoTurnTyped DEF Repeated, IInv, TypeOK, TurnTypes, Steps
  <2>3. Request([run EXCEPT !.attempt = run.attempt + 1], Repeated)
    BY <1>2 DEF Retry
  <2> QED
    BY <1>1, <2>1, <2>2, <2>3, RequestKeeps
<1>3. CASE Recover
  <2>1. Same([run EXCEPT !.purpose = "recovery"])
    BY SameRun, RunTyped DEF Purposes
  <2>2. ReportRequest \in TurnTypes /\ ReportRequest.step = "stream" /\ ReportRequest.cost = 0
    BY AskedTyped DEF ReportRequest
  <2> QED
    BY <1>1, <1>3, <2>1, <2>2, RequestKeeps DEF Recover
<1>4. CASE AskJson
  <2> DEFINE r == [run EXCEPT !.purpose = "json", !.attempt = 1]
             t == Asked(FALSE, FALSE, "none", {}, {})
  <2>1. Same(r)
    BY SameRun, RunTyped DEF Purposes
  <2>2. t \in TurnTypes /\ t.step = "stream" /\ t.cost = 0
    BY AskedTyped
  <2>3. Request(r, t)
    BY <1>4 DEF AskJson
  <2> HIDE DEF r, t
  <2> QED
    BY <1>1, <2>1, <2>2, <2>3, RequestKeeps
<1> QED
  BY <1>2, <1>3, <1>4

LEMMA EndingKeeps ==
  ASSUME IInv, ReportFails \/ RecoveryFails \/ TurnFails \/ ReportDone \/ HostFails PROVE IInv'
<1>1. at # "off" /\ UNCHANGED <<billed, saved, circuit>>
  BY DEF ReportFails, RecoveryFails, TurnFails, ReportDone, HostFails, Ended
<1>2. CASE Fail
  BY <1>1, <1>2, FailKeeps, RunTyped
<1>3. CASE Reported \/ Summarised
  BY <1>1, <1>3, EndKeeps, RunTyped DEF Reported, Summarised, Statuses
<1> QED
  BY <1>2, <1>3 DEF ReportFails, RecoveryFails, TurnFails, ReportDone, HostFails

LEMMA TextDoneKeeps ==
  ASSUME IInv, TextDone PROVE IInv'
<1>1. at = "asking" /\ turn.step = "ok" /\ UNCHANGED <<billed, saved, circuit>>
  BY DEF TextDone, Ended
<1>2. CASE Fail
  BY <1>1, <1>2, FailKeeps, RunTyped
<1>3. CASE Accept(turn.text)
  BY <1>1, <1>3, AcceptKeeps, RunTyped
<1>4. CASE Request(Judge(turn.text), JudgeRequest)
  <2>1. Same(Judge(turn.text))
    <3>1. run.evals + 1 \in Nat /\ turn.text \in BOOLEAN
      BY RunTyped
    <3> QED
      BY <3>1, SameRun DEF Judge, Purposes
  <2>2. JudgeRequest \in TurnTypes /\ JudgeRequest.step = "stream" /\ JudgeRequest.cost = 0
    BY AskedTyped DEF JudgeRequest
  <2> QED
    BY <1>1, <1>4, <2>1, <2>2, RequestKeeps
<1> QED
  BY <1>2, <1>3, <1>4 DEF TextDone

LEMMA VerdictKeeps ==
  ASSUME IInv, Verdict \/ Unjudged PROVE IInv'
<1>1. at = "asking" /\ turn.step \in {"ok", "failed"} /\ UNCHANGED <<billed, saved>> /\ circuit' \in BOOLEAN
  <2>1. CASE Verdict
    BY <2>1, RunTyped DEF Verdict, Ended
  <2>2. CASE Unjudged
    BY <2>2, RunTyped DEF Unjudged, Ended
  <2> QED
    BY <2>1, <2>2
<1>2. CASE Fail
  BY <1>1, <1>2, FailKeeps, RunTyped
<1>3. CASE Accept(run.draft)
  BY <1>1, <1>3, AcceptKeeps, RunTyped
<1>4. ASSUME NEW c \in {"unknown", "response", "action"}, Continue([run EXCEPT !.contract = c]) PROVE IInv'
  BY <1>1, <1>4, ContinueKeeps, SameRun DEF Purposes
<1>5. CASE Continue([run EXCEPT !.bypass = TRUE])
  BY <1>1, <1>5, ContinueKeeps, SameRun DEF Purposes
<1>6. CASE Verdict
  <2>1. PICK requirement \in {"response", "action"} :
          Accept(run.draft) \/ Fail \/ Continue([run EXCEPT !.contract = Merged(requirement)])
    BY <1>6 DEF Verdict
  <2>2. Merged(requirement) \in {"unknown", "response", "action"}
    BY DEF Merged
  <2> QED
    BY <1>2, <1>3, <1>4, <2>1, <2>2
<1> QED
  BY <1>3, <1>5, <1>6 DEF Unjudged
-----------------------------------------------------------------------------
(* The calls of a batch, and their answers.                                *)
LEMMA CallsDoneKeeps ==
  ASSUME IInv, CallsDone PROVE IInv'
<1>1. /\ at = "asking" /\ turn.step = "ok" /\ turn.calls # <<>>
      /\ UNCHANGED <<billed, saved, circuit>>
  BY DEF CallsDone, Ended
<1>2. CASE aborted # "none"
  BY <1>1, <1>2, FailKeeps, RunTyped DEF CallsDone
<1>3. CASE aborted = "none"
  <2> DEFINE calls == run.session.calls \cup Ids(turn.calls)
             session == [run.session EXCEPT !.calls = calls]
             forgotten == Forget(run)
  <2>1. /\ run \in RunTypes /\ run.rounds \in Nat /\ run.session \in Sessions
        /\ turn.calls \in Seq(Tools)
        /\ run.outs = <<>> /\ run.total = billed
        /\ {c.id : c \in run.session.calls} = OutputIds(run.session)
        /\ AnsweredUpTo(run.session, run.rounds)
    BY <1>1 DEF IInv, TypeOK, TurnTypes, RunTypes, CallsInv, UsageInv
  <2>2. forgotten \in RunTypes /\ forgotten.session = run.session /\ forgotten.rounds = run.rounds
        /\ forgotten.outs = run.outs /\ forgotten.refresh = run.refresh /\ forgotten.total = run.total
    BY <2>1 DEF Forget, RunTypes, Purposes
  <2>3. Ids(turn.calls) \subseteq CallOf
    <3>1. \A i \in DOMAIN turn.calls : i \in Nat /\ turn.calls[i] \in Tools
      BY <2>1
    <3> QED
      BY <2>1, <3>1 DEF Ids, CallOf, Ref
  <2>4. calls \subseteq CallOf
    BY <2>1, <2>3 DEF Sessions
  <2>5. session \in Sessions /\ session.calls = calls /\ session.outputs = run.session.outputs
        /\ session.said = run.session.said
    BY <2>1, <2>4 DEF Sessions
  <2>6. run' = [forgotten EXCEPT !.session = session, !.rounds = run.rounds + 1, !.batch = turn.calls]
    BY <1>3, <2>2 DEF CallsDone
  <2>7. at' = "calling" /\ turn' = NoTurn /\ UNCHANGED <<history, cache, aborted>>
    BY <1>3 DEF CallsDone
  <2>8. {c.id : c \in calls} = OutputIds(run.session) \cup {<<run.rounds + 1, i>> : i \in DOMAIN turn.calls}
    <3>1. {c.id : c \in Ids(turn.calls)} = {<<run.rounds + 1, i>> : i \in DOMAIN turn.calls}
      <4>1. ASSUME NEW c \in Ids(turn.calls) PROVE \E i \in DOMAIN turn.calls : c.id = <<run.rounds + 1, i>>
        BY DEF Ids
      <4>2. ASSUME NEW i \in DOMAIN turn.calls
            PROVE  \E c \in Ids(turn.calls) : c.id = <<run.rounds + 1, i>>
        <5>1. [id |-> <<run.rounds + 1, i>>, tool |-> turn.calls[i]] \in Ids(turn.calls)
          BY DEF Ids
        <5> QED
          BY <5>1
      <4> QED
        BY <4>1, <4>2
    <3>2. {c.id : c \in calls} = {c.id : c \in run.session.calls} \cup {c.id : c \in Ids(turn.calls)}
      OBVIOUS
    <3> QED
      BY <2>1, <3>1, <3>2
  <2> HIDE DEF calls, session, forgotten
  <2>9. /\ run' \in RunTypes /\ run'.session = session /\ run'.rounds = run.rounds + 1
        /\ run'.batch = turn.calls /\ run'.outs = <<>> /\ run'.refresh = run.refresh
        /\ run'.total = billed
    <3>1. run.rounds + 1 \in Nat
      BY <2>1
    <3>2. run' \in RunTypes
      BY <2>1, <2>2, <2>5, <2>6, <3>1 DEF RunTypes
    <3> QED
      BY <2>1, <2>2, <2>5, <2>6, <3>1 DEF RunTypes
  <2>10. TypeOK'
    BY <1>1, <2>7, <2>9, NoTurnTyped DEF IInv, TypeOK
  <2>11. HistoryInv' /\ SessionInv'
    BY <1>1, <2>5, <2>7, <2>9, SessionStays
  <2>12. UsageInv'
    BY <1>1, <2>7, <2>9, NoTurnTyped DEF UsageInv
  <2>13. CallsInv'
    <3>1. Len(<<>>) < Len(turn.calls) /\ run.rounds + 1 > 0 /\ run.rounds + 1 - 1 = run.rounds
      BY <1>1, <2>1
    <3>2. AnsweredUpTo(session, run.rounds)
      BY <2>1, <2>5 DEF AnsweredUpTo
    <3>3. OutputIds(session) = OutputIds(run.session)
      BY <2>5 DEF OutputIds
    <3>4. {c.id : c \in session.calls} = OutputIds(session) \cup {<<run.rounds + 1, i>> : i \in DOMAIN turn.calls}
      BY <2>5, <2>8, <3>3
    <3>5. run'.rounds - 1 = run.rounds
      BY <2>1, <2>9
    <3> QED
      BY <2>7, <2>9, <3>1, <3>2, <3>4, <3>5 DEF CallsInv, BatchIds
  <2> QED
    BY <1>1, <2>7, <2>9, <2>10, <2>11, <2>12, <2>13 DEF IInv, ConflictsAreKnown
<1> QED
  BY <1>2, <1>3

(* The run, with the outputs so far, goes on with the batch or is answered.*)
LEMMA AnswerKeeps ==
  ASSUME IInv, at = "calling", NEW r \in RunTypes, Answer(r),
         r.session = run.session, r.rounds = run.rounds, r.batch = run.batch, r.total = run.total,
         Len(r.outs) <= Len(r.batch), UNCHANGED <<turn, billed, cache>>,
         history' \in Seq(Rows), Len(history') = Len(history),
         \A i \in DOMAIN history : history'[i].status = history[i].status,
         \A i \in DOMAIN history \ {n} : history'[i] = history[i],
         aborted' \in {"none", "user", "time"}, saved' \in BOOLEAN, circuit' \in BOOLEAN,
         r.refresh = saved'
  PROVE  IInv'
<1>1. /\ run.rounds \in Nat /\ run.rounds > 0 /\ run.session \in Sessions
      /\ r.outs \in Seq(BOOLEAN) /\ r.batch \in Seq(Tools)
      /\ {c.id : c \in run.session.calls} = OutputIds(run.session) \cup BatchIds(run)
      /\ AnsweredUpTo(run.session, run.rounds - 1)
      /\ turn = NoTurn /\ run.total = billed
  BY NoTurnTyped DEF IInv, TypeOK, RunTypes, CallsInv, UsageInv
<1>2. n' = n /\ DOMAIN history' = DOMAIN history /\ history \in Seq(Rows)
  BY DEF n, IInv, TypeOK
<1>3. ModelHistory' = ModelHistory
  BY <1>2 DEF ModelHistory, Told
<1>4. CASE Len(r.outs) < Len(r.batch)
  <2>1. at' = "calling" /\ run' = r
    BY <1>4 DEF Answer
  <2>2. TypeOK'
    BY <1>1, <2>1 DEF IInv, TypeOK
  <2>3. HistoryInv' /\ SessionInv'
    BY <1>2, <1>3, <2>1 DEF IInv, HistoryInv, SessionInv, Told
  <2>4. UsageInv'
    BY <1>1, <2>1, NoTurnTyped DEF UsageInv
  <2>5. CallsInv'
    BY <1>1, <1>4, <2>1 DEF CallsInv, BatchIds
  <2> QED
    BY <2>1, <2>2, <2>3, <2>4, <2>5 DEF IInv, ConflictsAreKnown
<1>5. CASE ~(Len(r.outs) < Len(r.batch))
  <2> DEFINE outputs == run.session.outputs \cup Results(r)
             session == [run.session EXCEPT !.outputs = outputs]
  <2>1. DOMAIN r.outs = DOMAIN r.batch
    BY <1>1, <1>5
  <2>2. at' = "ready" /\ run' = [r EXCEPT !.batch = <<>>, !.outs = <<>>, !.session = session]
    BY <1>5 DEF Answer
  <2>3. Results(r) \subseteq OutputOf
    BY <1>1 DEF Results, OutputOf, Ref
  <2>4. session \in Sessions /\ session.calls = run.session.calls /\ session.outputs = outputs
        /\ session.said = run.session.said
    BY <1>1, <2>3 DEF Sessions
  <2>5. {o.id : o \in outputs} = OutputIds(run.session) \cup {<<run.rounds, i>> : i \in DOMAIN r.batch}
    <3>1. {o.id : o \in Results(r)} = {<<run.rounds, i>> : i \in DOMAIN r.batch}
      <4>1. ASSUME NEW o \in Results(r) PROVE \E i \in DOMAIN r.batch : o.id = <<run.rounds, i>>
        BY <2>1 DEF Results
      <4>2. ASSUME NEW i \in DOMAIN r.batch PROVE \E o \in Results(r) : o.id = <<run.rounds, i>>
        <5>1. [id |-> <<run.rounds, i>>, ok |-> r.outs[i]] \in Results(r)
          BY <2>1 DEF Results
        <5> QED
          BY <5>1
      <4> QED
        BY <4>1, <4>2
    <3>2. {o.id : o \in outputs} = {o.id : o \in run.session.outputs} \cup {o.id : o \in Results(r)}
      OBVIOUS
    <3> QED
      BY <3>1, <3>2 DEF OutputIds
  <2>6. /\ \A o \in outputs : o.id[1] <= run.rounds
        /\ \A o, p \in outputs : o.id = p.id => o = p
    <3>1. ASSUME NEW o \in run.session.outputs PROVE o.id[1] \in Nat /\ o.id[1] <= run.rounds - 1
      BY <1>1, <3>1 DEF AnsweredUpTo, Sessions, OutputOf, Ref
    <3>2. ASSUME NEW o \in Results(r)
          PROVE \E i \in DOMAIN r.outs : o = [id |-> <<run.rounds, i>>, ok |-> r.outs[i]]
      BY <3>2 DEF Results
    <3>3. \A o \in Results(r) : o.id[1] = run.rounds
      BY <3>2
    <3>4. \A o \in outputs : o.id[1] <= run.rounds
      BY <1>1, <3>1, <3>3
    <3>5. ASSUME NEW o \in outputs, NEW p \in outputs, o.id = p.id PROVE o = p
      <4>1. CASE o \in Results(r) /\ p \in Results(r)
        <5>1. PICK i \in DOMAIN r.outs : o = [id |-> <<run.rounds, i>>, ok |-> r.outs[i]]
          BY <4>1, <3>2
        <5>2. PICK j \in DOMAIN r.outs : p = [id |-> <<run.rounds, j>>, ok |-> r.outs[j]]
          BY <4>1, <3>2
        <5>3. i = j
          BY <3>5, <5>1, <5>2
        <5> QED
          BY <5>1, <5>2, <5>3
      <4>2. CASE o \in run.session.outputs /\ p \in run.session.outputs
        BY <1>1, <3>5, <4>2 DEF AnsweredUpTo
      <4>3. CASE o \in Results(r) /\ p \in run.session.outputs
        BY <1>1, <3>1, <3>3, <3>5, <4>3
      <4>4. CASE p \in Results(r) /\ o \in run.session.outputs
        BY <1>1, <3>1, <3>3, <3>5, <4>4
      <4> QED
        BY <4>1, <4>2, <4>3, <4>4
    <3> QED
      BY <3>4, <3>5
  <2> HIDE DEF outputs, session
  <2>7. /\ run' \in RunTypes /\ run'.session = session /\ run'.batch = <<>> /\ run'.outs = <<>>
        /\ run'.rounds = run.rounds /\ run'.refresh = r.refresh /\ run'.total = run.total
    <3>1. <<>> \in Seq(Tools) /\ <<>> \in Seq(BOOLEAN)
      OBVIOUS
    <3>2. run' \in RunTypes
      BY <2>2, <2>4, <3>1 DEF RunTypes
    <3>3. run'.session = session /\ run'.batch = <<>> /\ run'.outs = <<>>
      BY <2>2 DEF RunTypes
    <3>4. run'.rounds = run.rounds /\ run'.refresh = r.refresh /\ run'.total = run.total
      BY <2>2 DEF RunTypes
    <3> QED
      BY <3>2, <3>3, <3>4
  <2>8. TypeOK'
    BY <1>1, <2>2, <2>7 DEF IInv, TypeOK
  <2>9. HistoryInv' /\ SessionInv'
    BY <1>2, <1>3, <2>2, <2>4, <2>7 DEF IInv, HistoryInv, SessionInv, Told
  <2>10. UsageInv'
    BY <1>1, <2>2, <2>7, NoTurnTyped DEF UsageInv
  <2>11. CallsInv'
    BY <1>1, <2>2, <2>4, <2>5, <2>6, <2>7 DEF CallsInv, OutputIds, AnsweredUpTo, BatchIds
  <2> QED
    BY <2>2, <2>7, <2>8, <2>9, <2>10, <2>11 DEF IInv, ConflictsAreKnown
<1> QED
  BY <1>4, <1>5

LEMMA RejectBatchKeeps ==
  ASSUME IInv, RejectBatch PROVE IInv'
<1> DEFINE outs == [i \in DOMAIN run.batch |-> FALSE]
           r == [run EXCEPT !.outs = outs]
<1>1. /\ at = "calling" /\ Answer(r)
      /\ UNCHANGED <<driverVars, aborted, history, saved, cache, circuit>>
  BY DEF RejectBatch
<1>2. run \in RunTypes /\ run.batch \in Seq(Tools) /\ run.refresh = saved
  BY <1>1 DEF IInv, TypeOK, RunTypes, ConflictsAreKnown
<1>3. outs \in Seq(BOOLEAN) /\ Len(outs) = Len(run.batch)
  <2>1. Len(run.batch) \in Nat /\ DOMAIN run.batch = 1 .. Len(run.batch)
    BY <1>2
  <2>2. outs \in [1 .. Len(run.batch) -> BOOLEAN]
    BY <2>1
  <2> QED
    BY <2>1, <2>2
<1> HIDE DEF outs
<1>4. /\ r \in RunTypes /\ r.outs = outs /\ r.session = run.session /\ r.rounds = run.rounds
      /\ r.batch = run.batch /\ r.total = run.total /\ r.refresh = run.refresh
  BY <1>2, <1>3 DEF RunTypes
<1>5. history \in Seq(Rows) /\ aborted \in {"none", "user", "time"} /\ saved \in BOOLEAN /\ circuit \in BOOLEAN
  BY DEF IInv, TypeOK
<1>6. Len(run.batch) \in Nat
  BY <1>2
<1> HIDE DEF r
<1> QED
  BY <1>1, <1>2, <1>3, <1>4, <1>5, <1>6, AnswerKeeps DEF driverVars

LEMMA ExecuteKeeps ==
  ASSUME IInv, Execute PROVE IInv'
<1> DEFINE tool == run.batch[Len(run.outs) + 1]
<1>1. at = "calling" /\ UNCHANGED <<billed, circuit>>
  BY DEF Execute
<1>2. PICK o \in Outcomes(tool) :
        IF (aborted # "none" /\ o # "blocked") \/ (o = "failed" /\ tool \in run.refused)
        THEN Fail /\ UNCHANGED saved
        ELSE /\ Answer(Executed(tool, o))
             /\ saved' = ((saved \/ o = "conflict") /\ o # "read")
             /\ history' = [history EXCEPT ![n].effects = @ \/ o = "applied"]
             /\ UNCHANGED <<turn, aborted, cache>>
  BY DEF Execute
<1>3. CASE Fail /\ UNCHANGED saved
  BY <1>1, <1>3, FailKeeps, RunTyped
<1>4. CASE /\ Answer(Executed(tool, o))
           /\ saved' = ((saved \/ o = "conflict") /\ o # "read")
           /\ history' = [history EXCEPT ![n].effects = @ \/ o = "applied"]
           /\ UNCHANGED <<turn, aborted, cache>>
  <2>1. /\ run \in RunTypes /\ run.refresh = saved /\ Len(run.outs) < Len(run.batch)
        /\ run.batch \in Seq(Tools) /\ run.outs \in Seq(BOOLEAN) /\ run.refused \subseteq Tools
        /\ run.failed \in BOOLEAN /\ run.refresh \in BOOLEAN
        /\ saved \in BOOLEAN /\ circuit \in BOOLEAN /\ aborted \in {"none", "user", "time"}
    BY <1>1 DEF IInv, TypeOK, RunTypes, CallsInv, ConflictsAreKnown
  <2>2. tool \in Tools
    <3>1. Len(run.outs) \in Nat /\ Len(run.batch) \in Nat
      BY <2>1
    <3> QED
      BY <2>1, <3>1
  <2> HIDE DEF tool
  <2> DEFINE outs == Append(run.outs, o \in {"read", "applied"})
             refresh == (run.refresh \/ o = "conflict") /\ o # "read"
             failed == (run.failed \/ (tool = "edit" /\ o \in {"conflict", "failed"})) /\ o # "applied"
             refused == IF o = "applied" THEN {} ELSE IF o = "failed" THEN run.refused \cup {tool}
                        ELSE run.refused
             r == [run EXCEPT !.outs = outs, !.refresh = refresh, !.failed = failed, !.refused = refused]
  <2>3. outs \in Seq(BOOLEAN) /\ Len(outs) = Len(run.outs) + 1
    BY <2>1
  <2>4. refresh \in BOOLEAN /\ failed \in BOOLEAN /\ refused \subseteq Tools /\ refresh = saved'
    BY <1>4, <2>1, <2>2
  <2>5. Answer(r)
    BY <1>4 DEF Executed
  <2>6. Len(run.outs) + 1 <= Len(run.batch)
    <3>1. Len(run.outs) \in Nat /\ Len(run.batch) \in Nat
      BY <2>1
    <3> QED
      BY <2>1, <3>1
  <2> HIDE DEF outs, refresh, failed, refused
  <2>7. r \in RunTypes
    BY <2>1, <2>3, <2>4 DEF RunTypes
  <2>8. /\ r.outs = outs /\ r.session = run.session /\ r.rounds = run.rounds
        /\ r.batch = run.batch /\ r.total = run.total /\ r.refresh = refresh
    BY <2>1 DEF RunTypes
  <2> HIDE DEF r
  <2> DEFINE row == [history[n] EXCEPT !.effects = history[n].effects \/ o = "applied"]
  <2>9. /\ history \in Seq(Rows) /\ n \in DOMAIN history /\ history[n] \in Rows
    <3>1. history \in Seq(Rows) /\ n > 0
      BY <1>1 DEF IInv, TypeOK, HistoryInv
    <3>2. n \in DOMAIN history
      BY <3>1 DEF n
    <3> QED
      BY <3>1, <3>2
  <2>10. row \in Rows /\ row.status = history[n].status
    <3>1. (history[n].effects \/ o = "applied") \in BOOLEAN
      BY <2>9 DEF Rows
    <3> QED
      BY <2>9, <3>1 DEF Rows
  <2>11. history' = [history EXCEPT ![n] = row]
    BY <1>4
  <2> HIDE DEF row
  <2>12. /\ history' \in Seq(Rows) /\ Len(history') = Len(history)
         /\ \A i \in DOMAIN history : history'[i].status = history[i].status
         /\ \A i \in DOMAIN history \ {n} : history'[i] = history[i]
    BY <2>9, <2>10, <2>11
  <2>13. saved' \in BOOLEAN /\ r.refresh = saved' /\ Len(r.outs) <= Len(r.batch)
    BY <2>3, <2>4, <2>6, <2>8
  <2> QED
    BY <1>1, <1>4, <2>1, <2>5, <2>7, <2>8, <2>12, <2>13, AnswerKeeps
<1> QED
  BY <1>2, <1>3, <1>4

(* Around the run.                                                         *)
LEMMA OutsideKeeps ==
  ASSUME IInv, Cancel \/ Timeout \/ Evict \/ UNCHANGED vars PROVE IInv'
<1>1. /\ UNCHANGED <<turn, billed, at, run, history, saved, circuit>>
      /\ cache' = cache \/ cache' = {}
      /\ aborted' \in {"none", "user", "time"}
  BY DEF Cancel, Timeout, Evict, vars, driverVars, IInv, TypeOK
<1>2. TypeOK'
  BY <1>1 DEF IInv, TypeOK
<1>3. HistoryInv' /\ SessionInv'
  BY <1>1 DEF IInv, HistoryInv, SessionInv, ModelHistory, Told, n
<1>4. UsageInv' /\ CallsInv' /\ ConflictsAreKnown'
  BY <1>1 DEF IInv, UsageInv, CallsInv, ConflictsAreKnown, BatchIds, OutputIds, AnsweredUpTo
<1> QED
  BY <1>2, <1>3, <1>4 DEF IInv

LEMMA RestartKeeps ==
  ASSUME IInv, Restart PROVE IInv'
<1> DEFINE after(row) == IF row.status = "running" THEN [row EXCEPT !.status = "interrupted"] ELSE row
<1>1. /\ history' = [i \in DOMAIN history |-> after(history[i])]
      /\ at' = "off" /\ run' = NoRun /\ turn' = NoTurn /\ aborted' = "none"
      /\ cache' = {} /\ circuit' = FALSE /\ UNCHANGED <<billed, saved>>
  BY DEF Restart
<1>2. history \in Seq(Rows) /\ billed \in Nat /\ saved \in BOOLEAN
  BY DEF IInv, TypeOK
<1>3. ASSUME NEW row \in Rows
      PROVE  /\ after(row) \in Rows /\ after(row).effects = row.effects
             /\ after(row).status = IF row.status = "running" THEN "interrupted" ELSE row.status
  BY DEF Rows, Statuses
<1> HIDE DEF after
<1>4. \A i \in DOMAIN history : history[i] \in Rows
  BY <1>2
<1>5. history' \in Seq(Rows) /\ DOMAIN history' = DOMAIN history
      /\ \A i \in DOMAIN history : history'[i] = after(history[i])
  <2>1. Len(history) \in Nat /\ DOMAIN history = 1 .. Len(history)
    BY <1>2
  <2>2. history' \in [1 .. Len(history) -> Rows]
    BY <1>1, <1>3, <1>4, <2>1
  <2> QED
    BY <1>1, <2>1, <2>2
<1>6. TypeOK'
  BY <1>1, <1>2, <1>5, NoTurnTyped, NoRunTyped DEF TypeOK
<1>7. HistoryInv'
  BY <1>1, <1>3, <1>4, <1>5 DEF IInv, HistoryInv, Told
<1> QED
  BY <1>1, <1>6, <1>7 DEF IInv, SessionInv, UsageInv, CallsInv, ConflictsAreKnown

LEMMA Inductive == Spec => []IInv
<1>1. IInv /\ [Next]_vars => IInv'
  <2> SUFFICES ASSUME IInv, [Next]_vars PROVE IInv'
    OBVIOUS
  <2>1. CASE Start
    BY <2>1, StartKeeps
  <2>2. CASE Ask \/ Drive \/ Retry \/ Recover \/ AskJson
    BY <2>2, AskKeeps, DriveKeeps, RetryKeeps
  <2>3. CASE ReportFails \/ RecoveryFails \/ TurnFails \/ ReportDone \/ HostFails
    BY <2>3, EndingKeeps
  <2>4. CASE TextDone \/ Verdict \/ Unjudged
    BY <2>4, TextDoneKeeps, VerdictKeeps
  <2>5. CASE CallsDone \/ RejectBatch \/ Execute
    BY <2>5, CallsDoneKeeps, RejectBatchKeeps, ExecuteKeeps
  <2>6. CASE Cancel \/ Timeout \/ Evict \/ UNCHANGED vars
    BY <2>6, OutsideKeeps
  <2>7. CASE Restart
    BY <2>7, RestartKeeps
  <2> QED
    BY <2>1, <2>2, <2>3, <2>4, <2>5, <2>6, <2>7 DEF Next, Progress
<1> QED
  BY InitHolds, <1>1, PTL DEF Spec
-----------------------------------------------------------------------------
(* A session that was kept says what the database would say, whatever      *)
(* ended the runs, evicted or restarted meanwhile (commitConversation,     *)
(* modelHistory of agent.ts).                                              *)
THEOREM KeptSessionIsHistory == Spec => []CacheIsHistory
<1>1. IInv => CacheIsHistory
  BY DEF IInv, SessionInv, CacheIsHistory
<1> QED
  BY Inductive, <1>1, PTL

(* Each call of a session has exactly one output when the provider is      *)
(* asked, for every batch, also when the batch was rejected or a call      *)
(* failed (appendToolResults).                                             *)
THEOREM EveryCallIsAnswered == Spec => []SessionIsAnswered
<1>1. IInv => SessionIsAnswered
  BY DEF IInv, CallsInv, SessionIsAnswered, OutputIds, AnsweredUpTo
<1> QED
  BY Inductive, <1>1, PTL

(* What a run reports is the sum of what its answers cost, over every      *)
(* number of attempts, fallbacks and repetitions (usageBeforeTurn).        *)
THEOREM UsageIsExact == Spec => []UsageCountedOnce
<1>1. IInv => UsageCountedOnce
  BY DEF IInv, UsageInv, UsageCountedOnce
<1> QED
  BY Inductive, <1>1, PTL

(* Unless the user cancelled the run or the application crashed, an effect *)
(* is told to the later runs (finishInterruptedWithHostSummary).           *)
THEOREM EffectsAreNotForgotten == Spec => []EffectsAreTold
<1>1. IInv => EffectsAreTold
  <2> SUFFICES ASSUME IInv PROVE EffectsAreTold
    OBVIOUS
  <2>1. ASSUME at # "off", NEW i \in 1 .. n - 1, Told(i) PROVE <<"text", i>> \in run.session.said
    <3>1. run.session.said = ModelHistory \cup {<<"user", n>>} /\ history \in Seq(Rows)
      BY <2>1 DEF IInv, SessionInv, TypeOK
    <3>2. i \in DOMAIN history
      BY <3>1 DEF n
    <3> QED
      BY <2>1, <3>1, <3>2 DEF ModelHistory
  <2> QED
    BY <2>1 DEF IInv, HistoryInv, EffectsAreTold
<1> QED
  BY Inductive, <1>1, PTL

(* A run knows of the conflicts left by earlier runs, failed and restarted *)
(* ones included, and of no other (pendingMutationRefreshes).              *)
THEOREM ConflictsSurvive == Spec => []ConflictsAreKnown
<1>1. IInv => ConflictsAreKnown
  BY DEF IInv
<1> QED
  BY Inductive, <1>1, PTL
=============================================================================
